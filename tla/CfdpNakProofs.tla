---------------------------- MODULE CfdpNakProofs ----------------------------
(***************************************************************************)
(* TLAPS proofs about CfdpNak, for every set of data fields and every      *)
(* capacity of the request list.                                           *)
(***************************************************************************)
EXTENDS CfdpNak, CfdpLemmas

-----------------------------------------------------------------------------
(* The scope of a data field that is long enough for one.                  *)
LEMMA WithScopeType ==
  ASSUME nak \in Nak, NEW f \in Seq(Octet), NEW flag \in {0, 1}, ~ NotNak(f, flag)
  PROVE  /\ WithScope(f, flag) \in Nak
         /\ WithScope(f, flag).segment_requests = nak.segment_requests
         /\ WithScope(f, flag).segment_request_count = nak.segment_request_count
         /\ WithScope(f, flag).start_of_scope = ReadRange(f, flag, 1).start_offset
         /\ WithScope(f, flag).end_of_scope = ReadRange(f, flag, 1).end_offset
<1> DEFINE scope == ReadRange(f, flag, 1)
<1>1. scope \in Range64
  <2>1. 1 + Pair(flag) <= Len(f)
    <3>1. Len(f) \in Nat /\ Pair(flag) \in {8, 16} /\ ScopeLen(flag) = 1 + Pair(flag)
      BY LenProperties, Widths
    <3> QED BY <3>1 DEF NotNak
  <2> QED BY <2>1, ReadRangeType
<1>2. scope.start_offset \in UInt64 /\ scope.end_offset \in UInt64
  <2> HIDE DEF scope
  <2> QED BY <1>1 DEF Range64
<1>3. WithScope(f, flag) = [nak EXCEPT !.start_of_scope = scope.start_offset,
                                       !.end_of_scope = scope.end_offset]
  BY DEF WithScope
<1> HIDE DEF scope
<1>4. /\ WithScope(f, flag) \in Nak
      /\ WithScope(f, flag).segment_requests = nak.segment_requests
      /\ WithScope(f, flag).segment_request_count = nak.segment_request_count
      /\ WithScope(f, flag).start_of_scope = scope.start_offset
      /\ WithScope(f, flag).end_of_scope = scope.end_offset
  BY <1>2, <1>3 DEF Nak
<1> QED BY <1>4 DEF scope

-----------------------------------------------------------------------------
(* The inductive invariant.                                                *)

LEMMA InitInvariant ==
  Init => IInv
<1> SUFFICES ASSUME Init PROVE IInv
  OBVIOUS
<1>1. Zeros(8) \in UInt64
  BY DEF Zeros, UInt64, Octet
<1>2. nak \in Nak
  BY <1>1, NakAssumption, MaxRequestsAssumption DEF Init, ClearNak, Nak, Range64
<1>3. TypeOK
  BY <1>2, NakAssumption, MaxRequestsAssumption DEF Init, TypeOK
<1>4. Reported = << >>
  <2>1. nak.segment_request_count = 0
    BY DEF Init, ClearNak
  <2> QED BY <2>1 DEF Reported
<1>5. ~ Decodable(field, large)
  <2>1. Len(<< >>) = 0 /\ ScopeLen(0) = 1 + Pair(0) /\ Pair(0) \in {8, 16}
    BY Widths
  <2>2. Len(<< >>) < ScopeLen(0)
    BY <2>1
  <2> QED BY <2>2 DEF Init, Decodable, NotNak
<1> QED BY <1>3, <1>4, <1>5 DEF Init, IInv, Decoded, ListOfOneNak

(* A call that fails before the loop leaves the list alone.                *)
LEMMA RejectCallInvariant ==
  ASSUME IInv, NEW f \in Fields, NEW flag \in {0, 1}, RejectCall(f, flag)
  PROVE  IInv'
<1>1. /\ TypeOK /\ ListOfOneNak /\ pc = "idle" /\ pc' = "idle"
      /\ f \in Seq(Octet) /\ field' = f /\ large' = flag
      /\ calls' \in 0 .. MaxCalls
      /\ ret' = 0 /\ ~ Decodable(f, flag)
      /\ UNCHANGED <<i, kept>>
      /\ nak' = IF NotNak(f, flag) THEN nak ELSE WithScope(f, flag)
  BY NakAssumption, MaxRequestsAssumption DEF IInv, TypeOK, RejectCall, Begin
<1>2. /\ nak' \in Nak
      /\ nak'.segment_requests = nak.segment_requests
      /\ nak'.segment_request_count = nak.segment_request_count
  BY <1>1, WithScopeType DEF TypeOK
<1>3. TypeOK'
  BY <1>1, <1>2 DEF TypeOK
<1>4. ListOfOneNak'
  BY <1>1, <1>2 DEF ListOfOneNak, Reported
<1> QED BY <1>1, <1>3, <1>4 DEF IInv, Decoded

(* A call that enters the loop starts with an empty list.                  *)
LEMMA EnterLoopInvariant ==
  ASSUME IInv, NEW f \in Fields, NEW flag \in {0, 1}, EnterLoop(f, flag)
  PROVE  IInv'
<1>1. /\ TypeOK /\ pc' = "loop" /\ i' = 0
      /\ f \in Seq(Octet) /\ field' = f /\ large' = flag
      /\ calls' \in 0 .. MaxCalls
      /\ UNCHANGED <<ret, kept>>
      /\ Decodable(f, flag) /\ ~ NotNak(f, flag)
      /\ nak' = [WithScope(f, flag) EXCEPT !.segment_request_count = 0]
  BY NakAssumption, MaxRequestsAssumption DEF IInv, TypeOK, EnterLoop, Begin, Decodable
<1>2. WithScope(f, flag) \in Nak
  BY <1>1, WithScopeType DEF TypeOK
<1>3. /\ nak' \in Nak /\ nak'.segment_request_count = 0
      /\ nak'.start_of_scope = WithScope(f, flag).start_of_scope
      /\ nak'.end_of_scope = WithScope(f, flag).end_of_scope
  BY <1>1, <1>2, NakAssumption, MaxRequestsAssumption DEF Nak
<1>4. TypeOK'
  BY <1>1, <1>3, NakAssumption, MaxRequestsAssumption DEF TypeOK
<1>5. TakenSoFar'
  <2>1. /\ nak'.start_of_scope = ReadRange(f, flag, 1).start_offset
        /\ nak'.end_of_scope = ReadRange(f, flag, 1).end_offset
    BY <1>1, <1>3, WithScopeType DEF TypeOK
  <2> QED BY <1>1, <1>3, <2>1 DEF TakenSoFar
<1>6. i' <= Count(field', large')
  BY <1>1, DecodableLength
<1> QED BY <1>1, <1>4, <1>5, <1>6 DEF IInv, Decoded, ListOfOneNak

(* An iteration stores the request at its place in the data field, which   *)
(* the array has room for.                                                 *)
LEMMA TakeRequestInvariant ==
  ASSUME IInv, TakeRequest
  PROVE  IInv'
<1> DEFINE at == ScopeLen(large) + i * Pair(large)
           range == ReadRange(field, large, at)
<1>1. /\ TypeOK /\ TakenSoFar /\ Decodable(field, large)
      /\ field \in Seq(Octet) /\ large \in {0, 1} /\ i \in Nat /\ nak \in Nak
      /\ pc = "loop" /\ i < Count(field, large)
      /\ UNCHANGED <<pc, field, large, ret, calls, kept>>
      /\ i' = i + 1
      /\ nak' = [nak EXCEPT !.segment_requests[i + 1] = range,
                            !.segment_request_count = @ + 1]
  BY DEF IInv, TypeOK, TakeRequest
<1>2. /\ Count(field, large) \in 0 .. MaxRequests
      /\ Len(field) = ScopeLen(large) + Count(field, large) * Pair(large)
  BY <1>1, DecodableLength
<1>3. range \in Range64
  <2>1. Pair(large) \in {8, 16} /\ ScopeLen(large) = 1 + Pair(large)
    BY <1>1, Widths
  <2>2. at \in Nat /\ at + Pair(large) <= Len(field)
    <3>1. CASE Pair(large) = 8
      BY <1>1, <1>2, <2>1, <3>1
    <3>2. CASE Pair(large) = 16
      BY <1>1, <1>2, <2>1, <3>2
    <3> QED BY <2>1, <3>1, <3>2
  <2> HIDE DEF at
  <2> QED BY <1>1, <2>2, ReadRangeType
<1> HIDE DEF range
<1>4. i + 1 \in 1 .. MaxRequests /\ i + 1 <= Count(field, large)
  BY <1>1, <1>2, NakAssumption, MaxRequestsAssumption
<1>5. nak.segment_request_count = i
  BY <1>1 DEF TakenSoFar
<1>6. /\ nak' \in Nak
      /\ nak'.segment_request_count = i + 1
      /\ nak'.start_of_scope = nak.start_of_scope /\ nak'.end_of_scope = nak.end_of_scope
      /\ nak'.segment_requests = [nak.segment_requests EXCEPT ![i + 1] = range]
  <2>1. nak.segment_requests \in [1 .. MaxRequests -> Range64]
    BY <1>1 DEF Nak
  <2>2. [nak.segment_requests EXCEPT ![i + 1] = range] \in [1 .. MaxRequests -> Range64]
    BY <1>3, <1>4, <2>1
  <2>3. i + 1 \in 0 .. MaxRequests
    BY <1>4, NakAssumption, MaxRequestsAssumption
  <2> QED BY <1>1, <1>5, <2>2, <2>3 DEF Nak
<1>7. TypeOK'
  BY <1>1, <1>4, <1>6, NakAssumption, MaxRequestsAssumption DEF TypeOK
<1>8. TakenSoFar'
  <2> SUFFICES ASSUME NEW k \in 1 .. i + 1
               PROVE  nak'.segment_requests[k]
                        = ReadRange(field, large, ScopeLen(large) + (k - 1) * Pair(large))
    BY <1>1, <1>6 DEF TakenSoFar
  <2>1. CASE k = i + 1
    <3>1. nak'.segment_requests[k] = range
      BY <1>1, <1>4, <1>6, <2>1 DEF Nak
    <3>2. k - 1 = i
      BY <1>1, <2>1
    <3> QED BY <3>1, <3>2 DEF range
  <2>2. CASE k # i + 1
    <3>1. k \in 1 .. i
      BY <1>1, <2>2
    <3>2. nak'.segment_requests[k] = nak.segment_requests[k]
      BY <1>1, <1>4, <1>6, <2>2, <3>1 DEF Nak
    <3> QED BY <1>1, <3>1, <3>2 DEF TakenSoFar
  <2> QED BY <2>1, <2>2
<1> QED BY <1>1, <1>4, <1>7, <1>8 DEF IInv, Decoded, ListOfOneNak

(* The loop ends at the end of the data field.                             *)
LEMMA FinishInvariant ==
  ASSUME IInv, Finish
  PROVE  IInv'
<1>1. /\ TypeOK /\ TakenSoFar /\ Decodable(field, large)
      /\ field \in Seq(Octet) /\ large \in {0, 1} /\ i \in Nat /\ nak \in Nak
      /\ pc' = "idle" /\ i = Count(field, large)
      /\ UNCHANGED <<field, large, i, nak, calls>>
      /\ kept' = Reported
      /\ ret' = IF i * Pair(large) = 0 /\ Len(field) # ScopeLen(large) THEN 0
                ELSE ScopeLen(large) + i * Pair(large)
  BY DEF IInv, TypeOK, Finish
<1>2. Len(field) = ScopeLen(large) + i * Pair(large)
  BY <1>1, DecodableLength
<1>3. ret' = Len(field) /\ Len(field) \in Nat /\ ret' > 0
  <2>1. Len(field) \in Nat
    BY <1>1, LenProperties
  <2>2. Pair(large) \in {8, 16} /\ ScopeLen(large) = 1 + Pair(large)
    BY <1>1, Widths
  <2>3. CASE Pair(large) = 8
    BY <1>1, <1>2, <2>1, <2>2, <2>3
  <2>4. CASE Pair(large) = 16
    BY <1>1, <1>2, <2>1, <2>2, <2>4
  <2> QED BY <2>2, <2>3, <2>4
<1>4. Reported \in Seq(Range64)
  <2> DEFINE count == nak.segment_request_count
             requests == nak.segment_requests
  <2>1. count \in 0 .. MaxRequests /\ requests \in [1 .. MaxRequests -> Range64]
    BY <1>1 DEF Nak
  <2> HIDE DEF count, requests
  <2>2. \A k \in 1 .. count : requests[k] \in Range64
    BY <2>1, NakAssumption, MaxRequestsAssumption
  <2>3. SubSeq(requests, 1, count) \in Seq(Range64)
    <3>1. 1 \in Int /\ count \in Int
      BY <2>1, NakAssumption, MaxRequestsAssumption
    <3> QED BY <2>2, <3>1, SubSeqProperties
  <2> QED BY <2>3 DEF Reported, count, requests
<1>5. TypeOK'
  BY <1>1, <1>3, <1>4 DEF TypeOK
<1>6. TakenSoFar'
  BY <1>1 DEF TakenSoFar
<1>7. ListOfOneNak'
  BY <1>1 DEF ListOfOneNak, Reported
<1> QED BY <1>1, <1>2, <1>3, <1>5, <1>6, <1>7 DEF IInv, Decoded

(* A step that changes nothing.                                            *)
LEMMA StutterInvariant ==
  ASSUME IInv, UNCHANGED vars
  PROVE  IInv'
BY DEF IInv, TypeOK, Decoded, TakenSoFar, ListOfOneNak, Reported, vars

(* What holds at every turn of the loop, for every set of data fields and  *)
(* every capacity of the request list.                                     *)
THEOREM Invariance == Spec => []IInv
<1>1. Init => IInv
  BY InitInvariant
<1>2. IInv /\ [Next]_vars => IInv'
  <2> SUFFICES ASSUME IInv, [Next]_vars PROVE IInv'
    OBVIOUS
  <2>1. ASSUME NEW f \in Fields, NEW flag \in {0, 1}, RejectCall(f, flag) PROVE IInv'
    BY <2>1, RejectCallInvariant
  <2>2. ASSUME NEW f \in Fields, NEW flag \in {0, 1}, EnterLoop(f, flag) PROVE IInv'
    BY <2>2, EnterLoopInvariant
  <2>3. CASE TakeRequest
    BY <2>3, TakeRequestInvariant
  <2>4. CASE Finish
    BY <2>4, FinishInvariant
  <2>5. CASE UNCHANGED vars
    BY <2>5, StutterInvariant
  <2> QED BY <2>1, <2>2, <2>3, <2>4, <2>5 DEF Next
<1> QED BY <1>1, <1>2, PTL DEF Spec

(* An accepted NAK is consumed to its last octet and every range in it is  *)
(* reported in its place, however many requests the structure is built to  *)
(* hold.                                                                   *)
THEOREM DropsNothing == Spec => []NothingDropped
<1>1. IInv => NothingDropped
  <2> SUFFICES ASSUME IInv, Decoded PROVE NothingDropped
    BY DEF NothingDropped
  <2>1. /\ TakenSoFar /\ ret = Len(field)
        /\ Len(field) = ScopeLen(large) + i * Pair(large)
    BY DEF IInv
  <2> QED BY <2>1 DEF TakenSoFar, NothingDropped
<1> QED BY <1>1, Invariance, PTL

(* A rejected NAK leaves the list of the NAK accepted last, whole.         *)
THEOREM KeepsAcceptedList == Spec => []ListOfOneNak
<1>1. IInv => ListOfOneNak
  BY DEF IInv
<1> QED BY <1>1, Invariance, PTL

(* The decoder accepts what a NAK data field is, and refuses all else.     *)
THEOREM AcceptsExactly == Spec => []AcceptsNak
<1>1. IInv => AcceptsNak
  <2> SUFFICES ASSUME IInv, pc = "idle" PROVE ret > 0 <=> IsNak(field, large)
    BY DEF AcceptsNak
  <2>1. field \in Seq(Octet) /\ large \in {0, 1} /\ (ret > 0 <=> Decodable(field, large))
    BY DEF IInv, TypeOK
  <2> QED BY <2>1, DecodableIsNak
<1> QED BY <1>1, Invariance, PTL

-----------------------------------------------------------------------------
(* Encoding and decoding.                                                  *)

(* A NAK a peer encoded is decoded as what the peer asked for: the scope,  *)
(* and all of its requests in their places.                                *)
THEOREM DecodesAsEncoded == Spec => []RoundTrip
<1>1. IInv => RoundTrip
  <2> SUFFICES ASSUME IInv, pc = "idle", NEW src \in Sources, large = src.large,
                      field = NakSerialize(src.nak, src.large, Len(field)), field # << >>
               PROVE  LET Carried(offset) == Truncated(offset, FileSizeOctets(src.large))
                      IN /\ ret = Len(field)
                         /\ nak.start_of_scope = Carried(src.nak.start_of_scope)
                         /\ nak.end_of_scope = Carried(src.nak.end_of_scope)
                         /\ Reported = [k \in DOMAIN src.nak.segment_requests |->
                              [start_offset |-> Carried(src.nak.segment_requests[k].start_offset),
                               end_offset |-> Carried(src.nak.segment_requests[k].end_offset)]]
    BY DEF RoundTrip
  <2> DEFINE requests == src.nak.segment_requests
             count == Len(requests)
             width == Pair(large)
             scope == [start_offset |-> src.nak.start_of_scope,
                       end_offset |-> src.nak.end_of_scope]
  <2>1. /\ TypeOK /\ field \in Seq(Octet) /\ large \in {0, 1} /\ nak \in Nak /\ i \in Nat
        /\ Len(field) \in Nat
    BY MaxRequestsAssumption, LenProperties DEF IInv, TypeOK
  <2>2. /\ count \in 0 .. MaxRequests
        /\ Len(field) = ScopeLen(large) + count * width
        /\ At(field, 0) = CFDP_DIRECTIVE_NAK
        /\ ReadRange(field, large, 1) = RangeOnWire(scope, large)
        /\ \A k \in 1 .. count :
             ReadRange(field, large, ScopeLen(large) + (k - 1) * width)
               = RangeOnWire(requests[k], large)
    <3>1. src.nak \in NakToSend /\ field = NakSerialize(src.nak, large, Len(field))
      BY SourcesAssumption
    <3> DEFINE asked == src.nak
    <3> HIDE DEF asked
    <3>2. LET requested == asked.segment_requests
          IN /\ Len(requested) \in 0 .. MaxRequests
             /\ Len(field) = ScopeLen(large) + Len(requested) * Pair(large)
             /\ At(field, 0) = CFDP_DIRECTIVE_NAK
             /\ ReadRange(field, large, 1)
                  = RangeOnWire([start_offset |-> asked.start_of_scope,
                                 end_offset |-> asked.end_of_scope], large)
             /\ \A k \in 1 .. Len(requested) :
                  ReadRange(field, large, ScopeLen(large) + (k - 1) * Pair(large))
                    = RangeOnWire(requested[k], large)
      BY <2>1, <3>1, NakParts DEF asked
    <3> QED BY <3>2 DEF asked
  <2>3. IsNak(field, large)
    <3> HIDE DEF count
    <3> QED BY <2>2 DEF IsNak
  <2>4. Decodable(field, large)
    BY <2>1, <2>3, DecodableIsNak
  <2>5. /\ TakenSoFar /\ ret = Len(field)
        /\ Len(field) = ScopeLen(large) + i * width
    BY <2>4 DEF IInv, Decoded
  <2>6. i = count
    <3>1. width \in {8, 16} /\ ScopeLen(large) = 1 + width /\ count \in Nat
      BY <2>1, <2>2, Widths, NakAssumption, MaxRequestsAssumption
    <3> HIDE DEF width, count
    <3>2. ScopeLen(large) + count * width = ScopeLen(large) + i * width
      BY <2>2, <2>5
    <3>3. CASE width = 8
      BY <2>1, <3>1, <3>2, <3>3
    <3>4. CASE width = 16
      BY <2>1, <3>1, <3>2, <3>4
    <3> QED BY <3>1, <3>3, <3>4
  <2>7. /\ nak.start_of_scope = RangeOnWire(scope, large).start_offset
        /\ nak.end_of_scope = RangeOnWire(scope, large).end_offset
        /\ nak.segment_request_count = count
        /\ \A k \in 1 .. count : nak.segment_requests[k] = RangeOnWire(requests[k], large)
    <3> HIDE DEF scope, requests
    <3> QED BY <2>2, <2>5, <2>6 DEF TakenSoFar
  <2>8. Reported = [k \in DOMAIN requests |-> RangeOnWire(requests[k], large)]
    <3>1. requests \in Seq(Range64) /\ DOMAIN requests = 1 .. count
      BY SourcesAssumption, LenProperties DEF NakToSend
    <3>2. Reported = SubSeq(nak.segment_requests, 1, count)
      BY <2>7 DEF Reported
    <3> HIDE DEF requests, count
    <3>3. SubSeq(nak.segment_requests, 1, count) = [k \in 1 .. count |-> nak.segment_requests[k]]
      <4>1. count \in Nat
        BY <2>2, NakAssumption, MaxRequestsAssumption
      <4> QED BY <4>1
    <3> QED BY <2>7, <3>1, <3>2, <3>3
  <2> HIDE DEF requests
  <2>9. Reported = [k \in DOMAIN requests |->
                      [start_offset |-> Truncated(requests[k].start_offset, FileSizeOctets(large)),
                       end_offset |-> Truncated(requests[k].end_offset, FileSizeOctets(large))]]
    BY <2>8 DEF RangeOnWire
  <2> QED BY <2>5, <2>7, <2>9 DEF RangeOnWire, requests
<1> QED BY <1>1, Invariance, PTL
=============================================================================
