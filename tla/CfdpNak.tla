-------------------------------- MODULE CfdpNak --------------------------------
(***************************************************************************)
(* The NAK PDU of src/cfdp_directive.c: the list of file ranges a receiver *)
(* wants sent again.  A request the decoder lost would never be answered,  *)
(* so it must report all of them or reject the PDU.                        *)
(*                                                                         *)
(* A caller decodes one data field after another into the same             *)
(* cfdp_nak_pdu_t; each iteration of cfdp_nak_parse_segment_requests is a  *)
(* step.                                                                   *)
(***************************************************************************)
EXTENDS CfdpNakCodec

CONSTANTS
  Fields,       \* data fields that may be received
  Sources,      \* NAKs a peer may have encoded: [nak, large]
  MaxCalls      \* bound: data fields decoded

ASSUME NakAssumption ==
  /\ Fields \subseteq Seq(Octet)
  /\ MaxCalls \in Nat

VARIABLES
  pc,     \* "idle" between calls, "loop" in the loop over the requests
  field,  \* the data field being decoded, or decoded last
  large,  \* the Large File flag it is decoded with
  i,      \* the loop counter
  nak,    \* the cfdp_nak_pdu_t
  ret,    \* what the last call returned
  calls,  \* calls so far
  kept    \* requests of the NAK accepted last (history)

vars == <<pc, field, large, i, nak, ret, calls, kept>>

(* A peer fills its structure within the C types of the fields.            *)
ASSUME SourcesAssumption ==
  \A src \in Sources :
    src.large \in {0, 1} /\ src.nak \in NakToSend

(* cfdp_nak_pdu_t.                                                         *)
Nak ==
  [start_of_scope : UInt64, end_of_scope : UInt64,
   segment_requests : [1 .. MaxRequests -> Range64],
   segment_request_count : 0 .. MaxRequests]

ClearNak ==
  [start_of_scope |-> Zeros(8), end_of_scope |-> Zeros(8),
   segment_requests |->
     [k \in 1 .. MaxRequests |-> [start_offset |-> Zeros(8), end_offset |-> Zeros(8)]],
   segment_request_count |-> 0]

(* The requests the structure reports.                                     *)
Reported == SubSeq(nak.segment_requests, 1, nak.segment_request_count)

-----------------------------------------------------------------------------
Init ==
  /\ pc = "idle"
  /\ field = << >>
  /\ large = 0
  /\ i = 0
  /\ nak = ClearNak
  /\ ret = 0
  /\ calls = 0
  /\ kept = << >>

WithScope(f, flag) ==
  LET scope == ReadRange(f, flag, 1)
  IN [nak EXCEPT !.start_of_scope = scope.start_offset,
                 !.end_of_scope = scope.end_offset]

Begin(f, flag) ==
  /\ pc = "idle"
  /\ calls < MaxCalls
  /\ calls' = calls + 1
  /\ field' = f
  /\ large' = flag

-----------------------------------------------------------------------------
(* Deviations, used only to show that the properties can fail.             *)

\* the list is emptied before it is known that a new one can be decoded
RejectAfterReset(f, flag) ==
  /\ Begin(f, flag)
  /\ ~ Decodable(f, flag)
  /\ nak' = IF NotNak(f, flag) THEN nak
            ELSE [WithScope(f, flag) EXCEPT !.segment_request_count = 0]
  /\ ret' = 0
  /\ UNCHANGED <<pc, i, kept>>

\* the requests are counted on from those of the NAK before
EnterWithoutReset(f, flag) ==
  /\ Begin(f, flag)
  /\ Decodable(f, flag)
  /\ nak' = WithScope(f, flag)
  /\ pc' = "loop"
  /\ i' = 0
  /\ UNCHANGED <<ret, kept>>

\* the end of a range is read where its start was
TakeRequestStill ==
  LET at == ScopeLen(large) + i * Pair(large)
      start == ReadUint(Slice(field, at, at + FileSizeOctets(large)))
  IN /\ pc = "loop"
     /\ i < Count(field, large)
     /\ i' = i + 1
     /\ nak' = [nak EXCEPT
                  !.segment_requests[i + 1] =
                     [start_offset |-> start, end_offset |-> start],
                  !.segment_request_count = @ + 1]
     /\ UNCHANGED <<pc, field, large, ret, calls, kept>>
-----------------------------------------------------------------------------

(* cfdp_nak_deserialize, when it fails before the loop.  The scope of a    *)
(* PDU whose requests are unfit has been stored by then.                   *)
RejectCall(f, flag) ==
  /\ Begin(f, flag)
  /\ ~ Decodable(f, flag)
  /\ nak' = IF NotNak(f, flag) THEN nak ELSE WithScope(f, flag)
  /\ ret' = 0
  /\ UNCHANGED <<pc, i, kept>>

(* cfdp_nak_deserialize, up to the loop.                                   *)
EnterLoop(f, flag) ==
  /\ Begin(f, flag)
  /\ Decodable(f, flag)
  /\ nak' = [WithScope(f, flag) EXCEPT !.segment_request_count = 0]
  /\ pc' = "loop"
  /\ i' = 0
  /\ UNCHANGED <<ret, kept>>

TakeRequest ==
  /\ pc = "loop"
  /\ i < Count(field, large)
  /\ i' = i + 1
  /\ nak' = [nak EXCEPT
               !.segment_requests[i + 1] =
                  ReadRange(field, large, ScopeLen(large) + i * Pair(large)),
               !.segment_request_count = @ + 1]
  /\ UNCHANGED <<pc, field, large, ret, calls, kept>>

(* The loop ends.  A list of no octets is a failure of                     *)
(* cfdp_nak_parse_segment_requests unless the data field ends there.       *)
Finish ==
  LET consumed == i * Pair(large)
  IN /\ pc = "loop"
     /\ i = Count(field, large)
     /\ pc' = "idle"
     /\ ret' = IF consumed = 0 /\ Len(field) # ScopeLen(large) THEN 0
               ELSE ScopeLen(large) + consumed
     /\ kept' = Reported
     /\ UNCHANGED <<field, large, i, nak, calls>>

Next ==
  \/ \E f \in Fields, flag \in {0, 1} : RejectCall(f, flag) \/ EnterLoop(f, flag)
  \/ TakeRequest
  \/ Finish

Spec == Init /\ [][Next]_vars

-----------------------------------------------------------------------------
(* Properties                                                              *)

TypeOK ==
  /\ pc \in {"idle", "loop"}
  /\ field \in Seq(Octet)
  /\ large \in {0, 1}
  /\ i \in 0 .. MaxRequests
  /\ nak \in Nak
  /\ ret \in Nat
  /\ calls \in 0 .. MaxCalls
  /\ kept \in Seq(Range64)

Decoded == pc = "idle" /\ ret > 0

(* An accepted NAK is reported whole (include/cfdp_directive.h:139-142):   *)
(* every octet of it is consumed, and every range in it is reported, in    *)
(* its place.                                                              *)
NothingDropped ==
  Decoded =>
    /\ ret = Len(field)
    /\ Len(field) = ScopeLen(large) + nak.segment_request_count * Pair(large)
    /\ \A k \in 1 .. nak.segment_request_count :
         nak.segment_requests[k]
           = ReadRange(field, large, ScopeLen(large) + (k - 1) * Pair(large))

(* The decoder accepts exactly what is one, the NAK without a request      *)
(* included.                                                               *)
AcceptsNak == pc = "idle" /\ calls > 0 => (ret > 0 <=> IsNak(field, large))

(* The list in the structure is the whole list of the NAK accepted last,   *)
(* never one that a rejected NAK has shortened or mixed with its own.      *)
ListOfOneNak == pc = "idle" => Reported = kept

(* A NAK a peer encoded is decoded, under the same Large File flag, as     *)
(* what the peer asked for, in the octets its offsets had room for.        *)
RoundTrip ==
  pc = "idle" =>
    \A src \in Sources :
      /\ large = src.large
      /\ field = NakSerialize(src.nak, src.large, Len(field))
      /\ field # << >>
      => LET Carried(offset) == Truncated(offset, FileSizeOctets(src.large))
         IN /\ ret = Len(field)
            /\ nak.start_of_scope = Carried(src.nak.start_of_scope)
            /\ nak.end_of_scope = Carried(src.nak.end_of_scope)
            /\ Reported = [k \in DOMAIN src.nak.segment_requests |->
                 [start_offset |-> Carried(src.nak.segment_requests[k].start_offset),
                  end_offset |-> Carried(src.nak.segment_requests[k].end_offset)]]

-----------------------------------------------------------------------------
(* The strengthening behind the safety properties: at every turn of the    *)
(* loop the scope and the requests so far are those of the data field, and *)
(* as many as the counter says.                                            *)
TakenSoFar ==
  /\ nak.start_of_scope = ReadRange(field, large, 1).start_offset
  /\ nak.end_of_scope = ReadRange(field, large, 1).end_offset
  /\ nak.segment_request_count = i
  /\ \A k \in 1 .. i :
       nak.segment_requests[k]
         = ReadRange(field, large, ScopeLen(large) + (k - 1) * Pair(large))

IInv ==
  /\ TypeOK
  /\ pc = "loop" =>
       /\ Decodable(field, large)
       /\ i <= Count(field, large)
       /\ TakenSoFar
  /\ Decoded => TakenSoFar /\ ret = Len(field)
                           /\ Len(field) = ScopeLen(large) + i * Pair(large)
  /\ pc = "idle" => (ret > 0 <=> Decodable(field, large))
  /\ ListOfOneNak
=============================================================================
