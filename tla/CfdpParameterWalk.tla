-------------------------- MODULE CfdpParameterWalk --------------------------
(***************************************************************************)
(* A caller that walks a chain of TLV parameters, the options of a         *)
(* Metadata PDU or the filestore responses of a Finished PDU, advancing by *)
(* what cfdp_tlv_deserialize returns (README.md:288-291).                  *)
(*                                                                         *)
(* Each TLV is handed to the decoder of its type together with all that is *)
(* left of the chain, and decoded into a structure of that kind that       *)
(* outlives it.  A decoder that refuses its TLV stops neither the walk nor *)
(* the caller.                                                             *)
(***************************************************************************)
EXTENDS CfdpFilestore

CONSTANTS
  Spans,    \* chains that may be walked
  MaxWalks  \* bound: chains walked

ASSUME SpansAssumption ==
  /\ \A s \in Spans : s \in Seq(Octet)
  /\ MaxWalks \in Nat

VARIABLES
  pc,     \* "idle", or "walk" while a chain is walked
  span,   \* the chain being walked, or walked last
  pos,    \* octets of it walked
  got,    \* the caller's structures, one of each kind
  taken,  \* the TLVs met in this walk: [at, end, kind, ret, tlv] (history)
  walks   \* walks so far

vars == <<pc, span, pos, got, taken, walks>>

Clear ==
  [request |-> ClearRequest, response |-> ClearResponse,
   override |-> ClearOverride, other |-> ClearTlv]
Structures ==
  [request : Request, response : Response, override : Override, other : Tlv]
Kinds == DOMAIN Clear

(* Which decoder a TLV is for; messages to the user, flow labels and       *)
(* unknown types are left as they are.                                     *)
KindOf(type) ==
  CASE type = CFDP_TLV_FILESTORE_REQUEST -> "request"
    [] type = CFDP_TLV_FILESTORE_RESPONSE -> "response"
    [] type = CFDP_TLV_FAULT_HANDLER_OVERRIDE -> "override"
    [] OTHER -> "other"

Decode(kind, buf, s) ==
  CASE kind = "request" -> RequestDeserialize(buf, s)
    [] kind = "response" -> ResponseDeserialize(buf, s)
    [] kind = "override" -> OverrideDeserialize(buf, s)
    [] kind = "other" -> TlvDeserialize(buf, s)

Encode(kind, s, bufLen) ==
  CASE kind = "request" -> RequestSerialize(s, bufLen)
    [] kind = "response" -> ResponseSerialize(s, bufLen)
    [] kind = "override" -> OverrideSerialize(s, bufLen)
    [] kind = "other" -> TlvSerialize(s, bufLen)

Rest == Slice(span, pos, Len(span))

Init ==
  /\ pc = "idle"
  /\ span = << >>
  /\ pos = 0
  /\ got = Clear
  /\ taken = << >>
  /\ walks = 0

(* A decoded PDU points the caller at a chain.                             *)
Begin(s) ==
  /\ pc = "idle"
  /\ walks < MaxWalks
  /\ walks' = walks + 1
  /\ pc' = "walk"
  /\ span' = s
  /\ pos' = 0
  /\ taken' = << >>
  /\ UNCHANGED got

\* Deviation: the caller advances by what the decoder of the type returns.
TakeByDecoder(kind) ==
  LET decoded == Decode(kind, Rest, got[kind])
  IN /\ pc = "walk"
     /\ TlvSize(Rest) > 0
     /\ KindOf(At(Rest, 0)) = kind
     /\ got' = [got EXCEPT ![kind] = decoded.tlv]
     /\ taken' = Append(taken,
                   [at |-> pos, end |-> pos + TlvSize(Rest), kind |-> kind,
                    ret |-> decoded.ret, tlv |-> decoded.tlv])
     /\ pos' = pos + decoded.ret
     /\ UNCHANGED <<pc, span, walks>>

(* The next TLV, whether or not the decoder of its type takes it.          *)
Take(kind) ==
  LET decoded == Decode(kind, Rest, got[kind])
  IN /\ pc = "walk"
     /\ TlvSize(Rest) > 0
     /\ KindOf(At(Rest, 0)) = kind
     /\ got' = [got EXCEPT ![kind] = decoded.tlv]
     /\ taken' = Append(taken,
                   [at |-> pos, end |-> pos + TlvSize(Rest), kind |-> kind,
                    ret |-> decoded.ret, tlv |-> decoded.tlv])
     /\ pos' = pos + TlvSize(Rest)
     /\ UNCHANGED <<pc, span, walks>>

\* Deviation: the caller walks until every octet has been met.
StopAtEnd ==
  /\ pc = "walk"
  /\ pos >= Len(span)
  /\ pc' = "idle"
  /\ UNCHANGED <<span, pos, got, taken, walks>>

(* No whole TLV is left.                                                   *)
Stop ==
  /\ pc = "walk"
  /\ TlvSize(Rest) = 0
  /\ pc' = "idle"
  /\ UNCHANGED <<span, pos, got, taken, walks>>

Advance == Stop \/ \E kind \in Kinds : Take(kind)

Next == Advance \/ \E s \in Spans : Begin(s)

(* Nothing in the walk waits.                                              *)
Fairness == WF_vars(Advance)

Spec == Init /\ [][Next]_vars /\ Fairness

-----------------------------------------------------------------------------
(* Properties                                                              *)

TypeOK ==
  /\ pc \in {"idle", "walk"}
  /\ span \in Seq(Octet)
  /\ pos \in Nat
  /\ got \in Structures
  /\ taken \in Seq([at : Nat, end : Nat, kind : Kinds, ret : Nat,
                    tlv : Request \cup Response \cup Override \cup Tlv])
  /\ walks \in 0 .. MaxWalks

(* A structure is as it was, or as the TLV in front of the caller leaves a *)
(* clear one: whatever the lengths inside a value say, and at whichever of *)
(* them a decoder gives up, it never shows names or a message of two       *)
(* different parameters.                                                   *)
NoMixture ==
  [][\A kind \in Kinds :
       \/ got'[kind] = got[kind]
       \/ got'[kind] = Decode(kind, Rest, Clear[kind]).tlv]_vars

(* The octets of a TLV with the spare bits of a Filestore Request's action *)
(* octet cleared (Table 5-15).                                             *)
OctetsOf(t) ==
  LET octets == Slice(span, t.at, t.end)
  IN IF t.kind = "request" THEN [octets EXCEPT ![3] = 16 * (@ \div 16)] ELSE octets

(* An accepted parameter was read from its own TLV, all of it: encoded     *)
(* again it is those octets.  A name that claims more octets than its TLV  *)
(* has left never reaches into the next one, and none is left unread.      *)
KeepsToItsTlv ==
  \A i \in DOMAIN taken :
    LET t == taken[i]
    IN t.ret # 0 => /\ t.ret = t.end - t.at
                    /\ Encode(t.kind, t.tlv, t.ret) = OctetsOf(t)

(* What a parameter is, without a decoder: its value is an octet and LVs   *)
(* that fill the rest, as many as its action has names, or one code octet. *)
LvsFill(value, n) ==
  LET cut[i \in 0 .. n] ==
        IF i = 0 THEN 1
        ELSE IF cut[i - 1] >= Len(value) THEN Len(value) + 1
        ELSE cut[i - 1] + 1 + At(value, cut[i - 1])
  IN cut[n] = Len(value)

IsParameter(kind, value) ==
  LET names == IF HasSecondFilename(value[1] \div 16) THEN 2 ELSE 1
  IN CASE kind = "request" ->
            value # << >> /\ ActionValid(value[1] \div 16) /\ LvsFill(value, names)
       [] kind = "response" ->
            value # << >> /\ ActionValid(value[1] \div 16) /\ LvsFill(value, names + 1)
       [] kind = "override" ->
            Len(value) = 1 /\ OverrideValid(value[1] \div 16, value[1] % 16)
       [] kind = "other" -> TRUE

(* The decoders refuse what is not a parameter of their kind, and that     *)
(* only: a caller that skips refused TLVs never skips a filestore request  *)
(* it was sent.                                                            *)
AcceptsParameters ==
  \A i \in DOMAIN taken :
    LET t == taken[i]
    IN t.ret # 0
         <=> IsParameter(t.kind, Slice(span, t.at + CFDP_TLV_HEADER_LEN, t.end))

(* The caller stands between two TLVs of the chain and within it, and a    *)
(* TLV that no decoder takes does not make it lose its place.              *)
OnBoundary ==
  /\ pos <= Len(span)
  /\ pos = IF taken = << >> THEN 0 ELSE taken[Len(taken)].end
  /\ \A i \in DOMAIN taken :
       /\ taken[i].at = IF i = 1 THEN 0 ELSE taken[i - 1].end
       /\ taken[i].end = taken[i].at + CFDP_TLV_HEADER_LEN + At(span, taken[i].at + 1)

(* The strengthening: the two are inductive together.                      *)
IInv == TypeOK /\ OnBoundary

(* Every walk comes to an end, whatever the chain.                         *)
Terminates == pc = "walk" ~> pc = "idle"
=============================================================================
