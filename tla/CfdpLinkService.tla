--------------------------- MODULE CfdpLinkService ---------------------------
(***************************************************************************)
(* What the frame path promises to the CFDP entities on top of it: what is *)
(* delivered was sent, as it was sent.  PDUs may be lost, repeated and     *)
(* overtaken - CFDP is built for that - but never altered, invented or     *)
(* merged.                                                                 *)
(***************************************************************************)
EXTENDS Sequences

CONSTANT Pdu  \* every PDU there may be

VARIABLES
  sent,      \* PDUs handed to the link so far
  delivered  \* PDUs handed to the receiving entity, in order

TypeOK ==
  /\ sent \subseteq Pdu
  /\ delivered \in Seq(Pdu)

Init ==
  /\ sent = {}
  /\ delivered = << >>

Send(pdu) ==
  /\ sent' = sent \cup {pdu}
  /\ UNCHANGED delivered

Deliver(pdu) ==
  /\ pdu \in sent
  /\ delivered' = Append(delivered, pdu)
  /\ UNCHANGED sent

Next == \E pdu \in Pdu : Send(pdu) \/ Deliver(pdu)

Spec == Init /\ [][Next]_<<sent, delivered>>
=============================================================================
