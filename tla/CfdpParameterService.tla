------------------------- MODULE CfdpParameterService -------------------------
(***************************************************************************)
(* What two users of the library may rely on when one attaches TLV         *)
(* parameters to a PDU and the other walks them: every parameter that      *)
(* could be attached arrives as it was, in the order it was attached,      *)
(* unless a Finished PDU carries one that is no filestore response, which  *)
(* it is refused for as a whole.                                           *)
(***************************************************************************)
EXTENDS Naturals, Sequences

CONSTANTS
  Parameters,     \* as they travel
  Responses,      \* those of them that are filestore responses
  MaxParameters   \* bound: parameters attached to a PDU

VARIABLES
  attached,   \* the parameters of the PDU
  route,      \* "none" until it is sent, then "metadata" or "finished"
  delivered,  \* the parameters the receiving user has been given
  refused     \* the PDU was

vars == <<attached, route, delivered, refused>>

Carries == route = "finished" => \A i \in DOMAIN attached : attached[i] \in Responses

Init ==
  /\ attached = << >>
  /\ route = "none"
  /\ delivered = << >>
  /\ refused = FALSE

Attach(p) ==
  /\ route = "none"
  /\ Len(attached) < MaxParameters
  /\ attached' = Append(attached, p)
  /\ UNCHANGED <<route, delivered, refused>>

Send(r) ==
  /\ route = "none"
  /\ route' = r
  /\ UNCHANGED <<attached, delivered, refused>>

Deliver ==
  /\ route # "none" /\ Carries
  /\ Len(delivered) < Len(attached)
  /\ delivered' = Append(delivered, attached[Len(delivered) + 1])
  /\ UNCHANGED <<attached, route, refused>>

Refuse ==
  /\ ~ Carries
  /\ refused' = TRUE
  /\ UNCHANGED <<attached, route, delivered>>

Next ==
  \/ \E p \in Parameters : Attach(p)
  \/ \E r \in {"metadata", "finished"} : Send(r)
  \/ Deliver
  \/ Refuse

Spec == Init /\ [][Next]_vars
=============================================================================
