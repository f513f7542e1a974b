---------------------------- MODULE CfdpCrcStream ----------------------------
(***************************************************************************)
(* What the PDU CRC promises over a noisy link.                            *)
(*                                                                         *)
(* The sending entity runs cfdp_crc_update over the octets of a PDU and    *)
(* appends the register (cfdp_pdu_crc_append); the receiving entity runs   *)
(* it over the octets that arrive and compares its register with the CRC   *)
(* that arrives (cfdp_pdu_crc_verify).  The two runs are advanced together *)
(* here, octet by octet and bit by bit, so that what the link did to the   *)
(* PDU is visible as the difference between the two registers.             *)
(*                                                                         *)
(* The link damages at most one burst of BurstOctets consecutive octets:   *)
(* any bits of any of them, the octets of the CRC included.                *)
(***************************************************************************)
EXTENDS CfdpCrc

CONSTANTS
  DataOctets,   \* octets the sender may fold in (patterns)
  OctetErrors,  \* error patterns the link may apply to an octet of the PDU
  CrcErrors,    \* error patterns it may apply to the two octets of the CRC
  MaxOctets     \* bound: octets folded in before the CRC

ASSUME StreamAssumption ==
  /\ DataOctets \subseteq OctetPattern
  /\ OctetErrors \subseteq OctetPattern
  /\ CrcErrors \subseteq Register
  /\ MaxOctets \in Nat

VARIABLES
  sent,     \* the sender's register
  rcvd,     \* the receiver's register
  pending,  \* bits of the current octet still to be shifted in
  folded,   \* octets folded in so far
  burst,    \* octets since the first damaged one, itself included; 0 if none
  damaged,  \* whether the link changed anything (history)
  verdict   \* what cfdp_pdu_crc_verify answered

vars == <<sent, rcvd, pending, folded, burst, damaged, verdict>>

(* A burst covers as many consecutive octets as the register holds: 2.     *)
BurstOctets == RegBits \div OctetBits

TypeOK ==
  /\ sent \in Register
  /\ rcvd \in Register
  /\ pending \in 0 .. OctetBits
  /\ folded \in 0 .. MaxOctets
  /\ burst \in 0 .. folded
  /\ damaged \in BOOLEAN
  /\ verdict \in {"none", "accept", "discard"}

-----------------------------------------------------------------------------
Init ==
  /\ sent = Preset
  /\ rcvd = Preset
  /\ pending = 0
  /\ folded = 0
  /\ burst = 0
  /\ damaged = FALSE
  /\ verdict = "none"

(* Both ends start on the next octet; the receiver's copy carries error.   *)
BeginOctet(octet, error) ==
  /\ verdict = "none"
  /\ pending = 0
  /\ folded < MaxOctets
  /\ error # {} => burst < BurstOctets
  /\ sent' = XorOctet(sent, octet)
  /\ rcvd' = XorOctet(rcvd, Xor(octet, error))
  /\ pending' = OctetBits
  /\ folded' = folded + 1
  /\ burst' = IF burst = 0 /\ error = {} THEN 0 ELSE burst + 1
  /\ damaged' = (damaged \/ error # {})
  /\ UNCHANGED verdict

(* Both ends shift one bit.                                                *)
ShiftInBit ==
  /\ pending > 0
  /\ sent' = ShiftBit(sent)
  /\ rcvd' = ShiftBit(rcvd)
  /\ pending' = pending - 1
  /\ UNCHANGED <<folded, burst, damaged, verdict>>

(* Bits of the CRC that a burst already begun may still reach: those of    *)
(* its leading octets, as the CRC is sent most significant octet first.    *)
Reachable ==
  IF burst = 0
  THEN RegPositions
  ELSE {k \in RegPositions : k >= RegBits - (BurstOctets - burst) * OctetBits}

(* The sender's register travels as the last octets of the PDU and the     *)
(* receiver compares it with its own.                                      *)
VerifyCrc(error) ==
  /\ verdict = "none"
  /\ pending = 0
  /\ error \subseteq Reachable
  /\ damaged' = (damaged \/ error # {})
  /\ verdict' = IF rcvd = Xor(sent, error) THEN "accept" ELSE "discard"
  /\ UNCHANGED <<sent, rcvd, pending, folded, burst>>

Next ==
  \/ \E octet \in DataOctets, error \in OctetErrors : BeginOctet(octet, error)
  \/ ShiftInBit
  \/ \E error \in CrcErrors : VerifyCrc(error)

Spec == Init /\ [][Next]_vars

-----------------------------------------------------------------------------
(* Safety                                                                  *)

(* A PDU damaged by one burst of up to BurstOctets octets, wherever it     *)
(* falls, is never accepted: the guarantee for which the CRC is carried.   *)
BurstDetected == verdict = "accept" => ~ damaged

(* Once a burst has driven the two registers apart no later octet brings   *)
(* them together again, however long the PDU.                              *)
NeverRejoin == burst > 0 => sent # rcvd

(* The strengthening behind them.  A position at which the registers       *)
(* differ lies either among the bits not shifted in yet or among the low   *)
(* positions the burst has already been shifted into, so an error in the   *)
(* next octet, which enters at the top, cannot cancel it.                  *)
Apart ==
  \E k \in Xor(sent, rcvd) :
    k < burst * OctetBits - pending \/ k >= RegBits - pending

IInv ==
  /\ TypeOK
  /\ burst = 0 => sent = rcvd
  /\ burst > 0 => Apart /\ damaged
  /\ (verdict = "none" /\ burst = 0) => ~ damaged
  /\ verdict # "none" => pending = 0
  /\ BurstDetected
=============================================================================
