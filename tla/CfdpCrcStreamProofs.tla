------------------------- MODULE CfdpCrcStreamProofs -------------------------
(***************************************************************************)
(* TLAPS proofs about CfdpCrcStream, for every register width, octet       *)
(* width, polynomial with a constant term, data and length of PDU.         *)
(***************************************************************************)
EXTENDS CfdpCrcStream, TLAPS

-----------------------------------------------------------------------------
(* The operators of CfdpCrc stay within the register.                      *)

LEMMA XorRegister ==
  ASSUME NEW a \in Register, NEW b \in Register
  PROVE  Xor(a, b) \in Register
BY DEF Xor, Register

LEMMA XorOctetPattern ==
  ASSUME NEW a \in OctetPattern, NEW b \in OctetPattern
  PROVE  Xor(a, b) \in OctetPattern
BY DEF Xor, OctetPattern

LEMMA AtTopRegister ==
  ASSUME NEW octet \in OctetPattern
  PROVE  /\ AtTop(octet) \in Register
         /\ \A k \in AtTop(octet) : k >= RegBits - OctetBits
BY CrcAssumption
   DEF AtTop, Register, OctetPattern, RegPositions, OctetPositions

LEMMA ShiftBitRegister ==
  ASSUME NEW a \in Register
  PROVE  ShiftBit(a) \in Register
<1> DEFINE up == {k + 1 : k \in a \ {RegBits - 1}}
           fb == IF RegBits - 1 \in a THEN Polynomial ELSE {}
<1>1. up \in Register
  BY CrcAssumption DEF Register, RegPositions
<1>2. fb \in Register
  BY CrcAssumption DEF Register, RegPositions
<1> QED BY <1>1, <1>2, XorRegister DEF ShiftBit

-----------------------------------------------------------------------------
(* Exclusive or as a difference of registers.                              *)

LEMMA XorEmpty ==
  ASSUME NEW a, NEW b
  PROVE  /\ Xor(a, {}) = a
         /\ (Xor(a, b) = {}) <=> (a = b)
BY DEF Xor

LEMMA XorSolve ==
  ASSUME NEW a, NEW b, NEW e
  PROVE  (b = Xor(a, e)) <=> (Xor(a, b) = e)
<1>1. \A x : x \in Xor(a, e) <=> ((x \in a) # (x \in e))
  BY DEF Xor
<1>2. \A x : x \in Xor(a, b) <=> ((x \in a) # (x \in b))
  BY DEF Xor
<1>3. ASSUME b = Xor(a, e) PROVE Xor(a, b) = e
  BY <1>1, <1>2, <1>3
<1>4. ASSUME Xor(a, b) = e PROVE b = Xor(a, e)
  BY <1>1, <1>2, <1>4
<1> QED BY <1>3, <1>4

(* Folding an octet into one register and its damaged copy into the other  *)
(* changes their difference by the error, at the top of the register.      *)
LEMMA XorOctetDifference ==
  ASSUME NEW a \in Register, NEW b \in Register,
         NEW octet \in OctetPattern, NEW error \in OctetPattern
  PROVE  Xor(XorOctet(a, octet), XorOctet(b, Xor(octet, error)))
           = Xor(Xor(a, b), AtTop(error))
<1>1. \A x : x \in AtTop(Xor(octet, error))
               <=> ((x \in AtTop(octet)) # (x \in AtTop(error)))
  BY CrcAssumption
     DEF AtTop, Xor, OctetPattern, OctetPositions
<1>2. \A s, t, x : x \in Xor(s, t) <=> ((x \in s) # (x \in t))
  BY DEF Xor
<1>3. \A x : x \in Xor(XorOctet(a, octet), XorOctet(b, Xor(octet, error)))
               <=> x \in Xor(Xor(a, b), AtTop(error))
  BY <1>1, <1>2 DEF XorOctet
<1> QED BY <1>3

(* Shifting is linear: the difference of the shifted registers is the      *)
(* shifted difference.                                                     *)
LEMMA ShiftBitDifference ==
  ASSUME NEW a \in Register, NEW b \in Register
  PROVE  Xor(ShiftBit(a), ShiftBit(b)) = ShiftBit(Xor(a, b))
<1> DEFINE up(r) == {k + 1 : k \in r \ {RegBits - 1}}
           fb(r) == IF RegBits - 1 \in r THEN Polynomial ELSE {}
<1>1. \A s, t, x : x \in Xor(s, t) <=> ((x \in s) # (x \in t))
  BY DEF Xor
<1>2. \A x : x \in up(Xor(a, b)) <=> ((x \in up(a)) # (x \in up(b)))
  BY CrcAssumption DEF Xor, Register, RegPositions
<1>3. \A x : x \in fb(Xor(a, b)) <=> ((x \in fb(a)) # (x \in fb(b)))
  BY <1>1
<1>4. \A r, x : x \in ShiftBit(r) <=> ((x \in up(r)) # (x \in fb(r)))
  BY <1>1 DEF ShiftBit
<1> HIDE DEF up, fb
<1>5. \A x : x \in Xor(ShiftBit(a), ShiftBit(b)) <=> x \in ShiftBit(Xor(a, b))
  BY <1>1, <1>2, <1>3, <1>4
<1> QED BY <1>5

(* A shift keeps every difference: one that leaves the register at the top *)
(* comes back at bit 0 through the polynomial's constant term, any other   *)
(* moves up by one.                                                        *)
LEMMA ShiftKeepsDifference ==
  ASSUME NEW d \in Register, NEW k \in d
  PROVE  \/ 0 \in ShiftBit(d)
         \/ k + 1 \in ShiftBit(d)
<1> DEFINE up == {j + 1 : j \in d \ {RegBits - 1}}
<1>1. 0 \notin up
  BY CrcAssumption DEF Register, RegPositions
<1>2. CASE RegBits - 1 \in d
  <2>1. ShiftBit(d) = Xor(up, Polynomial)
    BY <1>2 DEF ShiftBit
  <2> QED BY <2>1, <1>1, CrcAssumption DEF Xor
<1>3. CASE RegBits - 1 \notin d
  <2>1. ShiftBit(d) = up
    BY <1>3, XorEmpty DEF ShiftBit
  <2>2. k + 1 \in up
    BY <1>3
  <2> QED BY <2>1, <2>2
<1> QED BY <1>2, <1>3

-----------------------------------------------------------------------------
(* The burst bound, as linear facts.                                       *)

LEMMA BurstBound ==
  ASSUME NEW b \in Nat
  PROVE  /\ BurstOctets \in Nat
         /\ BurstOctets * OctetBits <= RegBits
         /\ b * OctetBits \in Nat
         /\ b > 0 => b * OctetBits >= OctetBits
         /\ (b + 1) * OctetBits = b * OctetBits + OctetBits
         /\ b < BurstOctets => b * OctetBits + OctetBits <= RegBits
         /\ (BurstOctets - b) * OctetBits <= RegBits - b * OctetBits
<1>1. BurstOctets \in Nat /\ BurstOctets * OctetBits <= RegBits
  BY CrcAssumption, SMT DEF BurstOctets
<1>2. b * OctetBits \in Nat /\ (b > 0 => b * OctetBits >= OctetBits)
  BY CrcAssumption, SMT
<1>3. (b + 1) * OctetBits = b * OctetBits + OctetBits
  BY CrcAssumption, SMT
<1>4. b < BurstOctets => (b + 1) * OctetBits <= BurstOctets * OctetBits
  BY <1>1, CrcAssumption, SMT
<1>5. (BurstOctets - b) * OctetBits = BurstOctets * OctetBits - b * OctetBits
  BY <1>1, CrcAssumption, SMT
<1> QED
  <2> DEFINE bo == b * OctetBits
             full == BurstOctets * OctetBits
             rest == (BurstOctets - b) * OctetBits
             next == (b + 1) * OctetBits
  <2>1. bo \in Nat /\ full \in Int
    BY <1>1, <1>2, CrcAssumption
  <2> HIDE DEF bo, full, rest, next
  <2> USE DEF full
  <2> QED BY <1>1, <1>2, <1>3, <1>4, <1>5, <2>1, CrcAssumption DEF bo, rest, next

-----------------------------------------------------------------------------
(* The inductive invariant.                                                *)

LEMMA InitIInv == Init => IInv
<1> SUFFICES ASSUME Init PROVE IInv
  OBVIOUS
<1>1. TypeOK
  <2>1. Preset \in Register
    BY DEF Preset, Register
  <2>2. /\ pending \in 0 .. OctetBits
        /\ folded \in 0 .. MaxOctets
        /\ burst \in 0 .. folded
    BY CrcAssumption, StreamAssumption DEF Init
  <2>3. damaged \in BOOLEAN /\ verdict \in {"none", "accept", "discard"}
    BY DEF Init
  <2> QED BY <2>1, <2>2, <2>3 DEF Init, TypeOK
<1> QED BY <1>1 DEF Init, IInv, BurstDetected

LEMMA BeginOctetIInv ==
  ASSUME IInv,
         NEW octet \in DataOctets, NEW error \in OctetErrors,
         BeginOctet(octet, error)
  PROVE  IInv'
<1>1. octet \in OctetPattern /\ error \in OctetPattern
  BY StreamAssumption
<1>2. TypeOK
  BY DEF IInv
<1>3. TypeOK'
  <2>1. sent' \in Register /\ rcvd' \in Register
    BY <1>1, <1>2, XorOctetPattern, AtTopRegister, XorRegister
       DEF BeginOctet, XorOctet, TypeOK
  <2>2. /\ pending' \in 0 .. OctetBits
        /\ folded' \in 0 .. MaxOctets
        /\ burst' \in 0 .. folded'
    BY <1>2, CrcAssumption, StreamAssumption DEF BeginOctet, TypeOK
  <2>3. damaged' \in BOOLEAN /\ verdict' = verdict
    BY <1>2 DEF BeginOctet, TypeOK
  <2> QED BY <1>2, <2>1, <2>2, <2>3 DEF TypeOK
<1>4. Xor(sent, rcvd)' = Xor(Xor(sent, rcvd), AtTop(error))
  BY <1>1, <1>2, XorOctetDifference DEF BeginOctet, TypeOK
<1>5. verdict = "none" /\ verdict' = "none" /\ pending = 0
  BY DEF BeginOctet
<1>6. CASE burst' = 0
  <2>1. burst = 0 /\ error = {}
    BY <1>2, <1>6 DEF BeginOctet, TypeOK
  <2>2. sent' = rcvd'
    <3>1. Xor(octet, error) = octet
      BY <2>1, XorEmpty
    <3> QED BY <2>1, <3>1 DEF BeginOctet, IInv
  <2>3. ~ damaged'
    BY <2>1 DEF BeginOctet, IInv
  <2> QED BY <1>3, <1>5, <1>6, <2>2, <2>3
          DEF IInv, BurstDetected
<1>7. CASE burst' > 0
  <2>1. burst' = burst + 1 /\ pending' = OctetBits
    BY <1>7 DEF BeginOctet
  <2>2. damaged'
    <3>1. burst > 0 \/ error # {}
      <4>1. burst \in Nat
        BY <1>2, StreamAssumption DEF TypeOK
      <4> QED BY <4>1, <1>7 DEF BeginOctet
    <3> QED BY <3>1 DEF BeginOctet, IInv
  <2>3. Apart'
    <3>1. CASE burst = 0
      <4>1. error # {} /\ sent = rcvd
        BY <1>7, <3>1 DEF BeginOctet, IInv
      <4>2. Xor(sent, rcvd)' = AtTop(error)
        BY <1>4, <4>1 DEF Xor
      <4>3. PICK k \in AtTop(error) : k >= RegBits - OctetBits
        BY <1>1, <4>1, AtTopRegister DEF AtTop
      <4> QED BY <2>1, <4>2, <4>3 DEF Apart
    <3>2. CASE burst > 0
      <4>1. burst \in Nat
        BY <1>2, StreamAssumption DEF TypeOK
      <4>2. PICK k \in Xor(sent, rcvd) : k < burst * OctetBits
        <5>1. \A k \in Xor(sent, rcvd) : k \in 0 .. RegBits - 1
          BY <1>2, XorRegister DEF TypeOK, Register, RegPositions
        <5> DEFINE reached == burst * OctetBits
        <5>2. reached \in Nat
          BY <4>1, BurstBound
        <5>3. Apart
          BY <3>2 DEF IInv
        <5> HIDE DEF reached
        <5> QED
          <6>1. PICK k \in Xor(sent, rcvd) : k < reached - pending \/ k >= RegBits - pending
            BY <5>3 DEF Apart, reached
          <6>2. k < reached
            BY <1>5, <5>1, <5>2, <6>1, CrcAssumption
          <6> QED BY <6>2 DEF reached
      <4>3. k \in Xor(sent, rcvd)'
        <5>1. CASE error = {}
          BY <1>4, <4>2, <5>1 DEF Xor, AtTop
        <5>2. CASE error # {}
          <6>1. burst < BurstOctets
            BY <5>2 DEF BeginOctet
          <6>2. burst * OctetBits + OctetBits <= RegBits
            BY <4>1, <6>1, BurstBound
          <6>3. k \in Int /\ burst * OctetBits \in Nat
            <7>1. Xor(sent, rcvd) \in Register
              BY <1>2, XorRegister DEF TypeOK
            <7> QED BY <4>1, <4>2, <7>1, BurstBound, CrcAssumption
                    DEF Register, RegPositions
          <6>4. k < RegBits - OctetBits
            BY <4>2, <6>2, <6>3, CrcAssumption
          <6>5. k \notin AtTop(error)
            BY <1>1, <6>3, <6>4, AtTopRegister, CrcAssumption
          <6> QED BY <1>4, <6>5 DEF Xor
        <5> QED BY <5>1, <5>2
      <4>4. k < burst' * OctetBits - pending'
        <5> DEFINE reached == burst * OctetBits
        <5>1. reached \in Nat /\ burst' * OctetBits = reached + OctetBits
          BY <2>1, <4>1, BurstBound
        <5>2. k < reached
          BY <4>2
        <5> DEFINE total == burst' * OctetBits
        <5>3. total = reached + OctetBits
          BY <5>1
        <5>4. pending' = OctetBits
          BY <2>1
        <5> HIDE DEF reached, total
        <5>5. k < total - pending'
          BY <5>1, <5>2, <5>3, <5>4, CrcAssumption
        <5> QED BY <5>5 DEF total
      <4> QED BY <4>3, <4>4 DEF Apart
    <3> QED BY <1>2, <3>1, <3>2, StreamAssumption DEF TypeOK
  <2> QED BY <1>3, <1>5, <1>7, <2>2, <2>3
          DEF IInv, BurstDetected
<1> QED BY <1>3, <1>6, <1>7, StreamAssumption DEF TypeOK

LEMMA ShiftInBitIInv ==
  ASSUME IInv, ShiftInBit
  PROVE  IInv'
<1>1. TypeOK
  BY DEF IInv
<1>2. verdict = "none" /\ verdict' = "none"
  BY <1>1 DEF IInv, ShiftInBit, TypeOK
<1>3. TypeOK'
  <2>1. sent' \in Register /\ rcvd' \in Register
    BY <1>1, ShiftBitRegister DEF ShiftInBit, TypeOK
  <2>2. /\ pending' \in 0 .. OctetBits
        /\ folded' \in 0 .. MaxOctets
        /\ burst' \in 0 .. folded'
    BY <1>1, CrcAssumption, StreamAssumption DEF ShiftInBit, TypeOK
  <2>3. damaged' \in BOOLEAN
    BY <1>1 DEF ShiftInBit, TypeOK
  <2> QED BY <1>2, <2>1, <2>2, <2>3 DEF TypeOK
<1>4. burst' = 0 => sent' = rcvd'
  BY DEF IInv, ShiftInBit
<1>5. ASSUME burst > 0 PROVE Apart'
  <2>1. Xor(sent, rcvd)' = ShiftBit(Xor(sent, rcvd))
    BY <1>1, ShiftBitDifference DEF ShiftInBit, TypeOK
  <2>2. Xor(sent, rcvd) \in Register
    BY <1>1, XorRegister DEF TypeOK
  <2> DEFINE reached == burst * OctetBits
  <2>3. reached \in Nat /\ reached >= OctetBits
    <3>1. burst \in Nat
      BY <1>1, StreamAssumption DEF TypeOK
    <3> QED BY <1>5, <3>1, BurstBound
  <2>4. burst' * OctetBits = reached
    BY DEF ShiftInBit
  <2>5. pending \in 1 .. OctetBits /\ pending' = pending - 1
    BY <1>1, CrcAssumption DEF ShiftInBit, TypeOK
  <2>6. PICK k \in Xor(sent, rcvd) :
          k < reached - pending \/ k >= RegBits - pending
    BY <1>5 DEF IInv, Apart
  <2> HIDE DEF reached
  <2>7. k \in Int
    BY <2>2, <2>6, CrcAssumption DEF Register, RegPositions
  <2>8. 0 < reached - pending'
    BY <2>3, <2>5, CrcAssumption
  <2>9. k + 1 < reached - pending' \/ k + 1 >= RegBits - pending'
    BY <2>3, <2>5, <2>6, <2>7, CrcAssumption
  <2>10. CASE 0 \in ShiftBit(Xor(sent, rcvd))
    BY <2>1, <2>4, <2>8, <2>10 DEF Apart
  <2>11. CASE k + 1 \in ShiftBit(Xor(sent, rcvd))
    BY <2>1, <2>4, <2>9, <2>11 DEF Apart
  <2> QED BY <2>2, <2>6, <2>10, <2>11, ShiftKeepsDifference
<1>6. burst' = burst /\ damaged' = damaged
  BY DEF ShiftInBit
<1> QED BY <1>2, <1>3, <1>4, <1>5, <1>6 DEF IInv, BurstDetected

(* A position the burst has already reached is out of reach of the errors  *)
(* it may still make in the CRC.                                           *)
LEMMA ReachableIsAbove ==
  ASSUME IInv, burst > 0, NEW k \in Reachable
  PROVE  k >= burst * OctetBits
<1>1. burst \in Nat
  BY StreamAssumption DEF IInv, TypeOK
<1> DEFINE reached == burst * OctetBits
           rest == (BurstOctets - burst) * OctetBits
<1>2. reached \in Nat /\ rest <= RegBits - reached
  BY <1>1, BurstBound
<1>3. rest \in Int
  BY <1>1, BurstBound, CrcAssumption
<1>4. k \in Int /\ k >= RegBits - rest
  BY CrcAssumption DEF Reachable, RegPositions
<1> HIDE DEF reached, rest
<1>5. k >= reached
  BY <1>2, <1>3, <1>4, CrcAssumption
<1> QED BY <1>5 DEF reached

LEMMA VerifyCrcIInv ==
  ASSUME IInv, NEW error \in CrcErrors, VerifyCrc(error)
  PROVE  IInv'
<1>1. TypeOK
  BY DEF IInv
<1>2. (verdict' = "accept") <=> (Xor(sent, rcvd) = error)
  BY XorSolve DEF VerifyCrc
<1>3. TypeOK'
  <2>1. damaged' \in BOOLEAN
    BY <1>1 DEF VerifyCrc, TypeOK
  <2>2. verdict' \in {"accept", "discard"}
    BY DEF VerifyCrc
  <2> QED BY <1>1, <2>1, <2>2 DEF VerifyCrc, TypeOK
<1>4. CASE burst = 0
  <2>1. Xor(sent, rcvd) = {} /\ ~ damaged
    BY <1>4, XorEmpty DEF IInv, VerifyCrc
  <2>2. damaged' <=> error # {}
    BY <2>1 DEF VerifyCrc
  <2>3. verdict' = "accept" \/ verdict' = "discard"
    BY DEF VerifyCrc
  <2>4. BurstDetected'
    BY <1>2, <2>1, <2>2, <2>3 DEF BurstDetected
  <2> QED BY <1>3, <1>4, <2>3, <2>4 DEF IInv, VerifyCrc
<1>5. CASE burst > 0
  <2>1. damaged'
    BY <1>5 DEF IInv, VerifyCrc
  <2>2. Xor(sent, rcvd) # error
    <3>1. PICK k \in Xor(sent, rcvd) :
            k < burst * OctetBits \/ k >= RegBits
      <4> DEFINE reached == burst * OctetBits
      <4>1. reached \in Nat
        BY <1>1, BurstBound, StreamAssumption DEF TypeOK
      <4>2. PICK k \in Xor(sent, rcvd) :
              k < reached - pending \/ k >= RegBits - pending
        BY <1>5 DEF IInv, Apart
      <4>3. pending = 0
        BY DEF VerifyCrc
      <4> HIDE DEF reached
      <4>4. k < reached \/ k >= RegBits
        BY <4>1, <4>2, <4>3, CrcAssumption
      <4> QED BY <4>2, <4>4 DEF reached
    <3>2. k \in 0 .. RegBits - 1
      BY <1>1, <3>1, XorRegister DEF TypeOK, Register, RegPositions
    <3> DEFINE reached == burst * OctetBits
    <3>3. reached \in Nat
      BY <1>1, BurstBound, StreamAssumption DEF TypeOK
    <3>4. k \in Reachable => k >= reached
      BY <1>5, ReachableIsAbove
    <3>5. k < reached \/ k >= RegBits
      BY <3>1
    <3> HIDE DEF reached
    <3>6. k \notin Reachable
      BY <3>2, <3>3, <3>4, <3>5, CrcAssumption
    <3> QED BY <3>1, <3>6 DEF VerifyCrc
  <2>3. verdict' = "discard"
    BY <1>2, <2>2 DEF VerifyCrc
  <2>4. Apart' /\ (burst' = 0 => sent' = rcvd')
    BY <1>5 DEF IInv, VerifyCrc, Apart
  <2> QED BY <1>3, <2>1, <2>3, <2>4
          DEF IInv, VerifyCrc, BurstDetected
<1> QED BY <1>1, <1>4, <1>5, StreamAssumption DEF TypeOK

(* The invariant holds in every reachable state.                           *)
THEOREM Invariance == Spec => []IInv
<1>1. Init => IInv
  BY InitIInv
<1>2. IInv /\ [Next]_vars => IInv'
  <2> SUFFICES ASSUME IInv, [Next]_vars PROVE IInv'
    OBVIOUS
  <2>1. ASSUME NEW octet \in DataOctets, NEW error \in OctetErrors,
               BeginOctet(octet, error)
        PROVE  IInv'
    BY <2>1, BeginOctetIInv
  <2>2. CASE ShiftInBit
    BY <2>2, ShiftInBitIInv
  <2>3. ASSUME NEW error \in CrcErrors, VerifyCrc(error)
        PROVE  IInv'
    BY <2>3, VerifyCrcIInv
  <2>4. CASE UNCHANGED vars
    BY <2>4 DEF vars, IInv, TypeOK, Apart, BurstDetected
  <2> QED BY <2>1, <2>2, <2>3, <2>4 DEF Next
<1> QED BY <1>1, <1>2, PTL DEF Spec

(* Every variable keeps its type, whatever is sent and whatever the link   *)
(* does to it: in particular the registers stay RegBits wide.              *)
THEOREM TypeCorrect == Spec => []TypeOK
<1>1. IInv => TypeOK
  BY DEF IInv
<1> QED BY <1>1, Invariance, PTL

(* A PDU hit by one burst of at most BurstOctets consecutive octets, of    *)
(* the data or of the CRC or straddling both, is never accepted by         *)
(* cfdp_pdu_crc_verify.                                                    *)
THEOREM DetectsBursts == Spec => []BurstDetected
<1>1. IInv => BurstDetected
  BY DEF IInv
<1> QED BY <1>1, Invariance, PTL

(* After a burst the two registers differ from then on, at every bit of    *)
(* every later octet.                                                      *)
THEOREM StaysApart == Spec => []NeverRejoin
<1>1. IInv => NeverRejoin
  <2>1. ASSUME IInv, burst > 0 PROVE Xor(sent, rcvd) # {}
    BY <2>1 DEF IInv, Apart
  <2> QED BY <2>1, XorEmpty DEF NeverRejoin
<1> QED BY <1>1, Invariance, PTL
=============================================================================
