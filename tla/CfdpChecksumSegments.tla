------------------------- MODULE CfdpChecksumSegments -------------------------
(***************************************************************************)
(* The file checksum as the receiving entity accumulates it: one call per  *)
(* File Data segment, in the order the segments arrive, compared in the    *)
(* end with the checksum of the EOF PDU, which the sending entity computed *)
(* over the whole file.                                                    *)
(***************************************************************************)
EXTENDS CfdpChecksum

CONSTANTS
  Files,      \* files that may be sent: sequences of octets
  Types       \* checksum types a Metadata PDU may name

ASSUME SegmentsAssumption ==
  /\ Files \subseteq Seq(OctetValue)
  /\ Types \subseteq 0 .. 15

VARIABLES
  file,      \* the file as the sending entity has it
  carried,   \* the file as the segments that arrive have it
  type,      \* the checksum type in use
  pending,   \* segments that have not arrived: [offset, len]
  running,   \* the receiver's running checksum
  refused    \* whether the last update was refused

segmentsVars == <<file, carried, type, pending, running, refused>>

-----------------------------------------------------------------------------
(* The segments between the cuts: together the file, none twice.           *)
SegmentsOf(f, cuts) ==
  {[offset |-> a, len |-> Min({b \in cuts : b > a}) - a] : a \in cuts \ {Len(f)}}

(* The same file, or one whose octet an undetected error has changed.      *)
Versions(f) ==
  {f} \cup {[f EXCEPT ![k] = octet] : k \in DOMAIN f, octet \in OctetValue}

(* A segment without data, whose pointer is NULL, may come as well.        *)
SegmentsInit ==
  /\ file \in Files
  /\ carried \in Versions(file)
  /\ type \in Types
  /\ \E cuts \in SUBSET (1 .. Len(file) - 1), empty \in SUBSET {Len(file)} :
       pending = SegmentsOf(file, cuts \cup {0, Len(file)})
                   \cup {[offset |-> a, len |-> 0] : a \in empty}
  /\ running = 0
  /\ refused = FALSE

(* A segment arrives, in any order, and is folded in.  None comes twice    *)
(* here: CfdpTransfer has those that do.  An update that is refused has to *)
(* be made again.                                                          *)
FoldSegment(segment) ==
  /\ segment \in pending
  /\ running' = UpdateByType(type, running, segment.offset,
                   SubSeq(carried, segment.offset + 1, segment.offset + segment.len))
  /\ refused' = ~ ChecksumTypeSupported(type)
  /\ pending' = IF refused' THEN pending ELSE pending \ {segment}
  /\ UNCHANGED <<file, carried, type>>

(* What the receiving entity does about it (README.md:318-320): the null   *)
(* checksum.                                                               *)
FallBack ==
  /\ refused
  /\ type' = CFDP_CHECKSUM_NULL
  /\ refused' = FALSE
  /\ UNCHANGED <<file, carried, pending, running>>

SegmentsNext == (\E segment \in pending : FoldSegment(segment)) \/ FallBack

SegmentsSpec == SegmentsInit /\ [][SegmentsNext]_segmentsVars

-----------------------------------------------------------------------------
(* Properties                                                              *)

(* The octets that have arrived, the others zero.                          *)
SoFar ==
  [k \in DOMAIN carried |->
     IF \E segment \in pending :
          segment.offset < k /\ k <= segment.offset + segment.len
     THEN 0 ELSE carried[k]]

(* The running checksum is at any time that of the file as it has arrived  *)
(* so far, gaps being zeros, whatever the order, the boundaries and the    *)
(* alignment of the segments; the null checksum is zero.                   *)
RunningIsWordSum ==
  running = IF type = CFDP_CHECKSUM_MODULAR THEN WordSum(SoFar) ELSE 0

(* When the whole file has arrived, the receiver's checksum is the one in  *)
(* the EOF PDU if it has arrived as it was sent, and is not if one octet   *)
(* of it has been changed, even in files long enough for the sum to lose   *)
(* carries.                                                                *)
EofChecksumDecides ==
  pending = {} /\ type = CFDP_CHECKSUM_MODULAR =>
    (running = ChecksumCompute(file) <=> carried = file)
=============================================================================
