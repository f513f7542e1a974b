------------------------------ MODULE CfdpCommon ------------------------------
(***************************************************************************)
(* The limits and codes of include/cfdp_common.h that more than one part   *)
(* of the library uses.                                                    *)
(***************************************************************************)
EXTENDS CfdpOctets

CFDP_PROTOCOL_VERSION == 1
CFDP_ID_LEN_MIN == 1
CFDP_ID_LEN_MAX == 8
CFDP_PDU_HEADER_FIXED_LEN == 4
CFDP_PDU_CRC_LEN == 2
CFDP_SEGMENT_METADATA_MAX_LEN == 63

\* the one-bit fields of the header, which equal their bit on the wire
DIRECTIVE == 0
FILE_DATA == 1
ABSENT == 0
PRESENT == 1

CFDP_DIRECTIVE_EOF == 4
CFDP_DIRECTIVE_FINISHED == 5
CFDP_DIRECTIVE_ACK == 6
CFDP_DIRECTIVE_METADATA == 7
CFDP_DIRECTIVE_NAK == 8
CFDP_DIRECTIVE_PROMPT == 9
CFDP_DIRECTIVE_KEEP_ALIVE == 12

CFDP_COND_NO_ERROR == 0
CFDP_COND_POSITIVE_ACK_LIMIT_REACHED == 1
CFDP_COND_UNSUPPORTED_CHECKSUM_TYPE == 11

\* the octets an identifier may have
IdLengths == CFDP_ID_LEN_MIN .. CFDP_ID_LEN_MAX

(* cfdp_file_size_octets                                                   *)
FileSizeOctets(large) == IF large = 1 THEN 8 ELSE 4
=============================================================================
