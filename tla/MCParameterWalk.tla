--------------------------- MODULE MCParameterWalk ---------------------------
(***************************************************************************)
(* Instances of CfdpParameterWalk for TLC.                                 *)
(***************************************************************************)
EXTENDS CfdpParameterWalk

Name(octets) ==
  [value |-> IF octets = << >> THEN Null ELSE PointerTo(octets), len |-> Len(octets)]

CreateDirectory ==
  [action_code |-> 5, first_filename |-> Name(<<7, 8>>), second_filename |-> NoLv]
RenameFile ==
  [action_code |-> 2, first_filename |-> Name(<<9>>), second_filename |-> Name(<<3>>)]
Created ==
  [action_code |-> 0, status_code |-> 0, first_filename |-> Name(<<4>>),
   second_filename |-> NoLv, message |-> Name(<<5, 6>>)]
NotAppended ==
  [action_code |-> 3, status_code |-> 15, first_filename |-> Name(<< >>),
   second_filename |-> Name(<<2>>), message |-> NoLv]
IgnoreError == [condition_code |-> 11, handler_code |-> 3]
ToUser(octets) ==
  [type |-> CFDP_TLV_MESSAGE_TO_USER, length |-> Len(octets),
   value |-> IF octets = << >> THEN Null ELSE PointerTo(octets)]

\* a structure that holds two names is followed by one that has one
Options ==
  RequestSerialize(RenameFile, 64) \o OverrideSerialize(IgnoreError, 64)
    \o RequestSerialize(CreateDirectory, 64) \o TlvSerialize(ToUser(<< >>), 64)
Responses ==
  ResponseSerialize(NotAppended, 64) \o ResponseSerialize(Created, 64)
    \o ResponseSerialize(NotAppended, 64)

\* those, with any octet replaced by one that is a length too short or too
\* long, a type, an action without and with a second name, or one that no
\* table defines, and cut anywhere
DamagedChains ==
  UNION {{[chain EXCEPT ![i] = octet] :
            i \in 1 .. Len(chain), octet \in {0, 1, 3, 6, 32, 144, 255}}
           \cup {Slice(chain, 0, to) : to \in 0 .. Len(chain)} :
         chain \in {Options, Responses}}

\* every chain of up to five octets over types, lengths, and an action with a
\* second name
EveryChain == UNION {[1 .. length -> {0, 1, 2, 3, 33}] : length \in 0 .. 5}

SomeSpans == DamagedChains \cup EveryChain
=============================================================================
