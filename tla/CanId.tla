------------------------------- MODULE CanId -------------------------------
(***************************************************************************)
(* The 29 bits of a Cyphal CAN identifier: how libcanard makes one from    *)
(* the metadata of a transfer and what it reads from one.  The fields do   *)
(* not overlap, so the bitwise or of the code is a sum, and a shift with a *)
(* mask is a quotient with a remainder.                                    *)
(***************************************************************************)
EXTENDS Integers

PriorityUnit == 67108864        \* 2^26, OFFSET_PRIORITY
ServiceNotMessage == 33554432   \* 2^25, FLAG_SERVICE_NOT_MESSAGE
Flag24 == 16777216              \* FLAG_ANONYMOUS_MESSAGE, FLAG_REQUEST_NOT_RESPONSE
Reserved23 == 8388608
SubjectUnit == 256              \* 2^8, OFFSET_SUBJECT_ID
ServiceUnit == 16384            \* 2^14, OFFSET_SERVICE_ID
DestinationUnit == 128          \* 2^7, OFFSET_DST_NODE_ID and FLAG_RESERVED_07

NodeId == 0 .. 127
PortId == 0 .. 65535
CANARD_NODE_ID_UNSET == 255
CANARD_SUBJECT_ID_MAX == 8191
CANARD_SERVICE_ID_MAX == 511

Kind == {"message", "request", "response"}

(* The remote node is the destination of a transfer that is sent and the   *)
(* source of one that is received.                                         *)
Metadata == [priority : 0 .. 7, kind : Kind, port : PortId,
             remote : NodeId \cup {CANARD_NODE_ID_UNSET}]

InvalidArgument == -1

(* What txMakeCANID accepts; an anonymous node sends messages only.        *)
Sendable(tr, me) ==
    \/ /\ tr.kind = "message" /\ tr.remote = CANARD_NODE_ID_UNSET
       /\ tr.port <= CANARD_SUBJECT_ID_MAX
    \/ /\ tr.kind # "message" /\ tr.remote \in NodeId
       /\ tr.port <= CANARD_SERVICE_ID_MAX
       /\ me \in NodeId

txMakeMessageSessionSpecifier(subject, me) ==
    me + SubjectUnit * (subject + (CANARD_SUBJECT_ID_MAX + 1) + 2 * (CANARD_SUBJECT_ID_MAX + 1))

txMakeServiceSessionSpecifier(service, request, me, remote) ==
    me + DestinationUnit * remote + ServiceUnit * service
       + (IF request THEN Flag24 ELSE 0) + ServiceNotMessage

(* The ID of a node that has none is taken from the CRC of the payload.    *)
txMakeCANID(tr, me, crc) ==
    IF ~Sendable(tr, me) THEN InvalidArgument
    ELSE PriorityUnit * tr.priority +
         (CASE tr.kind # "message" ->
                  txMakeServiceSessionSpecifier(tr.port, tr.kind = "request", me, tr.remote)
            [] tr.kind = "message" /\ me \in NodeId ->
                  txMakeMessageSessionSpecifier(tr.port, me)
            [] OTHER -> Flag24 + txMakeMessageSessionSpecifier(tr.port, crc % 128))

-----------------------------------------------------------------------------
Has(id, flag) == (id \div flag) % 2 = 1

(* A field of n values above the bits that are worth less than unit.       *)
Field(id, unit, n) == (id \div unit) % n

IsService(id) == Has(id, ServiceNotMessage)

KindOf(id) ==
    CASE ~IsService(id)                 -> "message"
      [] IsService(id) /\ Has(id, Flag24)  -> "request"
      [] IsService(id) /\ ~Has(id, Flag24) -> "response"

PortOf(id) ==
    IF IsService(id) THEN Field(id, ServiceUnit, CANARD_SERVICE_ID_MAX + 1)
                     ELSE Field(id, SubjectUnit, CANARD_SUBJECT_ID_MAX + 1)

SourceOf(id) ==
    IF ~IsService(id) /\ Has(id, Flag24) THEN CANARD_NODE_ID_UNSET ELSE id % 128

DestinationOf(id) ==
    IF IsService(id) THEN Field(id, DestinationUnit, 128) ELSE CANARD_NODE_ID_UNSET

(* rxInitTransferMetadataFromFrame                                         *)
MetadataOf(id) ==
    [priority |-> Field(id, PriorityUnit, 8), kind |-> KindOf(id),
     port |-> PortOf(id), remote |-> SourceOf(id)]

(* Mutant: a service frame may carry the reserved bit.                     *)
ValidButReserved(id) ==
    IF IsService(id) THEN SourceOf(id) # DestinationOf(id)
                     ELSE ~Has(id, Reserved23) /\ ~Has(id, DestinationUnit)

(* The part of rxTryParseFrame that judges the CAN ID.                     *)
Valid(id) ==
    /\ ~Has(id, Reserved23)
    /\ IF IsService(id) THEN SourceOf(id) # DestinationOf(id)
                        ELSE ~Has(id, DestinationUnit)

(***************************************************************************)
(* A frame has an identifier, a number of bytes (the tail byte is the      *)
(* last) and the start, end and toggle bits of its tail byte.  An older    *)
(* protocol version that shares the bus starts with the toggle cleared.    *)
(***************************************************************************)
rxTryParseFrame(f) ==
    /\ f.size > 0
    /\ Valid(f.id)
    /\ f.start => f.toggle
    /\ (f.start /\ f.end) \/ SourceOf(f.id) # CANARD_NODE_ID_UNSET
    /\ f.size - 1 >= 7 \/ f.end
    /\ f.size - 1 > 0 \/ (f.start /\ f.end)
=============================================================================
