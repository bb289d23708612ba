--------------------------- MODULE DispatchProofs ---------------------------
(***************************************************************************)
(* For every set of subscribers, publishers and peers: the CAN ID carries  *)
(* the metadata of a transfer whole, and the two tables of subscriptions   *)
(* bring it to those who asked for it and to nobody else.                  *)
(***************************************************************************)
EXTENDS Dispatch, SequenceTheorems, TLAPS

-----------------------------------------------------------------------------
(* What is put into a CAN ID is what is read from it.                      *)

Priority == 0 .. 7
SubjectNumber == {p \in Nat : p <= 8191}
ServiceNumber == {p \in Nat : p <= 511}

(* The sums that txMakeCANID computes, with r = 1 for a request.           *)
MessageSum(prio, port, me) == 67108864 * prio + me + 256 * (port + 24576)

ServiceSum(prio, port, r, me, remote) ==
    67108864 * prio + me + 128 * remote + 16384 * port + 16777216 * r + 33554432

(* The fields of an identifier, lowest bit last.                           *)
MessageFields(id, prio, port, me) ==
    /\ id \in Nat /\ id < 536870912
    /\ (id \div 67108864) % 8 = prio
    /\ (id \div 33554432) % 2 = 0
    /\ (id \div 16777216) % 2 = 0
    /\ (id \div 8388608) % 2 = 0
    /\ (id \div 256) % 8192 = port
    /\ (id \div 128) % 2 = 0
    /\ id % 128 = me

ServiceFields(id, prio, port, r, me, remote) ==
    /\ id \in Nat /\ id < 536870912
    /\ (id \div 67108864) % 8 = prio
    /\ (id \div 33554432) % 2 = 1
    /\ (id \div 16777216) % 2 = r
    /\ (id \div 8388608) % 2 = 0
    /\ (id \div 16384) % 512 = port
    /\ (id \div 128) % 128 = remote
    /\ id % 128 = me

LEMMA MessageArithmetic ==
    ASSUME NEW prio \in Priority, NEW port \in SubjectNumber, NEW me \in NodeId
    PROVE  MessageFields(MessageSum(prio, port, me), prio, port, me)
BY SMTT(60) DEF Priority, SubjectNumber, NodeId, MessageFields, MessageSum

LEMMA ServiceArithmetic ==
    ASSUME NEW prio \in Priority, NEW port \in ServiceNumber, NEW r \in {0, 1},
           NEW me \in NodeId, NEW remote \in NodeId
    PROVE  ServiceFields(ServiceSum(prio, port, r, me, remote), prio, port, r, me, remote)
<1> DEFINE id == ServiceSum(prio, port, r, me, remote)
<1>1. /\ prio \in Nat /\ prio <= 7 /\ port \in Nat /\ port <= 511
      /\ r \in Nat /\ r <= 1
      /\ me \in Nat /\ me <= 127 /\ remote \in Nat /\ remote <= 127
  BY SMT DEF Priority, ServiceNumber, NodeId
<1>2. /\ id \in Nat
      /\ id = 67108864 * prio + me + 128 * remote + 16384 * port
              + 16777216 * r + 33554432
  BY <1>1, SMT DEF ServiceSum
<1> HIDE DEF id
<1>3. ServiceFields(id, prio, port, r, me, remote)
  BY <1>1, <1>2, SMTT(60) DEF ServiceFields
<1> QED BY <1>3 DEF id

LEMMA PortsAreNumbers ==
    ASSUME NEW p \in PortId
    PROVE  p \in Nat
BY DEF PortId

LEMMA MessageId ==
    ASSUME NEW tr \in Metadata, NEW me \in NodeId, NEW crc \in Nat,
           Sendable(tr, me), tr.kind = "message"
    PROVE  /\ tr.priority \in Priority /\ tr.port \in SubjectNumber
           /\ tr.remote = CANARD_NODE_ID_UNSET
           /\ txMakeCANID(tr, me, crc) = MessageSum(tr.priority, tr.port, me)
<1>1. tr.priority \in Priority /\ tr.port \in PortId
  BY DEF Metadata, Priority
<1>2. tr.port \in Nat
  BY <1>1, PortsAreNumbers, Zenon
<1>3. tr.remote = CANARD_NODE_ID_UNSET /\ tr.port <= CANARD_SUBJECT_ID_MAX
  BY Zenon DEF Sendable
<1>4. tr.port \in SubjectNumber
  BY <1>2, <1>3, SMT DEF SubjectNumber, CANARD_SUBJECT_ID_MAX
<1>5. txMakeCANID(tr, me, crc) = PriorityUnit * tr.priority
                                 + txMakeMessageSessionSpecifier(tr.port, me)
  BY Zenon DEF txMakeCANID
<1>6. ASSUME NEW prio \in Priority, NEW port \in Nat
      PROVE  PriorityUnit * prio + txMakeMessageSessionSpecifier(port, me)
                 = MessageSum(prio, port, me)
  BY SMT DEF Priority, NodeId, PriorityUnit, txMakeMessageSessionSpecifier, SubjectUnit,
     CANARD_SUBJECT_ID_MAX, MessageSum
<1> QED BY <1>1, <1>2, <1>3, <1>4, <1>5, <1>6, Zenon

LEMMA ServiceId ==
    ASSUME NEW tr \in Metadata, NEW me \in NodeId, NEW crc \in Nat,
           Sendable(tr, me), tr.kind # "message"
    PROVE  /\ tr.priority \in Priority /\ tr.port \in ServiceNumber /\ tr.remote \in NodeId
           /\ txMakeCANID(tr, me, crc) =
                 ServiceSum(tr.priority, tr.port, IF tr.kind = "request" THEN 1 ELSE 0,
                            me, tr.remote)
<1>1. tr.priority \in Priority /\ tr.port \in PortId
  BY DEF Metadata, Priority
<1>2. tr.port \in Nat
  BY <1>1, PortsAreNumbers, Zenon
<1>3. tr.remote \in NodeId /\ tr.port <= CANARD_SERVICE_ID_MAX
  BY Zenon DEF Sendable
<1>4. tr.port \in ServiceNumber
  BY <1>2, <1>3, SMT DEF ServiceNumber, CANARD_SERVICE_ID_MAX
<1>5. txMakeCANID(tr, me, crc) = PriorityUnit * tr.priority
          + txMakeServiceSessionSpecifier(tr.port, tr.kind = "request", me, tr.remote)
  BY Zenon DEF txMakeCANID
<1>6. ASSUME NEW prio \in Priority, NEW port \in Nat, NEW remote \in NodeId, NEW r \in BOOLEAN
      PROVE  PriorityUnit * prio + txMakeServiceSessionSpecifier(port, r, me, remote)
                 = ServiceSum(prio, port, IF r THEN 1 ELSE 0, me, remote)
  BY SMT DEF Priority, NodeId, PriorityUnit, txMakeServiceSessionSpecifier, DestinationUnit,
     ServiceUnit, Flag24, ServiceNotMessage, ServiceSum
<1>7. (tr.kind = "request") \in BOOLEAN
  BY Zenon
<1> QED BY <1>1, <1>2, <1>3, <1>4, <1>5, <1>6, <1>7, Zenon

-----------------------------------------------------------------------------
(***************************************************************************)
(* Every message that a node sends is valid to the others, which read its  *)
(* priority, its subject and its source, and no destination.               *)
(***************************************************************************)
THEOREM MessageRoundTrip ==
    ASSUME NEW tr \in Metadata, NEW me \in NodeId, NEW crc \in Nat,
           Sendable(tr, me), tr.kind = "message"
    PROVE  LET id == txMakeCANID(tr, me, crc)
           IN  /\ Valid(id)
               /\ MetadataOf(id) = [tr EXCEPT !.remote = me]
               /\ DestinationOf(id) = tr.remote
<1> DEFINE id == txMakeCANID(tr, me, crc)
<1>1. MessageFields(id, tr.priority, tr.port, me) /\ tr.remote = CANARD_NODE_ID_UNSET
  BY MessageId, MessageArithmetic, Zenon
<1> HIDE DEF id
<1>2. ~IsService(id) /\ ~Has(id, Flag24) /\ ~Has(id, Reserved23) /\ ~Has(id, DestinationUnit)
  BY <1>1, SMT DEF MessageFields, IsService, Has, ServiceNotMessage, Flag24, Reserved23,
     DestinationUnit
<1>3. id % 128 = me
  BY <1>1, SMT DEF MessageFields
<1>4. KindOf(id) = "message" /\ SourceOf(id) = me /\ DestinationOf(id) = CANARD_NODE_ID_UNSET
  BY <1>2, <1>3, Zenon DEF KindOf, SourceOf, DestinationOf
<1>5. Field(id, SubjectUnit, CANARD_SUBJECT_ID_MAX + 1) = tr.port
  BY <1>1, SMT DEF MessageFields, Field, SubjectUnit, CANARD_SUBJECT_ID_MAX
<1>6. PortOf(id) = tr.port
  BY <1>2, <1>5, Zenon DEF PortOf
<1>7. Field(id, PriorityUnit, 8) = tr.priority
  BY <1>1, SMT DEF MessageFields, Field, PriorityUnit
<1>8. MetadataOf(id) = [tr EXCEPT !.remote = me]
  BY <1>4, <1>6, <1>7 DEF MetadataOf, Metadata
<1>9. Valid(id)
  BY <1>2, Zenon DEF Valid
<1> QED BY <1>1, <1>4, <1>8, <1>9, Zenon DEF id

(***************************************************************************)
(* Every request or response to another node is valid to all, which read   *)
(* its priority, kind, service and source, and the destination.            *)
(***************************************************************************)
THEOREM ServiceRoundTrip ==
    ASSUME NEW tr \in Metadata, NEW me \in NodeId, NEW crc \in Nat,
           Sendable(tr, me), tr.kind # "message", tr.remote # me
    PROVE  LET id == txMakeCANID(tr, me, crc)
           IN  /\ Valid(id)
               /\ MetadataOf(id) = [tr EXCEPT !.remote = me]
               /\ DestinationOf(id) = tr.remote
<1> DEFINE id == txMakeCANID(tr, me, crc)
           r == IF tr.kind = "request" THEN 1 ELSE 0
<1>1. r \in {0, 1}
  BY Zenon
<1>2. ServiceFields(id, tr.priority, tr.port, r, me, tr.remote)
  BY <1>1, ServiceId, ServiceArithmetic, Zenon
<1>3. r = 1 <=> tr.kind = "request"
  OBVIOUS
<1> HIDE DEF id, r
<1>4. IsService(id) /\ (Has(id, Flag24) <=> r = 1) /\ ~Has(id, Reserved23)
  BY <1>1, <1>2, SMT DEF ServiceFields, IsService, Has, ServiceNotMessage, Flag24, Reserved23
<1>5. id % 128 = me /\ Field(id, DestinationUnit, 128) = tr.remote
  BY <1>2, SMT DEF ServiceFields, Field, DestinationUnit
<1>6. SourceOf(id) = me /\ DestinationOf(id) = tr.remote
  BY <1>4, <1>5, Zenon DEF SourceOf, DestinationOf
<1>7. KindOf(id) = tr.kind
  <2>1. tr.kind \in {"message", "request", "response"}
    BY DEF Metadata, Kind
  <2>2. CASE tr.kind = "request"
    BY <1>3, <1>4, <2>2, Zenon DEF KindOf
  <2>3. CASE tr.kind = "response"
    BY <1>3, <1>4, <2>3, Zenon DEF KindOf
  <2> QED BY <2>1, <2>2, <2>3
<1>8. Field(id, ServiceUnit, CANARD_SERVICE_ID_MAX + 1) = tr.port
  BY <1>2, SMT DEF ServiceFields, Field, ServiceUnit, CANARD_SERVICE_ID_MAX
<1>9. PortOf(id) = tr.port
  BY <1>4, <1>8, Zenon DEF PortOf
<1>10. Field(id, PriorityUnit, 8) = tr.priority
  BY <1>2, SMT DEF ServiceFields, Field, PriorityUnit
<1>11. MetadataOf(id) = [tr EXCEPT !.remote = me]
  BY <1>6, <1>7, <1>9, <1>10 DEF MetadataOf, Metadata
<1>12. Valid(id)
  BY <1>4, <1>6, Zenon DEF Valid
<1> QED BY <1>6, <1>11, <1>12, Zenon DEF id

(***************************************************************************)
(* The more urgent of two transfers has the smaller CAN ID, whatever their *)
(* kinds, ports and nodes: the order in which TxQueue and the bus take     *)
(* frames is the order of the priorities.                                  *)
(***************************************************************************)
THEOREM UrgentIsSmaller ==
    ASSUME NEW t \in Metadata, NEW u \in Metadata, NEW m \in NodeId, NEW n \in NodeId,
           NEW crc \in Nat, Sendable(t, m), Sendable(u, n), t.priority < u.priority
    PROVE  txMakeCANID(t, m, crc) < txMakeCANID(u, n, crc)
<1>1. ASSUME NEW tr \in Metadata, NEW me \in NodeId, Sendable(tr, me)
      PROVE  /\ tr.priority \in Priority
             /\ txMakeCANID(tr, me, crc) \in Nat
             /\ txMakeCANID(tr, me, crc) \div PriorityUnit = tr.priority
  <2>1. ASSUME NEW id, NEW prio \in Priority, id \in Nat, id < 536870912,
               (id \div 67108864) % 8 = prio
        PROVE  id \div PriorityUnit = prio
    BY <2>1, SMT DEF PriorityUnit
  <2>2. CASE tr.kind = "message"
    BY <1>1, <2>1, <2>2, MessageId, MessageArithmetic DEF MessageFields
  <2>3. CASE tr.kind # "message"
    BY <1>1, <2>1, <2>3, ServiceId, ServiceArithmetic DEF ServiceFields
  <2> QED BY <2>2, <2>3
<1>2. ASSUME NEW x \in Nat, NEW y \in Nat, x \div PriorityUnit < y \div PriorityUnit
      PROVE  x < y
  BY <1>2, SMT DEF PriorityUnit
<1> QED BY <1>1, <1>2

(* The CAN ID of a node without a node-ID: bit 24 is set, and no source is *)
(* read from it.                                                           *)
LEMMA AnonymousArithmetic ==
    ASSUME NEW prio \in Priority, NEW port \in SubjectNumber, NEW me \in NodeId,
           NEW id, id = MessageSum(prio, port, me) + Flag24
    PROVE  /\ id \in Nat
           /\ ~IsService(id) /\ Has(id, Flag24)
           /\ ~Has(id, Reserved23) /\ ~Has(id, DestinationUnit)
           /\ Field(id, SubjectUnit, CANARD_SUBJECT_ID_MAX + 1) = port
<1>1. /\ prio \in Nat /\ prio <= 7 /\ port \in Nat /\ port <= 8191 /\ me \in Nat /\ me <= 127
  BY SMT DEF Priority, SubjectNumber, NodeId
<1>2. id \in Nat /\ id = 67108864 * prio + me + 256 * (port + 24576) + 16777216
  BY <1>1, SMT DEF MessageSum, Flag24
<1>3. /\ (id \div 33554432) % 2 = 0
      /\ (id \div 16777216) % 2 = 1
      /\ (id \div 8388608) % 2 = 0
      /\ (id \div 256) % 8192 = port
      /\ (id \div 128) % 2 = 0
  BY <1>1, <1>2, SMTT(60)
<1> QED
  BY <1>2, <1>3, SMT DEF IsService, Has, ServiceNotMessage, Flag24, Reserved23,
     DestinationUnit, Field, SubjectUnit, CANARD_SUBJECT_ID_MAX

LEMMA AnonymousRoundTrip ==
    ASSUME NEW tr \in Metadata, NEW crc \in Nat, Sendable(tr, CANARD_NODE_ID_UNSET)
    PROVE  LET id == txMakeCANID(tr, CANARD_NODE_ID_UNSET, crc)
           IN  /\ id \in Nat /\ Valid(id)
               /\ KindOf(id) = tr.kind /\ PortOf(id) = tr.port
               /\ SourceOf(id) = CANARD_NODE_ID_UNSET /\ DestinationOf(id) = tr.remote
<1>1. CANARD_NODE_ID_UNSET \notin NodeId
  BY SMT DEF CANARD_NODE_ID_UNSET, NodeId
<1>2. /\ tr.kind = "message" /\ tr.remote = CANARD_NODE_ID_UNSET
      /\ tr.port <= CANARD_SUBJECT_ID_MAX
  BY <1>1, Zenon DEF Sendable
<1>3. tr.priority \in Priority /\ tr.port \in PortId
  BY DEF Metadata, Priority
<1>4. tr.port \in SubjectNumber
  <2>1. tr.port \in Nat
    BY <1>3, PortsAreNumbers, Zenon
  <2> QED BY <1>2, <2>1, SMT DEF SubjectNumber, CANARD_SUBJECT_ID_MAX
<1>5. crc % 128 \in NodeId
  BY SMT DEF NodeId
<1> DEFINE id == txMakeCANID(tr, CANARD_NODE_ID_UNSET, crc)
<1>6. id = PriorityUnit * tr.priority
           + (Flag24 + txMakeMessageSessionSpecifier(tr.port, crc % 128))
  BY <1>1, <1>2, Zenon DEF txMakeCANID
<1>7. ASSUME NEW prio \in Priority, NEW port \in SubjectNumber, NEW me \in NodeId
      PROVE  PriorityUnit * prio + (Flag24 + txMakeMessageSessionSpecifier(port, me))
                 = MessageSum(prio, port, me) + Flag24
  BY SMT DEF Priority, SubjectNumber, NodeId, PriorityUnit, txMakeMessageSessionSpecifier,
     SubjectUnit, CANARD_SUBJECT_ID_MAX, MessageSum, Flag24
<1>8. id = MessageSum(tr.priority, tr.port, crc % 128) + Flag24
  BY <1>3, <1>4, <1>5, <1>6, <1>7
<1> HIDE DEF id
<1>9. /\ id \in Nat /\ ~IsService(id) /\ Has(id, Flag24)
      /\ ~Has(id, Reserved23) /\ ~Has(id, DestinationUnit)
      /\ Field(id, SubjectUnit, CANARD_SUBJECT_ID_MAX + 1) = tr.port
  BY <1>3, <1>4, <1>5, <1>8, AnonymousArithmetic
<1>10. /\ Valid(id) /\ KindOf(id) = tr.kind /\ PortOf(id) = tr.port
       /\ SourceOf(id) = CANARD_NODE_ID_UNSET /\ DestinationOf(id) = tr.remote
  BY <1>2, <1>9, Zenon DEF Valid, KindOf, PortOf, SourceOf, DestinationOf
<1> QED BY <1>9, <1>10, Zenon DEF id

(* What the receiver reads from the CAN ID of any transfer, whoever sends. *)
LEMMA ReadFromId ==
    ASSUME NEW tr \in Metadata, NEW n, n \in NodeId \/ n = CANARD_NODE_ID_UNSET,
           NEW crc \in Nat, Sendable(tr, n), tr.remote # n, NEW id, id = txMakeCANID(tr, n, crc)
    PROVE  /\ id \in Nat /\ Valid(id)
           /\ KindOf(id) = tr.kind /\ PortOf(id) = tr.port
           /\ SourceOf(id) = n /\ DestinationOf(id) = tr.remote
<1>1. CASE n = CANARD_NODE_ID_UNSET
  BY <1>1, AnonymousRoundTrip, Zenon
<1>2. CASE n \in NodeId
  <2>1. Valid(id) /\ MetadataOf(id) = [tr EXCEPT !.remote = n] /\ DestinationOf(id) = tr.remote
    BY <1>2, MessageRoundTrip, ServiceRoundTrip, Zenon
  <2>2. id \in Nat
    <3>1. CASE tr.kind = "message"
      <4>1. MessageFields(id, tr.priority, tr.port, n)
        BY <1>2, <3>1, MessageId, MessageArithmetic, Zenon
      <4> QED BY <4>1, SMT DEF MessageFields
    <3>2. CASE tr.kind # "message"
      <4> DEFINE r == IF tr.kind = "request" THEN 1 ELSE 0
      <4>1. r \in {0, 1}
        BY Zenon
      <4>2. ServiceFields(id, tr.priority, tr.port, r, n, tr.remote)
        BY <1>2, <3>2, <4>1, ServiceId, ServiceArithmetic, ZenonT(60)
      <4> QED BY <4>2, SMT DEF ServiceFields
    <3> QED BY <3>1, <3>2
  <2>3. KindOf(id) = tr.kind /\ PortOf(id) = tr.port /\ SourceOf(id) = n
    BY <2>1 DEF MetadataOf, Metadata
  <2> QED BY <2>1, <2>2, <2>3, Zenon
<1> QED BY <1>1, <1>2

-----------------------------------------------------------------------------
(* The two tables of subscriptions.                                        *)

Heard(kind) == {e[1] : e \in rx_subscriptions[kind]}

(* Both tables hold the same ports, though only one of them remembers all  *)
(* subscribers of a port; the services are there from the beginning.       *)
TablesInv ==
    /\ port_id \in [Subscriber -> PortId] /\ \A s \in Service : port_id[s] = s
    /\ sub_info \in Seq(Subscriber) /\ Len(sub_info) <= MaxSubNum
    /\ Service \subseteq Range(sub_info)
    /\ rx_subscriptions \in [Kind -> SUBSET (PortId \X Subscriber)]
    /\ rx_subscriptions["request"] = {<<s, s>> : s \in Service}
    /\ rx_subscriptions["response"] = {}
    /\ Heard("message") = {port_id[s] : s \in Range(sub_info) \ Service}
    /\ 0 \notin Heard("message")
    /\ pub_port \in [Range(Publisher) -> PortId]

LEMMA ServiceNumbers ==
    ASSUME NEW s \in Service
    PROVE  s \in PortId /\ s \in Nat /\ s <= CANARD_SERVICE_ID_MAX /\ s \in Subscriber
BY DEF Service, PortId, CANARD_SERVICE_ID_MAX, Subscriber

LEMMA RangeOfAppend ==
    ASSUME NEW S, NEW q \in Seq(S), NEW e \in S
    PROVE  Range(Append(q, e)) = Range(q) \cup {e}
<1>1. /\ Append(q, e) \in Seq(S) /\ Len(q) \in Nat
      /\ Len(Append(q, e)) = Len(q) + 1
      /\ Append(q, e)[Len(q) + 1] = e
      /\ \A i \in 1 .. Len(q) : Append(q, e)[i] = q[i]
  BY AppendProperties
<1>2. DOMAIN Append(q, e) = 1 .. Len(q) + 1 /\ DOMAIN q = 1 .. Len(q)
  BY <1>1
<1>3. 1 .. Len(q) + 1 = (1 .. Len(q)) \cup {Len(q) + 1}
  BY <1>1
<1> QED BY <1>1, <1>2, <1>3 DEF Range

LEMMA InitTables == Init => TablesInv
<1> SUFFICES ASSUME Init PROVE TablesInv
    OBVIOUS
<1>1. /\ sub_info = <<430, 385, 384, 435>> /\ sub_info \in Seq(Subscriber)
      /\ Len(sub_info) = 4 /\ MaxSubNum \in Nat /\ 4 <= MaxSubNum
  BY DispatchAssumption DEF Init, ServiceOrder, Subscriber, Service
<1>2. Range(sub_info) = Service
  <2>1. DOMAIN sub_info = 1 .. 4
    BY <1>1
  <2>2. /\ sub_info[1] = 430 /\ sub_info[2] = 385 /\ sub_info[3] = 384 /\ sub_info[4] = 435
    BY <1>1
  <2>3. Service \subseteq Range(sub_info)
    <3>1. 1 \in 1 .. 4 /\ 2 \in 1 .. 4 /\ 3 \in 1 .. 4 /\ 4 \in 1 .. 4
      OBVIOUS
    <3> QED BY <2>1, <2>2, <3>1 DEF Range, Service
  <2>4. \A i \in 1 .. 4 : i = 1 \/ i = 2 \/ i = 3 \/ i = 4
    OBVIOUS
  <2>5. Range(sub_info) \subseteq Service
    BY <2>1, <2>2, <2>4 DEF Range, Service
  <2> QED BY <2>3, <2>5
<1>3. port_id \in [Subscriber -> PortId] /\ \A s \in Service : port_id[s] = s
  <2>1. 0 \in PortId
    BY DEF PortId
  <2> QED BY <2>1, ServiceNumbers DEF Init, isService
<1>4. /\ rx_subscriptions["request"] = {<<s, s>> : s \in Service}
      /\ rx_subscriptions["response"] = {} /\ rx_subscriptions["message"] = {}
  BY DEF Init, Kind
<1>5. rx_subscriptions \in [Kind -> SUBSET (PortId \X Subscriber)]
  <2>1. {<<s, s>> : s \in Service} \subseteq PortId \X Subscriber
    BY ServiceNumbers
  <2> QED BY <2>1 DEF Init, Kind
<1>6. pub_port \in [Range(Publisher) -> PortId]
  <2>1. 65535 \in PortId
    BY DEF PortId
  <2> QED BY <2>1 DEF Init
<1> QED BY <1>1, <1>2, <1>3, <1>4, <1>5, <1>6 DEF TablesInv, Heard

LEMMA SubscribePreservesTables ==
    ASSUME TablesInv, NEW s \in App, InitSubscriber(s)
    PROVE  TablesInv'
<1>1. PICK port \in Port : port_id' = [port_id EXCEPT ![s] = port] /\ subscribe(s, port)
  BY DEF InitSubscriber
<1>2. /\ s \in Subscriber /\ s \notin Service /\ port \in PortId /\ s \notin Range(sub_info)
      /\ pub_port' = pub_port
  BY DispatchAssumption DEF InitSubscriber, Subscriber
<1>3. /\ port_id' \in [Subscriber -> PortId] /\ port_id'[s] = port
      /\ \A t \in Subscriber : t # s => port_id'[t] = port_id[t]
  BY <1>1, <1>2 DEF TablesInv
<1>4. \A t \in Service : port_id'[t] = t
  BY <1>2, <1>3, ServiceNumbers DEF TablesInv
<1>5. Range(sub_info) \subseteq Subscriber
  BY RangeOfSeq DEF TablesInv
<1>6. {port_id'[t] : t \in Range(sub_info) \ Service} = {port_id[t] : t \in Range(sub_info) \ Service}
  BY <1>2, <1>3, <1>5
<1>7. CASE Len(sub_info) >= MaxSubNum \/ port = 0
  <2>1. UNCHANGED <<sub_info, rx_subscriptions>>
    BY <1>1, <1>7 DEF subscribe
  <2> QED BY <1>2, <1>3, <1>4, <1>6, <2>1 DEF TablesInv, Heard
<1>8. CASE ~(Len(sub_info) >= MaxSubNum \/ port = 0)
  <2>1. /\ sub_info' = Append(sub_info, s) /\ port # 0
        /\ rx_subscriptions' = [rx_subscriptions EXCEPT !["message"] =
              {e \in @ : e[1] # port} \cup {<<port, s>>}]
    BY <1>1, <1>8 DEF subscribe, canardRxSubscribe
  <2>2. sub_info' \in Seq(Subscriber) /\ Len(sub_info') <= MaxSubNum
    <3>1. Len(Append(sub_info, s)) = Len(sub_info) + 1 /\ Append(sub_info, s) \in Seq(Subscriber)
          /\ Len(sub_info) \in Nat
      BY <1>2, AppendProperties DEF TablesInv
    <3> QED BY <1>8, <2>1, <3>1, DispatchAssumption
  <2>3. Range(sub_info') = Range(sub_info) \cup {s}
    BY <1>2, <2>1, RangeOfAppend DEF TablesInv
  <2>4. /\ rx_subscriptions'["request"] = rx_subscriptions["request"]
        /\ rx_subscriptions'["response"] = rx_subscriptions["response"]
        /\ rx_subscriptions'["message"] =
              {e \in rx_subscriptions["message"] : e[1] # port} \cup {<<port, s>>}
    BY <2>1 DEF TablesInv, Kind
  <2>5. rx_subscriptions' \in [Kind -> SUBSET (PortId \X Subscriber)]
    <3>1. rx_subscriptions'["message"] \subseteq PortId \X Subscriber
      <4>1. rx_subscriptions["message"] \subseteq PortId \X Subscriber
        BY DEF TablesInv, Kind
      <4> QED BY <4>1, <1>2, <2>4
    <3> QED BY <2>1, <2>4, <3>1 DEF TablesInv
  <2>6. Heard("message")' = Heard("message") \cup {port}
    <3>1. <<port, s>>[1] = port
      OBVIOUS
    <3>2. \A e \in rx_subscriptions["message"] :
             e \in rx_subscriptions'["message"] \/ e[1] = port
      BY <2>4
    <3>3. \A e \in rx_subscriptions'["message"] :
             e \in rx_subscriptions["message"] \/ e = <<port, s>>
      BY <2>4
    <3>4. <<port, s>> \in rx_subscriptions'["message"]
      BY <2>4
    <3>5. Heard("message")' \subseteq Heard("message") \cup {port}
      BY <3>1, <3>3 DEF Heard
    <3>6. Heard("message") \cup {port} \subseteq Heard("message")'
      BY <3>1, <3>2, <3>4 DEF Heard
    <3> QED BY <3>5, <3>6
  <2>7. {port_id'[t] : t \in Range(sub_info') \ Service}
           = {port_id[t] : t \in Range(sub_info) \ Service} \cup {port}
    BY <1>2, <1>3, <1>6, <2>3
  <2>8. Heard("message")' = {port_id'[t] : t \in Range(sub_info') \ Service}
        /\ 0 \notin Heard("message")'
    BY <2>1, <2>6, <2>7 DEF TablesInv
  <2>9. Service \subseteq Range(sub_info')
    BY <2>3 DEF TablesInv
  <2> QED BY <1>2, <1>3, <1>4, <2>2, <2>4, <2>5, <2>8, <2>9 DEF TablesInv
<1> QED BY <1>7, <1>8

LEMMA NextTables == TablesInv /\ [Next]_vars => TablesInv'
<1> SUFFICES ASSUME TablesInv, [Next]_vars PROVE TablesInv'
    OBVIOUS
<1>1. ASSUME NEW p \in Range(Publisher), SetPortId(p) PROVE TablesInv'
  <2>1. pub_port' \in [Range(Publisher) -> PortId]
    BY <1>1, DispatchAssumption DEF SetPortId, TablesInv
  <2>2. Heard("message")' = Heard("message") /\ UNCHANGED <<port_id, sub_info, rx_subscriptions>>
    BY <1>1 DEF SetPortId, Heard
  <2> QED BY <2>1, <2>2, ZenonT(60) DEF TablesInv
<1>2. ASSUME UNCHANGED <<port_id, sub_info, rx_subscriptions, pub_port>> PROVE TablesInv'
  <2>1. Heard("message")' = Heard("message")
    BY <1>2 DEF Heard
  <2> QED BY <1>2, <2>1, ZenonT(60) DEF TablesInv
<1>3. ASSUME NEW p \in Range(Publisher), NEW tid \in Tid, Publish(p, tid) PROVE TablesInv'
  BY <1>2, <1>3 DEF Publish
<1>4. ASSUME NEW n \in Peer, NEW tr \in Transfer, NEW tid \in Tid, Receive(n, tr, tid)
      PROVE  TablesInv'
  BY <1>2, <1>4 DEF Receive
<1>5. ASSUME NEW f \in Stray, ReceiveStray(f) PROVE TablesInv'
  BY <1>2, <1>5 DEF ReceiveStray
<1>6. CASE UNCHANGED vars
  BY <1>2, <1>6 DEF vars
<1> QED BY <1>1, <1>3, <1>4, <1>5, <1>6, SubscribePreservesTables DEF Next

-----------------------------------------------------------------------------
(* What the last step received, called and sent, in the present tables.    *)

FrameOf(n, tr, tid) ==
    [id |-> txMakeCANID(tr, n, tid), size |-> 8, start |-> TRUE, end |-> TRUE, toggle |-> TRUE]

Answers(f, tid) == UNION {Pushed(Response(s, f.id), tid) : s \in Called(f) \cap Service}

FromPeer(n, tr, tid) ==
    /\ Sendable(tr, n) /\ tr.remote # n
    /\ last = [from |-> n, tr |-> tr, tid |-> tid, called |-> Called(FrameOf(n, tr, tid)),
               out |-> Answers(FrameOf(n, tr, tid), tid)]

(* The message of a publisher, if it is enabled.                           *)
Message(p) == [priority |-> CanardPriorityNominal, kind |-> "message",
               port |-> pub_port[p], remote |-> CANARD_NODE_ID_UNSET]

Published(p, tid) ==
    /\ last = [called |-> {}, out |-> IF ~isEnabled(pub_port[p]) THEN {} ELSE Pushed(Message(p), tid)]

LastInv ==
    \/ last = Quiet
    \/ \E p \in Range(Publisher), tid \in Tid : Published(p, tid)
    \/ \E n \in Peer, tr \in Transfer, tid \in Tid : FromPeer(n, tr, tid)

LEMMA StrayIsIgnored ==
    ASSUME NEW f \in Stray, ReceiveStray(f)
    PROVE  last' = Quiet
<1>1. ~rxTryParseFrame(f)
  BY DispatchAssumption, Zenon DEF rxTryParseFrame, Valid
<1>2. Called(f) = {}
  BY <1>1 DEF Called, Accepted
<1>3. UNION {Pushed(Response(s, f.id), t) : s \in Called(f) \cap Service, t \in Tid} = {}
  BY <1>2
<1> QED BY <1>2, <1>3 DEF ReceiveStray, Quiet

LEMMA NextLast == LastInv /\ [Next]_vars => LastInv'
<1> SUFFICES ASSUME LastInv, [Next]_vars PROVE LastInv'
    OBVIOUS
<1> DEFINE tables == <<port_id, sub_info, rx_subscriptions, pub_port>>
<1>1. ASSUME last' = Quiet PROVE LastInv'
  BY <1>1 DEF LastInv, Quiet
<1>2. ASSUME NEW s \in App, InitSubscriber(s) PROVE LastInv'
  BY <1>1, <1>2 DEF InitSubscriber
<1>3. ASSUME NEW p \in Range(Publisher), SetPortId(p) PROVE LastInv'
  BY <1>1, <1>3 DEF SetPortId
<1>4. ASSUME NEW p \in Range(Publisher), NEW tid \in Tid, Publish(p, tid) PROVE LastInv'
  <2>1. pub_port' = pub_port
    BY <1>4 DEF Publish
  <2>2. \A out : [Quiet EXCEPT !.out = out] = [called |-> {}, out |-> out]
    BY DEF Quiet
  <2>3. Published(p, tid)'
    BY <1>4, <2>1, <2>2, Zenon DEF Publish, Published, Message
  <2> QED BY <2>3 DEF LastInv
<1>5. ASSUME NEW n \in Peer, NEW tr \in Transfer, NEW tid \in Tid, Receive(n, tr, tid)
      PROVE  LastInv'
  <2>1. UNCHANGED tables
    BY <1>5 DEF Receive
  <2>2. \A f : (Accepted(f) <=> Accepted(f)') /\ Called(f) = Called(f)'
    BY <2>1 DEF Accepted, Called
  <2>3. FromPeer(n, tr, tid)'
    BY <1>5, <2>2, Zenon DEF Receive, FromPeer, FrameOf, Answers
  <2> QED BY <2>3 DEF LastInv
<1>6. ASSUME NEW f \in Stray, ReceiveStray(f) PROVE LastInv'
  BY <1>1, <1>6, StrayIsIgnored
<1>7. CASE UNCHANGED vars
  <2>1. UNCHANGED tables /\ last' = last
    BY <1>7 DEF vars
  <2>2. \A f : (Accepted(f) <=> Accepted(f)') /\ Called(f) = Called(f)'
    BY <2>1 DEF Accepted, Called
  <2>3. ASSUME NEW p \in Range(Publisher), NEW tid \in Tid, Published(p, tid)
        PROVE  Published(p, tid)'
    BY <2>1, <2>3 DEF Published, Message
  <2>4. ASSUME NEW n \in Peer, NEW tr \in Transfer, NEW tid \in Tid, FromPeer(n, tr, tid)
        PROVE  FromPeer(n, tr, tid)'
    BY <2>1, <2>2, <2>4, Zenon DEF FromPeer, Answers
  <2>5. last = Quiet => last' = Quiet
    BY <2>1
  <2> HIDE DEF tables
  <2> QED BY <2>3, <2>4, <2>5, Zenon DEF LastInv, Quiet
<1> QED BY <1>2, <1>3, <1>4, <1>5, <1>6, <1>7 DEF Next

DispatchInv == TablesInv /\ LastInv

LEMMA DispatchAlways == Spec => []DispatchInv
<1>1. Init => DispatchInv
  BY InitTables DEF Init, DispatchInv, LastInv
<1>2. DispatchInv /\ [Next]_vars => DispatchInv'
  BY NextTables, NextLast DEF DispatchInv
<1> QED BY <1>1, <1>2, PTL DEF Spec

-----------------------------------------------------------------------------
(* What these tables make of a transfer.                                   *)

LEMMA TransferTypes ==
    ASSUME NEW n \in Peer, NEW tr \in Transfer, NEW tid \in Tid
    PROVE  /\ tr \in Metadata /\ tr.kind \in Kind /\ tr.port \in PortId
           /\ (n \in NodeId \/ n = CANARD_NODE_ID_UNSET) /\ n # Me
           /\ tid \in Nat
<1>1. (n \in NodeId \/ n = CANARD_NODE_ID_UNSET) /\ n # Me
  BY DispatchAssumption
<1>2. tid \in Nat
  BY DispatchAssumption
<1>3. Port \cup Service \subseteq PortId
  BY DispatchAssumption, ServiceNumbers
<1>4. {Me, Other, CANARD_NODE_ID_UNSET} \subseteq NodeId \cup {CANARD_NODE_ID_UNSET}
  BY DispatchAssumption
<1>5. 7 \in 0 .. 7
  OBVIOUS
<1>6. tr \in Metadata
  BY <1>3, <1>4, <1>5 DEF Transfer, Metadata
<1>7. tr.kind \in Kind /\ tr.port \in PortId
  BY <1>6 DEF Metadata
<1> QED BY <1>1, <1>2, <1>6, <1>7

LEMMA FrameIsRead ==
    ASSUME NEW n \in Peer, NEW tr \in Transfer, NEW tid \in Tid, Sendable(tr, n), tr.remote # n
    PROVE  LET f == FrameOf(n, tr, tid)
           IN  /\ rxTryParseFrame(f)
               /\ KindOf(f.id) = tr.kind /\ PortOf(f.id) = tr.port
               /\ SourceOf(f.id) = n /\ DestinationOf(f.id) = tr.remote
<1> DEFINE f == FrameOf(n, tr, tid)
<1>1. /\ tr \in Metadata /\ (n \in NodeId \/ n = CANARD_NODE_ID_UNSET) /\ tid \in Nat
  BY TransferTypes
<1>2. /\ f.id = txMakeCANID(tr, n, tid) /\ f.size = 8
      /\ f.start = TRUE /\ f.end = TRUE /\ f.toggle = TRUE
  BY DEF FrameOf
<1>3. /\ Valid(f.id) /\ KindOf(f.id) = tr.kind /\ PortOf(f.id) = tr.port
      /\ SourceOf(f.id) = n /\ DestinationOf(f.id) = tr.remote
  BY <1>1, <1>2, ReadFromId, ZenonT(60)
<1> HIDE DEF f
<1>4. f.size > 0 /\ f.size - 1 >= 7 /\ f.size - 1 > 0
  BY <1>2
<1>5. rxTryParseFrame(f)
  BY <1>2, <1>3, <1>4, Zenon DEF rxTryParseFrame
<1> QED BY <1>3, <1>5, Zenon DEF f

(* A subscription of a kind and port is in one table if it is in the other.*)
LEMMA HeardIsWanted ==
    ASSUME TablesInv, NEW kind \in Kind, NEW port
    PROVE  port \in Heard(kind) <=> \E s \in Subscriber : Wants(s, kind, port)
<1>1. Range(sub_info) \subseteq Subscriber
  BY RangeOfSeq DEF TablesInv
<1>2. CASE kind = "message"
  <2>1. port \in Heard(kind) <=> \E s \in Range(sub_info) \ Service : port_id[s] = port
    BY <1>2 DEF TablesInv
  <2> QED BY <1>1, <1>2, <2>1, Zenon DEF Wants, isService
<1>3. CASE kind = "request"
  <2>1. \A s \in Service : s \in Subscriber /\ s \in Range(sub_info) /\ port_id[s] = s
    BY ServiceNumbers DEF TablesInv
  <2>2. \A s \in Service : <<s, s>>[1] = s
    OBVIOUS
  <2>3. rx_subscriptions[kind] = {<<s, s>> : s \in Service}
    BY <1>3 DEF TablesInv
  <2>4. Heard(kind) \subseteq Service
    BY <2>2, <2>3 DEF Heard
  <2>5. Service \subseteq Heard(kind)
    <3>1. ASSUME NEW s \in Service PROVE s \in Heard(kind)
      <4>1. <<s, s>> \in rx_subscriptions[kind]
        BY <2>3
      <4> QED BY <2>2, <4>1, Zenon DEF Heard
    <3> QED BY <3>1
  <2> QED BY <1>3, <2>1, <2>4, <2>5 DEF Wants, isService
<1>4. CASE kind = "response"
  <2>1. Heard(kind) = {}
    BY <1>4 DEF TablesInv, Heard
  <2> QED BY <1>4, <2>1 DEF Wants, isService
<1> QED BY <1>2, <1>3, <1>4 DEF Kind

LEMMA WhoIsCalled ==
    ASSUME TablesInv, NEW n \in Peer, NEW tr \in Transfer, NEW tid \in Tid,
           Sendable(tr, n), tr.remote # n
    PROVE  \A s : s \in Called(FrameOf(n, tr, tid)) <=>
              /\ tr.remote \in {CANARD_NODE_ID_UNSET, Me}
              /\ tr.port \in Heard(tr.kind)
              /\ s \in Range(sub_info) /\ port_id[s] = tr.port
<1> DEFINE f == FrameOf(n, tr, tid)
<1>1. /\ rxTryParseFrame(f) /\ KindOf(f.id) = tr.kind /\ PortOf(f.id) = tr.port
      /\ DestinationOf(f.id) = tr.remote
  BY FrameIsRead, Zenon
<1> HIDE DEF f
<1>2. Accepted(f) <=> tr.remote \in {CANARD_NODE_ID_UNSET, Me} /\ tr.port \in Heard(tr.kind)
  BY <1>1 DEF Accepted, Heard
<1> QED BY <1>1, <1>2 DEF Called, f

(* The response of a service to a request that was accepted.               *)
AnswerOf(s, f, tid) == [id |-> txMakeCANID(Response(s, f.id), Me, 0), tid |-> tid]

LEMMA AnswerOfService ==
    ASSUME TablesInv, NEW n \in Peer, NEW tr \in Transfer, NEW tid \in Tid,
           Sendable(tr, n), tr.remote # n, NEW s \in Service, NEW f, f = FrameOf(n, tr, tid),
           NEW id, id = AnswerOf(s, f, tid).id
    PROVE  /\ Pushed(Response(s, f.id), tid) = IF n \in NodeId THEN {AnswerOf(s, f, tid)} ELSE {}
           /\ n \in NodeId =>
                 /\ id \in Nat /\ Valid(id) /\ KindOf(id) = "response"
                 /\ DestinationOf(id) = n
                 /\ MetadataOf(id) = [priority |-> CanardPriorityNominal,
                                      kind |-> "response", port |-> s, remote |-> Me]
<1> DEFINE rsp == Response(s, f.id)
<1>1. SourceOf(f.id) = n
  BY FrameIsRead, Zenon
<1>2. rsp = [priority |-> CanardPriorityNominal, kind |-> "response", port |-> s, remote |-> n]
  BY <1>1, Zenon DEF Response
<1>3. /\ s \in PortId /\ s <= CANARD_SERVICE_ID_MAX
      /\ (n \in NodeId \/ n = CANARD_NODE_ID_UNSET) /\ n # Me /\ Me \in NodeId
  BY ServiceNumbers, TransferTypes, DispatchAssumption
<1>4. CANARD_NODE_ID_UNSET \notin NodeId
  BY SMT DEF CANARD_NODE_ID_UNSET, NodeId
<1>5. /\ rsp.kind = "response" /\ rsp.port = s /\ rsp.remote = n
      /\ rsp.kind # "message"
  BY <1>2
<1>6. rsp \in Metadata
  <2>1. 4 \in 0 .. 7
    OBVIOUS
  <2> QED BY <1>2, <1>3, <2>1 DEF Metadata, Kind, CanardPriorityNominal
<1>7. AnswerOf(s, f, tid) = [id |-> id, tid |-> tid] /\ id = txMakeCANID(rsp, Me, 0)
  BY DEF AnswerOf
<1> HIDE DEF rsp
<1>8. Sendable(rsp, Me) <=> n \in NodeId
  BY <1>3, <1>5, Zenon DEF Sendable
<1>9. Pushed(rsp, tid) = IF n \in NodeId THEN {AnswerOf(s, f, tid)} ELSE {}
  BY <1>7, <1>8, Zenon DEF Pushed
<1>10. ASSUME n \in NodeId
       PROVE  /\ id \in Nat /\ Valid(id) /\ KindOf(id) = "response" /\ DestinationOf(id) = n
              /\ MetadataOf(id) = [priority |-> CanardPriorityNominal,
                                   kind |-> "response", port |-> s, remote |-> Me]
  <2>1. Sendable(rsp, Me) /\ rsp.remote # Me /\ 0 \in Nat
    BY <1>3, <1>5, <1>8, <1>10
  <2>2. id \in Nat /\ Valid(id) /\ KindOf(id) = "response" /\ DestinationOf(id) = n
    BY <1>3, <1>5, <1>6, <1>7, <2>1, ReadFromId, ZenonT(60)
  <2>3. MetadataOf(txMakeCANID(rsp, Me, 0)) = [rsp EXCEPT !.remote = Me]
    BY <1>3, <1>5, <1>6, <2>1, ServiceRoundTrip, Zenon
  <2>4. [rsp EXCEPT !.remote = Me] = [priority |-> CanardPriorityNominal,
                                      kind |-> "response", port |-> s, remote |-> Me]
    BY <1>2
  <2> QED BY <1>7, <2>2, <2>3, <2>4, Zenon
<1> QED BY <1>9, <1>10 DEF rsp

(* The message of a publisher that is enabled.                             *)
LEMMA MessageOfPublisher ==
    ASSUME TablesInv, NEW p \in Range(Publisher), isEnabled(pub_port[p]),
           NEW id, id = txMakeCANID(Message(p), Me, 0)
    PROVE  id \in Nat /\ PortOf(id) = pub_port[p]
<1>1. pub_port[p] \in PortId /\ pub_port[p] <= CANARD_SUBJECT_ID_MAX /\ Me \in NodeId
  BY DispatchAssumption DEF TablesInv, isEnabled
<1>2. CANARD_NODE_ID_UNSET \notin NodeId
  BY SMT DEF CANARD_NODE_ID_UNSET, NodeId
<1>3. /\ Message(p).kind = "message" /\ Message(p).port = pub_port[p]
      /\ Message(p).remote = CANARD_NODE_ID_UNSET
  BY DEF Message
<1>4. Message(p) \in Metadata
  <2>1. 4 \in 0 .. 7
    OBVIOUS
  <2> QED BY <1>1, <2>1 DEF Message, Metadata, Kind, CanardPriorityNominal
<1>5. Sendable(Message(p), Me) /\ Message(p).remote # Me /\ 0 \in Nat
  BY <1>1, <1>2, <1>3 DEF Sendable
<1> QED BY <1>1, <1>3, <1>4, <1>5, ReadFromId, Zenon

(* One of two numbers is the smaller.                                      *)
LEMMA MinOfTwo ==
    ASSUME NEW a \in Int, NEW b \in Int
    PROVE  /\ Min({a, b}) \in {a, b} /\ Min({a, b}) <= a /\ Min({a, b}) <= b
<1>1. \E x \in {a, b} : \A y \in {a, b} : x <= y
  <2>1. CASE a <= b
    BY <2>1
  <2>2. CASE b <= a
    BY <2>2
  <2> QED BY <2>1, <2>2
<1>2. Min({a, b}) = CHOOSE x \in {a, b} : \A y \in {a, b} : x <= y
  BY DEF Min
<1>3. Min({a, b}) \in {a, b} /\ \A y \in {a, b} : Min({a, b}) <= y
  BY <1>1, <1>2, Zenon
<1> QED BY <1>3

(* A publisher that is not in the table was constructed after MAX_PUB_NUM  *)
(* others.                                                                 *)
LEMMA ListedOrLate ==
    ASSUME NEW p \in Range(Publisher)
    PROVE  p \in publishers \/ p \in {Publisher[i] : i \in MaxPubNum + 1 .. Len(Publisher)}
<1> DEFINE n == Len(Publisher)
<1>1. n \in Nat /\ DOMAIN Publisher = 1 .. n /\ MaxPubNum \in Nat
  BY DispatchAssumption
<1>2. PICK i \in 1 .. n : p = Publisher[i]
  BY <1>1 DEF Range
<1> HIDE DEF n
<1>3. Min({MaxPubNum, n}) \in {MaxPubNum, n}
  BY <1>1, MinOfTwo
<1>4. i \in 1 .. Min({MaxPubNum, n}) \/ i \in MaxPubNum + 1 .. n
  BY <1>1, <1>2, <1>3
<1> QED BY <1>2, <1>4 DEF publishers, n

-----------------------------------------------------------------------------
LEMMA NotFromPeer ==
    ASSUME LastInv, Received
    PROVE  \E n \in Peer, tr \in Transfer, tid \in Tid : FromPeer(n, tr, tid)
<1>1. last # Quiet
  BY DEF Received, Quiet
<1>2. ASSUME NEW p \in Range(Publisher), NEW tid \in Tid, Published(p, tid) PROVE FALSE
  BY <1>2 DEF Received, Published
<1> QED BY <1>1, <1>2 DEF LastInv

LEMMA PeerFields ==
    ASSUME NEW n, NEW tr, NEW tid, FromPeer(n, tr, tid)
    PROVE  /\ Received /\ last.from = n /\ last.tr = tr /\ last.tid = tid
           /\ last.called = Called(FrameOf(n, tr, tid))
           /\ last.out = Answers(FrameOf(n, tr, tid), tid)
BY DEF FromPeer, Received

(***************************************************************************)
(* Cyphal::processReceivedTransfer calls all of _sub_info whose port is    *)
(* the transfer's, while libcanard keeps one subscription for a port: a    *)
(* second subscriber of a subject takes nothing from the first.            *)
(***************************************************************************)
THEOREM AllSubscribersAreServed == Spec => []EveryoneIsServed
<1>1. ASSUME DispatchInv, ForMe, NEW s \in Subscriber, Wants(s, last.tr.kind, last.tr.port)
      PROVE  s \in last.called
  <2>1. PICK n \in Peer, tr \in Transfer, tid \in Tid : FromPeer(n, tr, tid)
    BY <1>1, NotFromPeer DEF DispatchInv, ForMe
  <2>2. last.tr = tr /\ last.called = Called(FrameOf(n, tr, tid))
    BY <2>1, PeerFields
  <2>3. Sendable(tr, n) /\ tr.remote # n /\ tr.kind \in Kind
    BY <2>1, TransferTypes DEF FromPeer
  <2>4. tr.port \in Heard(tr.kind)
    BY <1>1, <2>2, <2>3, HeardIsWanted DEF DispatchInv
  <2>5. s \in Range(sub_info) /\ port_id[s] = tr.port /\ tr.remote \in {CANARD_NODE_ID_UNSET, Me}
    BY <1>1, <2>2 DEF Wants, ForMe
  <2> QED BY <1>1, <2>2, <2>3, <2>4, <2>5, WhoIsCalled DEF DispatchInv
<1>2. DispatchInv => EveryoneIsServed
  BY <1>1 DEF EveryoneIsServed
<1> QED BY <1>2, DispatchAlways, PTL

(***************************************************************************)
(* No callback is called for a transfer between other nodes, for a frame   *)
(* of another protocol, or when nobody subscribed.                         *)
(***************************************************************************)
THEOREM OnlySubscribersAreCalled == Spec => []NobodyElseIsCalled
<1>1. ASSUME DispatchInv, NEW s0 \in last.called
      PROVE  /\ ForMe
             /\ \E s \in last.called : Wants(s, last.tr.kind, last.tr.port)
             /\ \A s \in last.called : port_id[s] = last.tr.port
  <2>1. last # Quiet
    BY <1>1 DEF Quiet
  <2>2. ASSUME NEW p \in Range(Publisher), NEW tid \in Tid, Published(p, tid) PROVE FALSE
    BY <1>1, <2>2 DEF Published
  <2>3. PICK n \in Peer, tr \in Transfer, tid \in Tid : FromPeer(n, tr, tid)
    BY <1>1, <2>1, <2>2 DEF DispatchInv, LastInv
  <2>4. Received /\ last.tr = tr /\ last.called = Called(FrameOf(n, tr, tid))
    BY <2>3, PeerFields
  <2>5. Sendable(tr, n) /\ tr.remote # n /\ tr.kind \in Kind /\ TablesInv
    BY <1>1, <2>3, TransferTypes DEF FromPeer, DispatchInv
  <2>6. \A s : s \in last.called <=>
              /\ tr.remote \in {CANARD_NODE_ID_UNSET, Me}
              /\ tr.port \in Heard(tr.kind)
              /\ s \in Range(sub_info) /\ port_id[s] = tr.port
    BY <2>4, <2>5, WhoIsCalled
  <2>7. PICK s \in Subscriber : Wants(s, tr.kind, tr.port)
    BY <1>1, <2>5, <2>6, HeardIsWanted
  <2>8. s \in last.called
    BY <1>1, <2>6, <2>7 DEF Wants
  <2> QED BY <1>1, <2>4, <2>6, <2>7, <2>8, Zenon DEF ForMe
<1>2. DispatchInv => NobodyElseIsCalled
  BY <1>1 DEF NobodyElseIsCalled
<1> QED BY <1>2, DispatchAlways, PTL

(***************************************************************************)
(* A peer that has a node-ID and asks one of the four services gets one    *)
(* response, whose CAN ID says to it whom it is for and what it answers.   *)
(***************************************************************************)
THEOREM RequestsAreAnswered == Spec => []ClientGetsItsAnswer
<1> DEFINE Answered(a) ==
        /\ last.out = {a} /\ a.tid = last.tid
        /\ Valid(a.id)
        /\ DestinationOf(a.id) = last.from
        /\ MetadataOf(a.id) = [priority |-> CanardPriorityNominal, kind |-> "response",
                               port |-> last.tr.port, remote |-> Me]
<1>1. ASSUME DispatchInv, ForMe, last.tr.kind = "request", last.tr.port \in Service
      PROVE  \E a \in last.out : Answered(a)
  <2>1. PICK n \in Peer, tr \in Transfer, tid \in Tid : FromPeer(n, tr, tid)
    BY <1>1, NotFromPeer DEF DispatchInv, ForMe
  <2> DEFINE f == FrameOf(n, tr, tid)
             s == tr.port
             a == AnswerOf(s, f, tid)
  <2>2. last.from = n /\ last.tr = tr /\ last.tid = tid /\ last.out = Answers(f, tid)
    BY <2>1, PeerFields
  <2>3. /\ Sendable(tr, n) /\ tr.remote # n /\ tr.kind = "request" /\ tr.port \in Service
        /\ tr.remote \in {CANARD_NODE_ID_UNSET, Me} /\ TablesInv
    BY <1>1, <2>1, <2>2 DEF FromPeer, DispatchInv, ForMe
  <2>4. n \in NodeId
    BY <2>3 DEF Sendable
  <2>5. \A v \in Service : v \in Range(sub_info) /\ port_id[v] = v /\ v \in Subscriber
    BY <2>3, ServiceNumbers DEF TablesInv
  <2>6. tr.port \in Heard(tr.kind)
    <3>1. Wants(tr.port, tr.kind, tr.port)
      BY <2>3, <2>5 DEF Wants, isService
    <3>2. tr.kind \in Kind
      BY <2>3 DEF Kind
    <3> QED BY <2>3, <2>5, <3>1, <3>2, HeardIsWanted
  <2>7. Called(f) \cap Service = {tr.port}
    BY <2>3, <2>5, <2>6, WhoIsCalled
  <2>8. Answers(f, tid) = Pushed(Response(s, f.id), tid)
    BY <2>7, Zenon DEF Answers
  <2>9. s = tr.port /\ s \in Service
    BY <2>3
  <2> HIDE DEF s
  <2> HIDE DEF a, f
  <2>10. f = FrameOf(n, tr, tid) /\ a = AnswerOf(s, f, tid)
    BY DEF f, a
  <2>11. /\ Pushed(Response(s, f.id), tid) = IF n \in NodeId THEN {AnswerOf(s, f, tid)} ELSE {}
         /\ n \in NodeId => /\ Valid(a.id) /\ DestinationOf(a.id) = n
                            /\ MetadataOf(a.id) = [priority |-> CanardPriorityNominal,
                                   kind |-> "response", port |-> s, remote |-> Me]
    BY <2>3, <2>9, <2>10, AnswerOfService
  <2>12. a.tid = tid
    BY <2>10 DEF AnswerOf
  <2>13. last.out = {a} /\ a \in last.out
    BY <2>2, <2>4, <2>8, <2>10, <2>11
  <2> QED BY <2>2, <2>4, <2>9, <2>11, <2>12, <2>13, Zenon
<1>2. DispatchInv => ClientGetsItsAnswer
  BY <1>1, Zenon DEF ClientGetsItsAnswer
<1> QED BY <1>2, DispatchAlways, PTL

(***************************************************************************)
(* uavcan_node_port_List_1_0_create computes from _sub_info exactly what   *)
(* libcanard lets in, and names the subject of everything that is sent,    *)
(* publishers beyond MAX_PUB_NUM excepted.                                 *)
(***************************************************************************)
THEOREM PortsAreListed == Spec => []PortListIsTrue
<1> DEFINE Unlisted == {pub_port[p] : p \in {Publisher[i] : i \in MaxPubNum + 1 .. Len(Publisher)}}
<1>1. ASSUME DispatchInv
      PROVE  ListedSubscribers = {p \in Heard("message") : p <= CANARD_SUBJECT_ID_MAX}
  <2>1. Heard("message") = {port_id[s] : s \in Range(sub_info) \ Service} /\ 0 \notin Heard("message")
    BY <1>1 DEF DispatchInv, TablesInv
  <2> QED BY <2>1 DEF ListedSubscribers, isEnabled, isService
<1>2. ASSUME DispatchInv PROVE ListedServers = Heard("request")
  <2>1. ListedServers = Service
    BY DEF ListedServers, Service
  <2>2. \A s \in Service : Wants(s, "request", s) /\ s \in Subscriber
    BY <1>2, ServiceNumbers DEF DispatchInv, TablesInv, Wants, isService
  <2>3. \A s, port : Wants(s, "request", port) => port \in Service
    BY <1>2 DEF DispatchInv, TablesInv, Wants, isService
  <2>4. \A port : port \in Heard("request") <=> port \in Service
    BY <1>2, <2>2, <2>3, HeardIsWanted DEF DispatchInv, Kind
  <2> QED BY <2>1, <2>4
<1>3. ASSUME DispatchInv, NEW a \in last.out, KindOf(a.id) = "message"
      PROVE  PortOf(a.id) \in ListedPublishers \cup Unlisted
  <2>1. last # Quiet
    BY <1>3 DEF Quiet
  <2>2. ASSUME NEW n \in Peer, NEW tr \in Transfer, NEW tid \in Tid, FromPeer(n, tr, tid)
        PROVE  FALSE
    <3> DEFINE f == FrameOf(n, tr, tid)
    <3>1. a \in Answers(f, tid)
      BY <1>3, <2>2, PeerFields
    <3>2. PICK s \in Service : a \in Pushed(Response(s, f.id), tid)
      BY <3>1 DEF Answers
    <3>3. Sendable(tr, n) /\ tr.remote # n /\ TablesInv
      BY <1>3, <2>2 DEF FromPeer, DispatchInv
    <3>4. Pushed(Response(s, f.id), tid) = IF n \in NodeId THEN {AnswerOf(s, f, tid)} ELSE {}
      BY <3>3, AnswerOfService, Zenon
    <3>5. n \in NodeId /\ a = AnswerOf(s, f, tid)
      BY <3>2, <3>4, Zenon
    <3>6. KindOf(a.id) = "response"
      BY <3>3, <3>5, AnswerOfService, Zenon
    <3> QED BY <1>3, <3>6
  <2>3. PICK p \in Range(Publisher), tid \in Tid : Published(p, tid)
    BY <1>3, <2>1, <2>2 DEF DispatchInv, LastInv
  <2>4. isEnabled(pub_port[p]) /\ a \in Pushed(Message(p), tid)
    BY <1>3, <2>3 DEF Published
  <2>5. a.id = txMakeCANID(Message(p), Me, 0)
    BY <2>4 DEF Pushed
  <2>6. PortOf(a.id) = pub_port[p]
    BY <1>3, <2>4, <2>5, MessageOfPublisher, Zenon DEF DispatchInv
  <2>7. p \in publishers \/ p \in {Publisher[i] : i \in MaxPubNum + 1 .. Len(Publisher)}
    BY ListedOrLate
  <2> QED BY <2>4, <2>6, <2>7, Zenon DEF ListedPublishers
<1>4. DispatchInv => PortListIsTrue
  BY <1>1, <1>2, <1>3, Zenon DEF PortListIsTrue, Heard
<1> QED BY <1>4, DispatchAlways, PTL

(***************************************************************************)
(* The tables and the record of the last step keep their types: what is    *)
(* sent is an identifier of the library and a transfer-ID, and those who   *)
(* are called are subscribers.                                             *)
(***************************************************************************)
THEOREM DispatchTypeOK == Spec => []TypeOK
<1>1. ASSUME DispatchInv PROVE last \in Handled \cup [called : SUBSET Subscriber, out : SUBSET Outgoing]
  <2>1. CASE last = Quiet
    BY <2>1 DEF Quiet
  <2>2. ASSUME NEW p \in Range(Publisher), NEW tid \in Tid, Published(p, tid)
        PROVE  last \in [called : SUBSET Subscriber, out : SUBSET Outgoing]
    <3>1. last.out \subseteq Outgoing
      <4>1. ASSUME NEW a \in last.out PROVE a \in Outgoing
        <5>1. isEnabled(pub_port[p]) /\ a \in Pushed(Message(p), tid)
          BY <2>2, <4>1 DEF Published
        <5>2. a = [id |-> txMakeCANID(Message(p), Me, 0), tid |-> tid]
          BY <5>1 DEF Pushed
        <5>3. txMakeCANID(Message(p), Me, 0) \in Nat
          BY <1>1, <5>1, MessageOfPublisher, Zenon DEF DispatchInv
        <5> QED BY <5>2, <5>3 DEF Outgoing
      <4> QED BY <4>1
    <3>2. last = [called |-> {}, out |-> last.out]
      BY <2>2 DEF Published
    <3> QED BY <3>1, <3>2
  <2>3. ASSUME NEW n \in Peer, NEW tr \in Transfer, NEW tid \in Tid, FromPeer(n, tr, tid)
        PROVE  last \in Handled
    <3> DEFINE f == FrameOf(n, tr, tid)
    <3>1. Answers(f, tid) \subseteq Outgoing
      <4>1. ASSUME NEW s \in Service PROVE Pushed(Response(s, f.id), tid) \subseteq Outgoing
        <5>1. Sendable(tr, n) /\ tr.remote # n /\ TablesInv
          BY <1>1, <2>3 DEF FromPeer, DispatchInv
        <5>2. Pushed(Response(s, f.id), tid) = IF n \in NodeId THEN {AnswerOf(s, f, tid)} ELSE {}
          BY <5>1, AnswerOfService, Zenon
        <5>3. n \in NodeId => AnswerOf(s, f, tid).id \in Nat
          BY <5>1, AnswerOfService, Zenon
        <5>4. n \in NodeId => AnswerOf(s, f, tid) \in Outgoing
          BY <5>3 DEF AnswerOf, Outgoing
        <5> QED BY <5>2, <5>4
      <4> QED BY <4>1, Zenon DEF Answers
    <3>2. Called(f) \subseteq Subscriber
      <4>1. Range(sub_info) \subseteq Subscriber
        BY <1>1, RangeOfSeq DEF DispatchInv, TablesInv
      <4> QED BY <4>1 DEF Called
    <3>3. tr \in Metadata
      BY TransferTypes
    <3> HIDE DEF f
    <3>4. last = [from |-> n, tr |-> tr, tid |-> tid, called |-> Called(f), out |-> Answers(f, tid)]
      BY <2>3 DEF FromPeer, f
    <3> QED BY <3>1, <3>2, <3>3, <3>4 DEF Handled
  <2> QED BY <1>1, <2>1, <2>2, <2>3 DEF DispatchInv, LastInv
<1>2. DispatchInv => TypeOK
  BY <1>1, Zenon DEF TypeOK, DispatchInv, TablesInv
<1> QED BY <1>2, DispatchAlways, PTL
=============================================================================
