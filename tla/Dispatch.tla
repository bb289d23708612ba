------------------------------ MODULE Dispatch ------------------------------
(***************************************************************************)
(* Subscriptions, and the way of a transfer from its CAN ID to callbacks.  *)
(* A subscriber stands in two tables that are kept apart: _sub_info of the *)
(* node, which decides whose callback is called, and rx_subscriptions of   *)
(* libcanard, one tree for each transfer kind with at most one entry for a *)
(* port, which decides what is received.  The port list that the node      *)
(* publishes is computed from the first.                                   *)
(*                                                                         *)
(* Transfers have one frame and a fresh transfer-ID, so that the sessions, *)
(* which RxSession models, take them.  Behaviours begin when Cyphal::init  *)
(* has returned.                                                           *)
(***************************************************************************)
EXTENDS CanId, Sequences, FiniteSets, SequencesExt

CONSTANTS App,          \* the application's subscribers, all of messages
          Publisher,    \* all publishers, as a sequence: the order of construction
          MaxPubNum,    \* MAX_PUB_NUM
          MaxSubNum,    \* MAX_SUB_NUM
          Me,           \* the node-ID
          Peer,         \* node-IDs of the others, and perhaps the unset one
          Other,        \* a node-ID that is not ours
          Port,         \* values of the parameters that hold port-IDs
          Tid,          \* transfer-IDs
          Stray         \* frames on the bus that are not Cyphal's

(* GetInfo, List, Access and ExecuteCommand, in the order of subscription. *)
ServiceOrder == <<430, 385, 384, 435>>
Service == {430, 385, 384, 435}
Subscriber == Service \cup App

ASSUME DispatchAssumption ==
    /\ Me \in NodeId /\ Peer \subseteq (NodeId \cup {CANARD_NODE_ID_UNSET}) \ {Me}
    /\ Other \in NodeId \ {Me}
    /\ Port \subseteq PortId
    /\ MaxSubNum \in Nat /\ MaxSubNum >= 4
    /\ App \cap Service = {} /\ Tid \subseteq 0 .. 31
    /\ Publisher \in Seq(Range(Publisher)) /\ IsInjective(Publisher) /\ MaxPubNum \in Nat
    /\ \A f \in Stray : (f.start /\ ~f.toggle) \/ Has(f.id, Reserved23)

isService(s) == s \in Service

(* CyphalPublisher::publishers: the constructors enter the publisher while *)
(* there is room, and say nothing when there is none.                      *)
publishers == {Publisher[i] : i \in 1 .. Min({MaxPubNum, Len(Publisher)})}

VARIABLES
    port_id,            \* of each subscriber
    sub_info,           \* _sub_info and its length _sub_num
    rx_subscriptions,   \* [kind -> set of <<port, subscriber>>]
    pub_port,           \* transfer_metadata.port_id of each publisher
    last                \* history: the last transfer, who was called, what was sent

vars == <<port_id, sub_info, rx_subscriptions, pub_port, last>>

Outgoing == [id : Nat, tid : Tid]

(* from is the sender of the transfer tr.                                  *)
Handled == [from : Peer, tr : Metadata, tid : Tid, called : SUBSET Subscriber,
            out : SUBSET Outgoing]

Quiet == [called |-> {}, out |-> {}]

TypeOK ==
    /\ port_id \in [Subscriber -> PortId]
    /\ sub_info \in Seq(Subscriber) /\ Len(sub_info) <= MaxSubNum
    /\ rx_subscriptions \in [Kind -> SUBSET (PortId \X Subscriber)]
    /\ pub_port \in [Range(Publisher) -> PortId]
    /\ last \in Handled \cup [called : SUBSET Subscriber, out : SUBSET Outgoing]

Init ==
    /\ port_id = [s \in Subscriber |-> IF isService(s) THEN s ELSE 0]
    /\ sub_info = ServiceOrder
    /\ rx_subscriptions = [k \in Kind |-> IF k = "request" THEN {<<s, s>> : s \in Service} ELSE {}]
    /\ pub_port = [p \in Range(Publisher) |-> 65535]
    /\ last = Quiet

-----------------------------------------------------------------------------
(* Subscribing                                                             *)

(* Mutant: what was removed is not replaced.                               *)
canardRxSubscribeRemoving(kind, port, s) ==
    LET old == {e \in rx_subscriptions[kind] : e[1] = port}
    IN  rx_subscriptions' = [rx_subscriptions EXCEPT ![kind] =
            IF old = {} THEN @ \cup {<<port, s>>} ELSE @ \ old]

(* A subscription of the same kind and port is removed first.              *)
canardRxSubscribe(kind, port, s) ==
    rx_subscriptions' = [rx_subscriptions EXCEPT ![kind] =
        {e \in @ : e[1] # port} \cup {<<port, s>>}]

(* Mutant: the table may be full.                                          *)
subscribeUnchecked(s, port) ==
    IF port = 0
      THEN UNCHANGED <<sub_info, rx_subscriptions>>
      ELSE /\ sub_info' = Append(sub_info, s)
           /\ canardRxSubscribe("message", port, s)

subscribe(s, port) ==
    IF Len(sub_info) >= MaxSubNum \/ port = 0
      THEN UNCHANGED <<sub_info, rx_subscriptions>>
      ELSE /\ sub_info' = Append(sub_info, s)
           /\ canardRxSubscribe("message", port, s)

(* SetpointSubscriber::init and its like; after a failure it may be called *)
(* again.                                                                  *)
InitSubscriber(s) ==
    /\ s \notin Range(sub_info)
    /\ \E port \in Port :
          /\ port_id' = [port_id EXCEPT ![s] = port]
          /\ subscribe(s, port)
    /\ last' = Quiet
    /\ UNCHANGED pub_port

-----------------------------------------------------------------------------
(* Publishing                                                              *)

CanardPriorityNominal == 4

isEnabled(port) == port # 0 /\ port <= CANARD_SUBJECT_ID_MAX

SetPortId(p) ==
    /\ \E port \in Port : pub_port' = [pub_port EXCEPT ![p] = port]
    /\ last' = Quiet
    /\ UNCHANGED <<port_id, sub_info, rx_subscriptions>>

(* What canardTxPush makes of the metadata, if it accepts them.            *)
Pushed(tr, tid) ==
    IF Sendable(tr, Me) THEN {[id |-> txMakeCANID(tr, Me, 0), tid |-> tid]} ELSE {}

(* CyphalPublisher::push; the transfer-ID is TxQueue's.                    *)
Publish(p, tid) ==
    /\ last' = [Quiet EXCEPT !.out =
            IF ~isEnabled(pub_port[p]) THEN {}
            ELSE Pushed([priority |-> CanardPriorityNominal, kind |-> "message",
                         port |-> pub_port[p], remote |-> CANARD_NODE_ID_UNSET], tid)]
    /\ UNCHANGED <<port_id, sub_info, rx_subscriptions, pub_port>>

-----------------------------------------------------------------------------
(* Receiving                                                               *)

(* Mutant: whoever it is addressed to.                                     *)
AcceptedOfAny(f) ==
    /\ rxTryParseFrame(f)
    /\ \E e \in rx_subscriptions[KindOf(f.id)] : e[1] = PortOf(f.id)

(* canardRxAccept returns 1.                                               *)
Accepted(f) ==
    /\ rxTryParseFrame(f)
    /\ DestinationOf(f.id) \in {CANARD_NODE_ID_UNSET, Me}
    /\ \E e \in rx_subscriptions[KindOf(f.id)] : e[1] = PortOf(f.id)

(* Mutant: the subscriber whose subscription has received the transfer.    *)
CalledOwner(f) ==
    IF ~Accepted(f) THEN {}
    ELSE {s \in Range(sub_info) : <<PortOf(f.id), s>> \in rx_subscriptions[KindOf(f.id)]}

(* processReceivedTransfer compares the port alone.                        *)
Called(f) ==
    IF ~Accepted(f) THEN {} ELSE {s \in Range(sub_info) : port_id[s] = PortOf(f.id)}

(* Mutant: the response is labelled as a request.                          *)
ResponseAsked(s, id) ==
    [priority |-> CanardPriorityNominal, kind |-> "request",
     port |-> s, remote |-> SourceOf(id)]

(* The four services answer the node the transfer came from.               *)
Response(s, id) ==
    [priority |-> CanardPriorityNominal, kind |-> "response",
     port |-> s, remote |-> SourceOf(id)]

(* A peer sends a transfer.                                                *)
Receive(n, tr, tid) ==
    LET f == [id |-> txMakeCANID(tr, n, tid), size |-> 8,
              start |-> TRUE, end |-> TRUE, toggle |-> TRUE]
    IN  /\ Sendable(tr, n) /\ tr.remote # n
        /\ last' = [from |-> n, tr |-> tr, tid |-> tid, called |-> Called(f),
                    out |-> UNION {Pushed(Response(s, f.id), tid) : s \in Called(f) \cap Service}]
        /\ UNCHANGED <<port_id, sub_info, rx_subscriptions, pub_port>>

(* A frame that is not of this protocol.                                   *)
ReceiveStray(f) ==
    /\ last' = [called |-> Called(f),
                out |-> UNION {Pushed(Response(s, f.id), t) : s \in Called(f) \cap Service,
                                                            t \in Tid}]
    /\ UNCHANGED <<port_id, sub_info, rx_subscriptions, pub_port>>

Transfer ==
    [priority : {7}, kind : Kind, port : Port \cup Service,
     remote : {Me, Other, CANARD_NODE_ID_UNSET}]

Next ==
    \/ \E s \in App : InitSubscriber(s)
    \/ \E p \in Range(Publisher) : SetPortId(p) \/ \E tid \in Tid : Publish(p, tid)
    \/ \E n \in Peer, tr \in Transfer, tid \in Tid : Receive(n, tr, tid)
    \/ \E f \in Stray : ReceiveStray(f)

Spec == Init /\ [][Next]_vars

-----------------------------------------------------------------------------
(* uavcan_node_port_List_1_0_create                                        *)

ListedPublishers == {pub_port[p] : p \in {q \in publishers : isEnabled(pub_port[q])}}

ListedSubscribers ==
    {port_id[s] : s \in {t \in Range(sub_info) : isEnabled(port_id[t]) /\ ~isService(t)}}

ListedServers == {384, 385, 430, 435}

-----------------------------------------------------------------------------
(* last holds a transfer from a peer.                                      *)
Received == "from" \in DOMAIN last

ForMe == Received /\ last.tr.remote \in {CANARD_NODE_ID_UNSET, Me}

(* The subscriber has asked for transfers of this kind and port.           *)
Wants(s, kind, port) ==
    /\ s \in Range(sub_info)
    /\ port_id[s] = port
    /\ kind = IF isService(s) THEN "request" ELSE "message"

(***************************************************************************)
(* A transfer that another node sends reaches everybody here who asked for *)
(* its kind and port, also when somebody else has asked for the same port  *)
(* later, whose subscription replaced the first one in the library.        *)
(***************************************************************************)
EveryoneIsServed ==
    ForMe => \A s \in Subscriber : Wants(s, last.tr.kind, last.tr.port) => s \in last.called

(***************************************************************************)
(* Nobody is called for a transfer between other nodes, for a frame that   *)
(* is not Cyphal's, for a port of another number, or when no one here has  *)
(* asked for the kind and port.  (A subject and a service of one number    *)
(* are not told apart once one of the two kinds has been received.)        *)
(***************************************************************************)
NobodyElseIsCalled ==
    last.called # {} =>
        /\ ForMe
        /\ \E s \in last.called : Wants(s, last.tr.kind, last.tr.port)
        /\ \A s \in last.called : port_id[s] = last.tr.port

(***************************************************************************)
(* A request gets one response, which the client, parsing its CAN ID, can  *)
(* tell to be for it, from this node, of this service and this request.    *)
(***************************************************************************)
ClientGetsItsAnswer ==
    ForMe /\ last.tr.kind = "request" /\ last.tr.port \in Service =>
        \E a \in last.out :
            /\ last.out = {a} /\ a.tid = last.tid
            /\ Valid(a.id)
            /\ DestinationOf(a.id) = last.from
            /\ MetadataOf(a.id) = [priority |-> CanardPriorityNominal, kind |-> "response",
                                   port |-> last.tr.port, remote |-> Me]

(***************************************************************************)
(* The port list tells the network what it can rely on: the subjects and   *)
(* services that are listed are those that the library lets in, and what   *)
(* the node publishes is listed, unless it comes from a publisher that was *)
(* constructed when the table of publishers was full.                      *)
(***************************************************************************)
PortListIsTrue ==
    LET Heard(kind) == {e[1] : e \in rx_subscriptions[kind]}
        Unlisted == {pub_port[p] : p \in {Publisher[i] : i \in MaxPubNum + 1 .. Len(Publisher)}}
    IN  /\ ListedSubscribers = {p \in Heard("message") : p <= CANARD_SUBJECT_ID_MAX}
        /\ ListedServers = Heard("request")
        /\ \A a \in last.out :
              KindOf(a.id) = "message" => PortOf(a.id) \in ListedPublishers \cup Unlisted
=============================================================================
