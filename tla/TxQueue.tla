------------------------------ MODULE TxQueue ------------------------------
(***************************************************************************)
(* The transmit side of the node: Cyphal::push turns a transfer into CAN   *)
(* frames with canardTxPush, and Cyphal::spinTransmit offers the frames to *)
(* the transport, highest priority first.  The frames live in the heap     *)
(* that the receive side shares.                                           *)
(*                                                                         *)
(* A port stands for one CAN ID and is its numerical value, so a smaller   *)
(* port has priority.  The AVL tree of the library, ordered by CAN ID and  *)
(* by age within one CAN ID, is a sequence of frames for every port.  A TX *)
(* item takes one heap fragment (all items of classic-CAN frames round up  *)
(* to one power of two).  The transport's answer to a frame is arbitrary   *)
(* here; BxcanTx gives it a cause.                                         *)
(***************************************************************************)
EXTENDS Integers, Sequences, FiniteSets

CONSTANTS Subject,       \* message ports the node publishes on
          Response,      \* service ports the node answers on
          FramesOf,      \* frames of a transfer on each port
          Capacity,      \* TX_QUEUE_FRAME_SIZE
          HeapBlocks,    \* heap fragments of the size of a TX item
          CounterModulo, \* metadata->transfer_id is a uint8_t: 256
          TidModulo,     \* the tail byte holds five bits of it: 32
          MaxPushes      \* bound on the calls of push

Port == Subject \cup Response

ASSUME TxQueueAssumption ==
    /\ Port \subseteq Nat /\ Subject \cap Response = {}
    /\ FramesOf \in [Port -> Nat \ {0}]
    /\ Capacity \in Nat /\ HeapBlocks \in Nat /\ MaxPushes \in Nat
    /\ CounterModulo \in Nat \ {0} /\ TidModulo \in Nat \ {0}
    /\ CounterModulo % TidModulo = 0

VARIABLES
    txQueue,      \* for each port, its frames in CanardTxQueue, oldest first
    queueSize,    \* que->size, counted apart from the tree
    heapFree,     \* free heap fragments
    rxHeld,       \* fragments held by reception (sessions and payloads)
    transfer_id,  \* CyphalPublisher::transfer_metadata.transfer_id
    spinning,     \* inside the loop of spinTransmit
    pushed,       \* history: calls of push on each port
    sent          \* history: for each port, the frames the transport took

vars == <<txQueue, queueSize, heapFree, rxHeld, transfer_id, spinning, pushed, sent>>

(* Frame number idx of the nth transfer pushed on a port.                  *)
Frame == [port : Port, tid : 0 .. TidModulo - 1, nth : 1 .. MaxPushes, idx : Nat]

TypeOK ==
    /\ txQueue \in [Port -> Seq(Frame)]
    /\ queueSize \in 0 .. Capacity
    /\ heapFree \in 0 .. HeapBlocks
    /\ rxHeld \in 0 .. HeapBlocks
    /\ transfer_id \in [Port -> 0 .. CounterModulo - 1]
    /\ spinning \in BOOLEAN
    /\ pushed \in [Port -> 0 .. MaxPushes]
    /\ sent \in [Port -> Seq(Frame)]

Init ==
    /\ txQueue = [p \in Port |-> <<>>] /\ queueSize = 0
    /\ heapFree = HeapBlocks /\ rxHeld = 0
    /\ transfer_id = [p \in Port |-> 0]
    /\ spinning = FALSE
    /\ pushed = [p \in Port |-> 0]
    /\ sent = [p \in Port |-> <<>>]

-----------------------------------------------------------------------------
(* canardTxPush                                                            *)

(* Mutant: room for one frame is taken for room for the transfer.          *)
FitsQueueLoosely(p) == queueSize < Capacity

(* The early bail of a transfer that the queue has no room for.            *)
FitsQueue(p) == queueSize + FramesOf[p] <= Capacity

Least(a, b) == IF a < b THEN a ELSE b

(* Frames that are allocated before the transfer or the heap is exhausted. *)
ChainLength(p) == IF FitsQueue(p) THEN Least(FramesOf[p], heapFree) ELSE 0

Complete(p) == ChainLength(p) = FramesOf[p]

(* Mutant: the chain is freed from its second frame on.                    *)
ReleasedButFirst(p) ==
    IF Complete(p) \/ ChainLength(p) = 0 THEN 0 ELSE ChainLength(p) - 1

(* An incomplete chain is freed, every frame of it.                        *)
Released(p) == IF Complete(p) THEN 0 ELSE ChainLength(p)

(* The tail byte takes the low five bits of the transfer-ID.               *)
Chain(p, tid) ==
    [i \in 1 .. FramesOf[p] |->
        [port |-> p, tid |-> tid % TidModulo, nth |-> pushed[p] + 1, idx |-> i]]

(* Mutant: the frames that were allocated are queued.                      *)
canardTxPushPartly(p, tid) ==
    /\ heapFree' = heapFree - ChainLength(p)
    /\ txQueue' = [txQueue EXCEPT ![p] = @ \o SubSeq(Chain(p, tid), 1, ChainLength(p))]
    /\ queueSize' = queueSize + ChainLength(p)

canardTxPush(p, tid) ==
    /\ heapFree' = heapFree - ChainLength(p) + Released(p)
    /\ IF Complete(p)
         THEN /\ txQueue' = [txQueue EXCEPT ![p] = @ \o Chain(p, tid)]
              /\ queueSize' = queueSize + FramesOf[p]
         ELSE UNCHANGED <<txQueue, queueSize>>

(* The first frame in the order of the tree.                               *)
canardTxPeek(p) == txQueue[p] # <<>> /\ \A q \in Port : q < p => txQueue[q] = <<>>

-----------------------------------------------------------------------------
(* Cyphal.  Every call is made from the main loop, so none overlaps the    *)
(* loop of spinTransmit.                                                   *)

(* Mutant: a transfer that was not queued does not count.                  *)
pushCountingQueued(p, tid) ==
    /\ canardTxPush(p, tid)
    /\ transfer_id' = [transfer_id EXCEPT ![p] =
                          IF Complete(p) THEN (tid + 1) % CounterModulo ELSE tid]

(* push: the transfer-ID moves on whether or not the transfer was queued.  *)
push(p, tid) ==
    /\ canardTxPush(p, tid)
    /\ transfer_id' = [transfer_id EXCEPT ![p] = (tid + 1) % CounterModulo]

Called(p) ==
    /\ ~spinning
    /\ pushed[p] < MaxPushes
    /\ pushed' = [pushed EXCEPT ![p] = @ + 1]
    /\ UNCHANGED <<rxHeld, spinning, sent>>

(* CyphalPublisher::push uses the counter of its own metadata.             *)
Publish(p) == Called(p) /\ push(p, transfer_id[p])

(* A service callback answers with the transfer-ID of the request.         *)
Respond(p, tid) == Called(p) /\ push(p, tid)

(* Reception allocates sessions and payloads, and frees payloads.          *)
RxAllocate ==
    /\ ~spinning /\ heapFree > 0
    /\ heapFree' = heapFree - 1 /\ rxHeld' = rxHeld + 1
    /\ UNCHANGED <<txQueue, queueSize, transfer_id, spinning, pushed, sent>>

RxFree ==
    /\ ~spinning /\ rxHeld > 0
    /\ heapFree' = heapFree + 1 /\ rxHeld' = rxHeld - 1
    /\ UNCHANGED <<txQueue, queueSize, transfer_id, spinning, pushed, sent>>

SpinTransmit ==
    /\ ~spinning /\ spinning' = TRUE
    /\ UNCHANGED <<txQueue, queueSize, heapFree, rxHeld, transfer_id, pushed, sent>>

(* Mutant: que->size is not counted down.                                  *)
TransmitAcceptedUncounted(p) ==
    /\ spinning /\ canardTxPeek(p)
    /\ sent' = [sent EXCEPT ![p] = Append(@, Head(txQueue[p]))]
    /\ txQueue' = [txQueue EXCEPT ![p] = Tail(@)]
    /\ heapFree' = heapFree + 1
    /\ UNCHANGED <<queueSize, rxHeld, transfer_id, spinning, pushed>>

(* The transport takes the first frame, which is popped and freed.         *)
TransmitAccepted(p) ==
    /\ spinning /\ canardTxPeek(p)
    /\ sent' = [sent EXCEPT ![p] = Append(@, Head(txQueue[p]))]
    /\ txQueue' = [txQueue EXCEPT ![p] = Tail(@)]
    /\ queueSize' = queueSize - 1
    /\ heapFree' = heapFree + 1
    /\ UNCHANGED <<rxHeld, transfer_id, spinning, pushed>>

(* The transport refuses it, and the loop breaks with the queue as it was. *)
TransmitRejected(p) ==
    /\ spinning /\ canardTxPeek(p)
    /\ spinning' = FALSE
    /\ UNCHANGED <<txQueue, queueSize, heapFree, rxHeld, transfer_id, pushed, sent>>

QueueEmpty ==
    /\ spinning /\ \A p \in Port : txQueue[p] = <<>>
    /\ spinning' = FALSE
    /\ UNCHANGED <<txQueue, queueSize, heapFree, rxHeld, transfer_id, pushed, sent>>

Next ==
    \/ \E p \in Subject : Publish(p)
    \/ \E p \in Response, tid \in 0 .. TidModulo - 1 : Respond(p, tid)
    \/ RxAllocate \/ RxFree
    \/ SpinTransmit \/ QueueEmpty
    \/ \E p \in Port : TransmitAccepted(p) \/ TransmitRejected(p)

Spec == Init /\ [][Next]_vars

-----------------------------------------------------------------------------
(* The frames of a port that have left or will leave, in that order.       *)
Outgoing(p) == sent[p] \o txQueue[p]

(* The places of the frames that wait.                                     *)
Queued == UNION {{p} \X (1 .. Len(txQueue[p])) : p \in Port}

(***************************************************************************)
(* que->size counts the items of the tree: it decides whether a transfer   *)
(* fits and is updated apart from the tree, once per transfer on the way   *)
(* in and once per frame on the way out.                                   *)
(***************************************************************************)
SizeCountsFrames == IsFiniteSet(Queued) /\ queueSize = Cardinality(Queued)

(***************************************************************************)
(* No fragment of the heap is lost or counted twice, whatever combination  *)
(* of a full queue, a full heap and a half-allocated transfer a push meets.*)
(***************************************************************************)
HeapIsConserved == heapFree + rxHeld + queueSize = HeapBlocks

(***************************************************************************)
(* A receiver of one port sees whole transfers, in the order they were     *)
(* pushed: the frames that leave are cut into groups of FramesOf frames,   *)
(* numbered 1, 2, ... within the group, each group from one later push.    *)
(* Nothing of a transfer that did not fit ever leaves.                     *)
(***************************************************************************)
TransfersLeaveWhole ==
    \A p \in Port :
        LET out == Outgoing(p)
            n == FramesOf[p]
        IN  \A i \in DOMAIN out :
                /\ out[i].idx = ((i - 1) % n) + 1
                /\ i > 1 => IF out[i].idx = 1 THEN out[i].nth > out[i - 1].nth
                                              ELSE out[i].nth = out[i - 1].nth
                /\ i = Len(out) => out[i].idx = n

(***************************************************************************)
(* A subscriber can tell how many messages it missed: the transfer-ID of   *)
(* a message counts every publication of its subject, the failed ones      *)
(* too, through the wrap of the eight-bit counter and of the five-bit      *)
(* field.                                                                  *)
(***************************************************************************)
TransferIdCountsPublications ==
    \A p \in Subject :
        \A i \in DOMAIN Outgoing(p) :
            Outgoing(p)[i].tid = (Outgoing(p)[i].nth - 1) % TidModulo
=============================================================================
