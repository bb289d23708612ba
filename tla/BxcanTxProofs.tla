--------------------------- MODULE BxcanTxProofs ---------------------------
(***************************************************************************)
(* For every set of ports, every length of the transfers and every         *)
(* deadline: what three mailboxes, their controller and the driver between *)
(* them do to the frames of the queue; for every clock and every bit rate: *)
(* the bit timing of the controller.                                       *)
(***************************************************************************)
EXTENDS BxcanTx, CanTimings, SequenceTheorems, TLAPS

(* Every step of either specification, with no bound on the time.          *)
AnyNext == NextBut(Tick)

(***************************************************************************)
(* What the frames of the queue are, and that they wait in order.          *)
(***************************************************************************)
CountersInv ==
    /\ pushed \in [Port -> 0 .. MaxPushes]
    /\ transfer_id \in [Port -> Nat]

QueueInv ==
    /\ txQueue \in [Port -> Seq(Queue!Frame)]
    /\ \A p \in Port : \A i \in 1 .. Len(txQueue[p]) :
          txQueue[p][i].port = p /\ txQueue[p][i].nth <= pushed[p]
    /\ \A p \in Port : \A i, j \in 1 .. Len(txQueue[p]) :
          i < j => Later(txQueue[p][j], txQueue[p][i])

(***************************************************************************)
(* Each pending mailbox holds a frame, no two of one CAN ID, and what      *)
(* still waits of that CAN ID is later.                                    *)
(***************************************************************************)
MailboxInv ==
    /\ pending \subseteq Mailbox /\ abrq \subseteq pending /\ onWire \subseteq pending
    /\ mailbox \in [Mailbox -> Queue!Frame \cup {NoFrame}]
    /\ \A m \in pending :
          mailbox[m] \in Queue!Frame /\ mailbox[m].nth <= pushed[mailbox[m].port]
    /\ \A m, k \in pending : mailbox[m].port = mailbox[k].port => m = k
    /\ \A m \in pending : \A i \in 1 .. Len(txQueue[mailbox[m].port]) :
          Later(txQueue[mailbox[m].port][i], mailbox[m])

(* What the driver has seen free is free when it writes.                   *)
DriverInv ==
    /\ tme \subseteq Mailbox
    /\ step \in {"first", "search"} => tme \cap pending = {}
    /\ step = "first" => tme = Mailbox

(* What was on the bus is earlier than all that is still to come.          *)
BusInv ==
    /\ bus \in [Port -> Seq(Queue!Frame)]
    /\ \A p \in Port : \A i \in 1 .. Len(bus[p]) : bus[p][i].nth <= pushed[p]
    /\ \A p \in Port : \A i \in 1 .. Len(bus[p]), j \in 1 .. Len(txQueue[p]) :
          Later(txQueue[p][j], bus[p][i])
    /\ \A m \in pending : \A i \in 1 .. Len(bus[mailbox[m].port]) :
          Later(mailbox[m], bus[mailbox[m].port][i])

FrameInv == CountersInv /\ QueueInv /\ MailboxInv /\ DriverInv

OrderInv == FrameInv /\ BusInv /\ BusKeepsOrder

-----------------------------------------------------------------------------
(* The operators the steps are built from.                                 *)

LEMMA Constants ==
    /\ Port \subseteq Nat /\ Subject \subseteq Port
    /\ MaxPushes \in Nat /\ CounterModulo \in Nat \ {0}
    /\ \A p \in Port : FramesOf[p] \in Nat
    /\ \A tid \in Nat : tid % TidModulo \in 0 .. TidModulo - 1
<1>1. /\ Port \subseteq Nat /\ Subject \subseteq Port
      /\ MaxPushes \in Nat /\ CounterModulo \in Nat \ {0} /\ TidModulo \in Nat \ {0}
      /\ FramesOf \in [Port -> Nat \ {0}]
  BY BxcanTxAssumption DEF Queue!TxQueueAssumption, Queue!Port, Port
<1>2. \A tid \in Nat : tid % TidModulo \in 0 .. TidModulo - 1
  BY <1>1, SMT
<1> QED BY <1>1, <1>2

(* The mailbox that is chosen is one of those seen free.                   *)
LEMMA MaxOfMailboxes ==
    ASSUME NEW S, S \subseteq Mailbox, S # {}
    PROVE  Max(S) \in S
<1>1. \E x \in S : \A y \in S : x >= y
  <2>1. \A y \in S : y = 0 \/ y = 1 \/ y = 2
    BY DEF Mailbox
  <2>2. CASE 2 \in S
    BY <2>1, <2>2
  <2>3. CASE 2 \notin S /\ 1 \in S
    BY <2>1, <2>3
  <2>4. CASE 2 \notin S /\ 1 \notin S
    BY <2>1, <2>4
  <2> QED BY <2>2, <2>3, <2>4
<1> QED BY <1>1 DEF Max

(* Later compares numbers.                                                 *)
LEMMA FrameNumbers ==
    ASSUME NEW f \in Queue!Frame
    PROVE  f.port \in Port /\ f.nth \in Nat /\ f.idx \in Nat
BY Constants DEF Queue!Frame, Port

(* A push leaves what waits in its place and adds to the end of one port   *)
(* the frames of a later transfer, or none.                                *)
LEMMA PushGrows ==
    ASSUME CountersInv, QueueInv, NEW p \in Subject, Queue!Publish(p)
    PROVE  /\ CountersInv' /\ sent' = sent
           /\ txQueue' \in [Port -> Seq(Queue!Frame)]
           /\ \A q \in Port : pushed[q] <= pushed'[q]
           /\ \A q \in Port : \A i \in 1 .. Len(txQueue[q]) :
                 i \in 1 .. Len(txQueue'[q]) /\ txQueue'[q][i] = txQueue[q][i]
           /\ \A q \in Port : \A i \in 1 .. Len(txQueue'[q]) :
                 \/ i \in 1 .. Len(txQueue[q]) /\ txQueue'[q][i] = txQueue[q][i]
                 \/ /\ q = p /\ i > Len(txQueue[q])
                    /\ txQueue'[q][i].port = p
                    /\ txQueue'[q][i].nth = pushed[q] + 1
                    /\ pushed'[q] = pushed[q] + 1
                    /\ txQueue'[q][i].idx = i - Len(txQueue[q])
                    /\ txQueue'[q][i].tid = transfer_id[q] % TidModulo
<1> DEFINE c == Queue!Chain(p, transfer_id[p])
<1>1. /\ p \in Port /\ pushed[p] \in Nat /\ pushed[p] < MaxPushes
      /\ pushed' = [pushed EXCEPT ![p] = @ + 1] /\ sent' = sent
      /\ transfer_id' = [transfer_id EXCEPT ![p] = (transfer_id[p] + 1) % CounterModulo]
  BY Constants DEF Queue!Publish, Queue!Called, Queue!push, CountersInv
<1>2. txQueue' = txQueue \/ txQueue' = [txQueue EXCEPT ![p] = @ \o c]
  BY DEF Queue!Publish, Queue!push, Queue!canardTxPush
<1>3. CountersInv'
  <2>1. transfer_id[p] \in Nat
    BY <1>1 DEF CountersInv
  <2>2. (transfer_id[p] + 1) % CounterModulo \in Nat
    BY <2>1, Constants, SMT
  <2> QED BY <1>1, <2>2, Constants DEF CountersInv
<1>4. /\ Len(c) = FramesOf[p] /\ c \in Seq(Queue!Frame)
      /\ \A i \in 1 .. FramesOf[p] : /\ c[i].port = p /\ c[i].nth = pushed[p] + 1
                                     /\ c[i].idx = i /\ c[i].tid = transfer_id[p] % TidModulo
  <2>1. transfer_id[p] % TidModulo \in 0 .. TidModulo - 1
    BY <1>1, Constants DEF CountersInv
  <2>2. FramesOf[p] \in Nat /\ pushed[p] + 1 \in 1 .. MaxPushes
    BY <1>1, Constants
  <2>3. \A i \in 1 .. FramesOf[p] :
           [port |-> p, tid |-> transfer_id[p] % TidModulo,
            nth |-> pushed[p] + 1, idx |-> i] \in Queue!Frame
    BY <1>1, <2>1, <2>2 DEF Queue!Frame, Port
  <2>4. c \in [1 .. FramesOf[p] -> Queue!Frame]
    BY <2>3 DEF Queue!Chain
  <2>5. \A i \in 1 .. FramesOf[p] : /\ c[i].port = p /\ c[i].nth = pushed[p] + 1
                                   /\ c[i].idx = i /\ c[i].tid = transfer_id[p] % TidModulo
    BY DEF Queue!Chain
  <2> QED BY <2>2, <2>4, <2>5
<1> HIDE DEF c
<1>5. CASE txQueue' = txQueue
  BY <1>1, <1>3, <1>5 DEF CountersInv, QueueInv
<1>6. CASE txQueue' = [txQueue EXCEPT ![p] = @ \o c]
  <2>1. txQueue[p] \in Seq(Queue!Frame) /\ txQueue \in [Port -> Seq(Queue!Frame)]
    BY <1>1 DEF QueueInv
  <2>2. /\ txQueue[p] \o c \in Seq(Queue!Frame)
        /\ Len(txQueue[p] \o c) = Len(txQueue[p]) + Len(c)
        /\ \A i \in 1 .. Len(txQueue[p]) + Len(c) :
              (txQueue[p] \o c)[i] = IF i <= Len(txQueue[p]) THEN txQueue[p][i]
                                                             ELSE c[i - Len(txQueue[p])]
    BY <2>1, <1>4, ConcatProperties, ZenonT(60)
  <2>3. txQueue' \in [Port -> Seq(Queue!Frame)]
    BY <1>6, <2>1, <2>2
  <2>4. ASSUME NEW i \in 1 .. Len(txQueue'[p])
        PROVE  \/ i \in 1 .. Len(txQueue[p]) /\ txQueue'[p][i] = txQueue[p][i]
               \/ /\ i > Len(txQueue[p])
                  /\ txQueue'[p][i].port = p
                  /\ txQueue'[p][i].nth = pushed[p] + 1
                  /\ txQueue'[p][i].idx = i - Len(txQueue[p])
                  /\ txQueue'[p][i].tid = transfer_id[p] % TidModulo
    <3>1. txQueue'[p] = txQueue[p] \o c
      BY <1>6, <1>1, <2>1
    <3>2. Len(txQueue[p]) \in Nat /\ FramesOf[p] \in Nat
      BY <2>1, <1>1, Constants
    <3>3. CASE i <= Len(txQueue[p])
      BY <3>1, <3>2, <3>3, <2>2, <1>4
    <3>4. CASE i > Len(txQueue[p])
      <4>1. i - Len(txQueue[p]) \in 1 .. FramesOf[p]
        BY <3>1, <3>2, <3>4, <2>2, <1>4
      <4> QED BY <4>1, <3>1, <3>2, <3>4, <2>2, <1>4
    <3> QED BY <3>2, <3>3, <3>4
  <2>5. \A q \in Port : q # p => txQueue'[q] = txQueue[q]
    BY <1>6, <2>1
  <2>6. \A q \in Port : pushed[q] <= pushed'[q]
    BY <1>1 DEF CountersInv
  <2>7. pushed'[p] = pushed[p] + 1
    BY <1>1 DEF CountersInv
  <2>8. ASSUME NEW i \in 1 .. Len(txQueue[p])
        PROVE  i \in 1 .. Len(txQueue'[p]) /\ txQueue'[p][i] = txQueue[p][i]
    <3>1. txQueue'[p] = txQueue[p] \o c /\ Len(txQueue[p]) \in Nat /\ Len(c) \in Nat
      BY <1>1, <1>4, <1>6, <2>1
    <3> QED BY <2>2, <3>1
  <2> QED BY <1>1, <1>3, <2>3, <2>4, <2>5, <2>6, <2>7, <2>8
<1> QED BY <1>2, <1>5, <1>6

(* The transport takes the first frame of a port.                          *)
LEMMA HeadTaken ==
    ASSUME QueueInv, NEW p \in Port, Queue!TransmitAccepted(p)
    PROVE  /\ txQueue' \in [Port -> Seq(Queue!Frame)]
           /\ Head(txQueue[p]) = txQueue[p][1] /\ 1 \in 1 .. Len(txQueue[p])
           /\ Head(txQueue[p]) \in Queue!Frame
           /\ sent' = [sent EXCEPT ![p] = Append(@, Head(txQueue[p]))]
           /\ pushed' = pushed /\ transfer_id' = transfer_id
           /\ \A q \in Port : q # p => txQueue'[q] = txQueue[q]
           /\ \A i \in 1 .. Len(txQueue'[p]) :
                 i + 1 \in 1 .. Len(txQueue[p]) /\ txQueue'[p][i] = txQueue[p][i + 1]
<1>1. /\ txQueue[p] # <<>> /\ txQueue[p] \in Seq(Queue!Frame)
      /\ txQueue \in [Port -> Seq(Queue!Frame)]
      /\ txQueue' = [txQueue EXCEPT ![p] = Tail(@)]
      /\ sent' = [sent EXCEPT ![p] = Append(@, Head(txQueue[p]))]
      /\ pushed' = pushed /\ transfer_id' = transfer_id
  BY DEF Queue!TransmitAccepted, Queue!canardTxPeek, QueueInv
<1>2. /\ Head(txQueue[p]) = txQueue[p][1] /\ Head(txQueue[p]) \in Queue!Frame
      /\ Tail(txQueue[p]) \in Seq(Queue!Frame)
      /\ Len(txQueue[p]) \in Nat /\ Len(txQueue[p]) > 0
      /\ Len(Tail(txQueue[p])) = Len(txQueue[p]) - 1
      /\ \A i \in 1 .. Len(Tail(txQueue[p])) : Tail(txQueue[p])[i] = txQueue[p][i + 1]
  BY <1>1, HeadTailProperties, EmptySeq
<1>3. txQueue'[p] = Tail(txQueue[p])
  BY <1>1
<1>4. txQueue' \in [Port -> Seq(Queue!Frame)] /\ \A q \in Port : q # p => txQueue'[q] = txQueue[q]
  BY <1>1, <1>2
<1> QED BY <1>1, <1>2, <1>3, <1>4

(* The steps that do not touch a frame.                                    *)
frames == <<txQueue, pushed, transfer_id, sent, mailbox, pending, bus, aborted>>

LEMMA QuietSteps ==
    ASSUME \/ ReadTme \/ SpinTransmit \/ QueueEmpty \/ PollErrorStatus
           \/ BusNotSent \/ EnterBusOff \/ BusStart \/ LeaveBusOff \/ Tick
           \/ \E p \in Port : OfferFrame(p) \/ RejectFrame(p)
           \/ UNCHANGED vars
    PROVE  UNCHANGED frames
<1> USE DEF frames, queueVars, driverVars, statusVars, timeVars, historyVars, Untouched
<1>1. CASE ReadTme
  BY <1>1 DEF ReadTme
<1>2. CASE SpinTransmit \/ QueueEmpty
  BY <1>2 DEF SpinTransmit, QueueEmpty, Queue!SpinTransmit, Queue!QueueEmpty
<1>3. CASE PollErrorStatus
  BY <1>3 DEF PollErrorStatus
<1>4. CASE BusNotSent \/ EnterBusOff \/ BusStart \/ LeaveBusOff
  BY <1>4 DEF BusNotSent, EnterBusOff, BusStart, LeaveBusOff
<1>5. CASE Tick
  BY <1>5 DEF Tick
<1>6. ASSUME NEW p \in Port, OfferFrame(p) \/ RejectFrame(p) PROVE UNCHANGED frames
  BY <1>6 DEF OfferFrame, RejectFrame, Queue!TransmitRejected
<1>7. CASE UNCHANGED vars
  BY <1>7 DEF vars
<1> QED BY <1>1, <1>2, <1>3, <1>4, <1>5, <1>6, <1>7

(* One case for every way in which a step can move a frame.                *)
LEMMA StepCases ==
    ASSUME [AnyNext]_vars
    PROVE  \/ UNCHANGED frames
           \/ \E p \in Subject : Publish(p)
           \/ \E p \in Port : EnqueueFrame(p)
           \/ BusSent
           \/ CarryOutAbort
BY QuietSteps DEF AnyNext, NextBut, Driver, Environment, Controller

-----------------------------------------------------------------------------
(* The flags of the mailboxes and the position of the driver.              *)

(* A request to abort is made for pending mailboxes only, and nothing that *)
(* was seen free becomes pending before the driver writes it.              *)
FlagsInv ==
    /\ pending \subseteq Mailbox /\ abrq \subseteq pending /\ onWire \subseteq pending
    /\ \A m, k \in onWire : m = k
    /\ DriverInv

LEMMA StepPreservesFlags == FlagsInv /\ [AnyNext]_vars => FlagsInv'
<1> SUFFICES ASSUME FlagsInv, [AnyNext]_vars PROVE FlagsInv'
    OBVIOUS
<1> USE DEF FlagsInv, DriverInv, driverVars, statusVars, timeVars, historyVars, Untouched
<1>1. CASE ReadTme
  BY <1>1 DEF ReadTme
<1>2. CASE SpinTransmit \/ QueueEmpty \/ \E p \in Subject : Publish(p)
  BY <1>2 DEF SpinTransmit, QueueEmpty, Publish
<1>3. CASE PollErrorStatus
  BY <1>3 DEF PollErrorStatus, Abort
<1>4. CASE BusNotSent \/ EnterBusOff \/ LeaveBusOff
  BY <1>4 DEF BusNotSent, EnterBusOff, LeaveBusOff
<1>5. CASE BusStart
  BY <1>5 DEF BusStart
<1>6. CASE Tick
  BY <1>6 DEF Tick
<1>7. ASSUME NEW p \in Port, OfferFrame(p) PROVE FlagsInv'
  BY <1>7 DEF OfferFrame, Abort
<1>8. ASSUME NEW p \in Port, RejectFrame(p) PROVE FlagsInv'
  BY <1>8 DEF RejectFrame
<1>9. ASSUME NEW p \in Port, EnqueueFrame(p) PROVE FlagsInv'
  <2>1. tme \subseteq Mailbox /\ tme # {} /\ 0 \in Mailbox
    BY <1>9 DEF EnqueueFrame, Mailbox
  <2>2. Max(tme) \in Mailbox
    BY <2>1, MaxOfMailboxes
  <2> QED BY <1>9, <2>1, <2>2 DEF EnqueueFrame
<1>10. CASE BusSent
  BY <1>10 DEF BusSent
<1>11. CASE CarryOutAbort
  BY <1>11 DEF CarryOutAbort
<1>12. CASE UNCHANGED vars
  BY <1>12 DEF vars
<1> QED BY <1>1, <1>2, <1>3, <1>4, <1>5, <1>6, <1>7, <1>8, <1>9, <1>10, <1>11, <1>12
        DEF AnyNext, NextBut, Driver, Environment, Controller

(* The mailbox that is written was seen free, is free, and every pending   *)
(* one holds a frame of another CAN ID.                                    *)
LEMMA FreeMailbox ==
    ASSUME FrameInv, NEW p \in Port, EnqueueFrame(p)
    PROVE  \E m \in Mailbox :
              /\ m \notin pending
              /\ pending' = pending \cup {m}
              /\ mailbox' = [mailbox EXCEPT ![m] = Head(txQueue[p])]
              /\ g_tx_deadline' = [g_tx_deadline EXCEPT ![m] = current_time + Timeout]
              /\ age' = [age EXCEPT ![m] = 0]
              /\ Queue!TransmitAccepted(p)
              /\ \A k \in pending : mailbox[k].port # p
              /\ UNCHANGED <<bus, aborted, abrq, clock, current_time>> /\ step' = "offer"
<1> DEFINE m == IF step = "first" THEN 0 ELSE Max(tme)
<1>1. m \in tme /\ m \in Mailbox
  <2>1. tme \subseteq Mailbox /\ tme # {} /\ 0 \in Mailbox
    BY DEF FrameInv, DriverInv, EnqueueFrame, Mailbox
  <2>2. Max(tme) \in tme
    BY <2>1, MaxOfMailboxes
  <2> QED BY <2>1, <2>2 DEF FrameInv, DriverInv
<1>2. tme \cap pending = {}
  BY DEF FrameInv, DriverInv, EnqueueFrame
<1>3. ASSUME NEW k \in pending PROVE mailbox[k].port # p
  <2>1. k \in Mailbox \ tme /\ mailbox[k] \in Queue!Frame
    BY <1>2 DEF FrameInv, MailboxInv
  <2>2. ~(p >= mailbox[k].port)
    BY <2>1 DEF EnqueueFrame, Outranked
  <2> QED BY <2>1, <2>2, FrameNumbers, Constants
<1>4. /\ pending' = pending \cup {m}
      /\ mailbox' = [mailbox EXCEPT ![m] = Head(txQueue[p])]
      /\ g_tx_deadline' = [g_tx_deadline EXCEPT ![m] = current_time + Timeout]
      /\ age' = [age EXCEPT ![m] = 0]
      /\ Queue!TransmitAccepted(p)
      /\ UNCHANGED <<bus, aborted, abrq, clock, current_time>> /\ step' = "offer"
  BY DEF EnqueueFrame, historyVars
<1> HIDE DEF m
<1> QED BY <1>1, <1>2, <1>3, <1>4

-----------------------------------------------------------------------------
(* Frames in order: the invariant of the queue, the mailboxes and the bus. *)

LEMMA InitOrder == Init => OrderInv
<1> SUFFICES ASSUME Init PROVE OrderInv
    OBVIOUS
<1>1. CountersInv
  BY Constants DEF Init, Queue!Init, CountersInv, Port
<1>2. QueueInv
  BY DEF Init, Queue!Init, QueueInv, Port
<1>3. MailboxInv /\ DriverInv
  BY DEF Init, MailboxInv, DriverInv
<1>4. BusInv /\ BusKeepsOrder
  BY DEF Init, BusInv, BusKeepsOrder
<1> QED BY <1>1, <1>2, <1>3, <1>4 DEF OrderInv, FrameInv

LEMMA QuietOrder ==
    ASSUME OrderInv, UNCHANGED frames, FlagsInv'
    PROVE  OrderInv'
<1>1. CountersInv' /\ QueueInv'
  BY DEF OrderInv, FrameInv, CountersInv, QueueInv, Later, frames
<1>2. MailboxInv' /\ DriverInv'
  BY DEF OrderInv, FrameInv, MailboxInv, FlagsInv, Later, frames
<1>3. BusInv'
  BY DEF OrderInv, BusInv, Later, frames
<1>4. BusKeepsOrder'
  BY DEF OrderInv, BusKeepsOrder, Later, frames
<1> QED BY <1>1, <1>2, <1>3, <1>4 DEF OrderInv, FrameInv

LEMMA PublishOrder ==
    ASSUME OrderInv, NEW p \in Subject, Publish(p), FlagsInv'
    PROVE  OrderInv'
<1>1. /\ CountersInv /\ QueueInv /\ MailboxInv /\ BusInv /\ BusKeepsOrder
      /\ Queue!Publish(p) /\ UNCHANGED <<mailbox, pending, bus>>
  BY DEF OrderInv, FrameInv, Publish, Untouched, historyVars
<1> DEFINE Kept(q, i) == i \in 1 .. Len(txQueue[q]) /\ txQueue'[q][i] = txQueue[q][i]
           Added(q, i) == /\ q = p /\ i > Len(txQueue[q])
                          /\ txQueue'[q][i].port = p
                          /\ txQueue'[q][i].nth = pushed[q] + 1
                          /\ pushed'[q] = pushed[q] + 1
                          /\ txQueue'[q][i].idx = i - Len(txQueue[q])
<1>2. /\ CountersInv' /\ txQueue' \in [Port -> Seq(Queue!Frame)]
      /\ \A q \in Port : pushed[q] <= pushed'[q]
      /\ \A q \in Port : \A i \in 1 .. Len(txQueue'[q]) : Kept(q, i) \/ Added(q, i)
  BY <1>1, PushGrows
<1>3. \A q \in Port : pushed[q] \in Nat /\ pushed'[q] \in Nat /\ Len(txQueue[q]) \in Nat
  BY <1>1, <1>2, Constants DEF CountersInv, QueueInv
<1>4. QueueInv'
  <2>1. ASSUME NEW q \in Port, NEW i \in 1 .. Len(txQueue'[q])
        PROVE  txQueue'[q][i].port = q /\ txQueue'[q][i].nth <= pushed'[q]
    <3>1. CASE Kept(q, i)
      <4>1. txQueue[q][i] \in Queue!Frame
        BY <3>1, <1>1 DEF QueueInv
      <4>2. txQueue[q][i].nth \in Nat
        BY <4>1, FrameNumbers
      <4>3. txQueue[q][i].port = q /\ txQueue[q][i].nth <= pushed[q]
        BY <3>1, <1>1 DEF QueueInv
      <4>4. pushed[q] <= pushed'[q]
        BY <1>2
      <4> QED BY <3>1, <4>2, <4>3, <4>4, <1>3
    <3>2. CASE Added(q, i)
      BY <3>2, <1>3
    <3> QED BY <3>1, <3>2, <1>2
  <2>2. ASSUME NEW q \in Port, NEW i \in 1 .. Len(txQueue'[q]),
               NEW j \in 1 .. Len(txQueue'[q]), i < j
        PROVE  Later(txQueue'[q][j], txQueue'[q][i])
    <3>1. CASE Kept(q, i) /\ Kept(q, j)
      BY <3>1, <2>2, <1>1 DEF QueueInv
    <3>2. CASE Kept(q, i) /\ Added(q, j)
      <4>1. txQueue[q][i] \in Queue!Frame /\ txQueue[q][i].nth <= pushed[q]
        BY <3>2, <1>1 DEF QueueInv
      <4> QED BY <3>2, <4>1, <1>3, FrameNumbers DEF Later
    <3>3. CASE Added(q, i) /\ Added(q, j)
      BY <3>3, <2>2, <1>3 DEF Later
    <3>4. ~(Added(q, i) /\ Kept(q, j))
      BY <2>2, <1>3
    <3> QED BY <3>1, <3>2, <3>3, <3>4, <1>2
  <2> QED BY <1>2, <2>1, <2>2 DEF QueueInv
<1>5. ASSUME NEW q \in Port, NEW f \in Queue!Frame, f.nth <= pushed[q],
             \A i \in 1 .. Len(txQueue[q]) : Later(txQueue[q][i], f),
             NEW j \in 1 .. Len(txQueue'[q])
      PROVE  Later(txQueue'[q][j], f)
  <2>1. CASE Kept(q, j)
    BY <2>1, <1>5
  <2>2. CASE Added(q, j)
    BY <2>2, <1>5, <1>3, FrameNumbers DEF Later
  <2> QED BY <2>1, <2>2, <1>2
<1> HIDE DEF Kept, Added
<1>6. \A m \in pending : mailbox[m] \in Queue!Frame /\ mailbox[m].port \in Port
  BY <1>1, FrameNumbers DEF MailboxInv
<1>7. MailboxInv'
  <2>1. \A m \in pending : mailbox[m].nth <= pushed'[mailbox[m].port]
    BY <1>1, <1>2, <1>3, <1>6, FrameNumbers DEF MailboxInv
  <2>2. \A m \in pending : \A i \in 1 .. Len(txQueue'[mailbox[m].port]) :
           Later(txQueue'[mailbox[m].port][i], mailbox[m])
    BY <1>1, <1>5, <1>6 DEF MailboxInv
  <2> QED BY <1>1, <2>1, <2>2 DEF MailboxInv, FlagsInv
<1>8. BusInv' /\ BusKeepsOrder'
  <2>1. \A q \in Port : \A i \in 1 .. Len(bus[q]) : bus[q][i] \in Queue!Frame
    BY <1>1 DEF BusInv
  <2>2. ASSUME NEW q \in Port, NEW i \in 1 .. Len(bus[q])
        PROVE  bus[q][i].nth <= pushed'[q]
    <3>1. bus[q][i].nth \in Nat /\ bus[q][i].nth <= pushed[q]
      BY <1>1, <2>1, FrameNumbers DEF BusInv
    <3> QED BY <3>1, <1>2, <1>3
  <2>3. \A q \in Port : \A i \in 1 .. Len(bus[q]), j \in 1 .. Len(txQueue'[q]) :
           Later(txQueue'[q][j], bus[q][i])
    BY <1>1, <1>5, <2>1 DEF BusInv
  <2>4. UNCHANGED <<bus, pending, mailbox>>
    BY <1>1
  <2>5. BusKeepsOrder'
    BY <1>1, <2>4 DEF BusKeepsOrder, Later
  <2>6. \A m \in pending' : \A i \in 1 .. Len(bus'[mailbox'[m].port]) :
           Later(mailbox'[m], bus'[mailbox'[m].port][i])
    BY <1>1, <2>4 DEF BusInv
  <2>7. BusInv'
    BY <1>1, <2>2, <2>3, <2>4, <2>6 DEF BusInv, Later
  <2> QED BY <2>5, <2>7
<1> QED BY <1>2, <1>4, <1>7, <1>8 DEF OrderInv, FrameInv, FlagsInv

LEMMA EnqueueOrder ==
    ASSUME OrderInv, NEW p \in Port, EnqueueFrame(p), FlagsInv'
    PROVE  OrderInv'
<1> DEFINE f == Head(txQueue[p])
<1>1. /\ FrameInv /\ CountersInv /\ QueueInv /\ MailboxInv /\ BusInv /\ BusKeepsOrder
  BY DEF OrderInv, FrameInv
<1>2. PICK m \in Mailbox :
              /\ m \notin pending /\ pending' = pending \cup {m}
              /\ mailbox' = [mailbox EXCEPT ![m] = f]
              /\ Queue!TransmitAccepted(p)
              /\ \A k \in pending : mailbox[k].port # p
              /\ bus' = bus
  BY <1>1, FreeMailbox
<1>3. /\ txQueue' \in [Port -> Seq(Queue!Frame)]
      /\ f = txQueue[p][1] /\ 1 \in 1 .. Len(txQueue[p]) /\ f \in Queue!Frame
      /\ pushed' = pushed /\ transfer_id' = transfer_id
      /\ \A q \in Port : q # p => txQueue'[q] = txQueue[q]
      /\ \A i \in 1 .. Len(txQueue'[p]) :
            i + 1 \in 1 .. Len(txQueue[p]) /\ txQueue'[p][i] = txQueue[p][i + 1]
  BY <1>1, <1>2, HeadTaken
<1>4. f.port = p /\ f.nth <= pushed[p]
  BY <1>1, <1>3 DEF QueueInv
<1>5. ASSUME NEW j \in 1 .. Len(txQueue'[p]) PROVE Later(txQueue'[p][j], f)
  BY <1>1, <1>3 DEF QueueInv
<1>6. CountersInv'
  BY <1>1, <1>3 DEF CountersInv
<1>7. QueueInv'
  <2>1. ASSUME NEW q \in Port, NEW i \in 1 .. Len(txQueue'[q])
        PROVE  txQueue'[q][i].port = q /\ txQueue'[q][i].nth <= pushed'[q]
    <3>1. CASE q = p
      BY <3>1, <1>1, <1>3 DEF QueueInv
    <3>2. CASE q # p
      BY <3>2, <1>1, <1>3 DEF QueueInv
    <3> QED BY <3>1, <3>2
  <2>2. ASSUME NEW q \in Port, NEW i \in 1 .. Len(txQueue'[q]),
               NEW j \in 1 .. Len(txQueue'[q]), i < j
        PROVE  Later(txQueue'[q][j], txQueue'[q][i])
    <3>1. CASE q = p
      <4>1. i + 1 < j + 1
        BY <2>2
      <4> QED BY <3>1, <4>1, <1>1, <1>3 DEF QueueInv
    <3>2. CASE q # p
      BY <3>2, <2>2, <1>1, <1>3 DEF QueueInv
    <3> QED BY <3>1, <3>2
  <2> QED BY <1>3, <2>1, <2>2 DEF QueueInv
<1> HIDE DEF f
<1>8. mailbox'[m] = f /\ \A k \in pending : mailbox'[k] = mailbox[k] /\ k # m
  BY <1>1, <1>2 DEF MailboxInv
<1>9. MailboxInv'
  <2>1. mailbox' \in [Mailbox -> Queue!Frame \cup {NoFrame}]
    BY <1>1, <1>2, <1>3 DEF MailboxInv
  <2>2. \A k \in pending' : mailbox'[k] \in Queue!Frame
                            /\ mailbox'[k].nth <= pushed'[mailbox'[k].port]
    BY <1>1, <1>2, <1>3, <1>4, <1>8 DEF MailboxInv
  <2>3. \A k, l \in pending' : mailbox'[k].port = mailbox'[l].port => k = l
    BY <1>1, <1>2, <1>4, <1>8 DEF MailboxInv
  <2>4. ASSUME NEW k \in pending', NEW i \in 1 .. Len(txQueue'[mailbox'[k].port])
        PROVE  Later(txQueue'[mailbox'[k].port][i], mailbox'[k])
    <3>1. CASE k = m
      BY <3>1, <1>4, <1>5, <1>8
    <3>2. CASE k # m
      <4>1. k \in pending /\ mailbox'[k] = mailbox[k] /\ mailbox[k].port \in Port
            /\ mailbox[k].port # p
        BY <3>2, <1>1, <1>2, <1>8, FrameNumbers DEF MailboxInv
      <4> QED BY <4>1, <1>1, <1>3 DEF MailboxInv
    <3> QED BY <3>1, <3>2
  <2> QED BY <2>1, <2>2, <2>3, <2>4 DEF MailboxInv, FlagsInv
<1>10. BusInv' /\ BusKeepsOrder'
  <2>1. \A q \in Port : \A i \in 1 .. Len(bus[q]), j \in 1 .. Len(txQueue'[q]) :
           Later(txQueue'[q][j], bus[q][i])
    BY <1>1, <1>3 DEF BusInv
  <2>2. ASSUME NEW k \in pending', NEW i \in 1 .. Len(bus[mailbox'[k].port])
        PROVE  Later(mailbox'[k], bus[mailbox'[k].port][i])
    <3>1. CASE k = m
      <4>1. mailbox'[k] = txQueue[p][1] /\ mailbox'[k].port = p
        BY <3>1, <1>3, <1>4, <1>8
      <4>2. i \in 1 .. Len(bus[p])
        BY <4>1
      <4> QED BY <4>1, <4>2, <1>1, <1>3 DEF BusInv
    <3>2. CASE k # m
      BY <3>2, <1>1, <1>2, <1>8 DEF BusInv
    <3> QED BY <3>1, <3>2
  <2> QED BY <1>1, <1>2, <1>3, <2>1, <2>2 DEF BusInv, BusKeepsOrder, Later
<1> QED BY <1>6, <1>7, <1>9, <1>10 DEF OrderInv, FrameInv, FlagsInv

LEMMA SentOrder ==
    ASSUME OrderInv, BusSent, FlagsInv'
    PROVE  OrderInv'
<1>1. /\ CountersInv /\ QueueInv /\ MailboxInv /\ BusInv /\ BusKeepsOrder
      /\ UNCHANGED <<txQueue, pushed, transfer_id, mailbox>>
  BY DEF OrderInv, FrameInv, BusSent, queueVars
<1>2. PICK m \in pending : /\ bus' = [bus EXCEPT ![mailbox[m].port] = Append(@, mailbox[m])]
                           /\ pending' \subseteq pending \ {m}
  <2>1. PICK m \in onWire : bus' = [bus EXCEPT ![mailbox[m].port] = Append(@, mailbox[m])]
    BY DEF BusSent
  <2>2. m \in pending /\ pending' \subseteq pending \ {m}
    BY <1>1 DEF BusSent, MailboxInv
  <2> QED BY <2>1, <2>2
<1> DEFINE p == mailbox[m].port
<1>3. mailbox[m] \in Queue!Frame /\ mailbox[m].nth <= pushed[p] /\ p \in Port
  BY <1>1, FrameNumbers DEF MailboxInv
<1>4. bus[p] \in Seq(Queue!Frame) /\ bus'[p] = Append(bus[p], mailbox[m])
  BY <1>1, <1>2, <1>3 DEF BusInv
<1>5. /\ bus'[p] \in Seq(Queue!Frame) /\ Len(bus[p]) \in Nat
      /\ Len(bus'[p]) = Len(bus[p]) + 1
      /\ bus'[p][Len(bus[p]) + 1] = mailbox[m]
      /\ \A i \in 1 .. Len(bus[p]) : bus'[p][i] = bus[p][i]
  BY <1>3, <1>4, AppendProperties
<1>6. /\ bus' \in [Port -> Seq(Queue!Frame)]
      /\ \A q \in Port : q # p => bus'[q] = bus[q]
  BY <1>1, <1>2, <1>3, <1>4, <1>5 DEF BusInv
<1>7. \A k \in pending' : k \in pending /\ mailbox[k].port \in Port /\ mailbox[k].port # p
  BY <1>1, <1>2, FrameNumbers DEF MailboxInv
<1> HIDE DEF p
<1>8. CountersInv' /\ QueueInv'
  BY <1>1 DEF CountersInv, QueueInv, Later
<1>9. MailboxInv'
  BY <1>1, <1>7 DEF MailboxInv, FlagsInv, Later
<1>10. BusInv'
  <2>1. ASSUME NEW q \in Port, NEW i \in 1 .. Len(bus'[q])
        PROVE  /\ bus'[q][i].nth <= pushed[q]
               /\ \A j \in 1 .. Len(txQueue[q]) : Later(txQueue[q][j], bus'[q][i])
    <3>1. CASE q # p
      BY <3>1, <1>1, <1>6 DEF BusInv
    <3>2. CASE q = p /\ i \in 1 .. Len(bus[p])
      BY <3>2, <1>1, <1>5 DEF BusInv
    <3>3. CASE q = p /\ i = Len(bus[p]) + 1
      BY <3>3, <1>1, <1>3, <1>5 DEF MailboxInv, p
    <3> QED BY <3>1, <3>2, <3>3, <1>5
  <2>2. \A k \in pending' : \A i \in 1 .. Len(bus'[mailbox[k].port]) :
           Later(mailbox[k], bus'[mailbox[k].port][i])
    BY <1>1, <1>6, <1>7 DEF BusInv
  <2> QED BY <1>1, <1>6, <2>1, <2>2 DEF BusInv, Later
<1>11. BusKeepsOrder'
  <2>1. ASSUME NEW q \in Port, NEW i \in 2 .. Len(bus'[q])
        PROVE  Later(bus'[q][i], bus'[q][i - 1])
    <3>1. CASE q # p
      BY <3>1, <1>1, <1>6 DEF BusKeepsOrder
    <3>2. CASE q = p /\ i \in 1 .. Len(bus[p])
      <4>1. i - 1 \in 1 .. Len(bus[p]) /\ i \in 2 .. Len(bus[p])
        BY <3>2, <1>5
      <4> QED BY <3>2, <4>1, <1>1, <1>5 DEF BusKeepsOrder
    <3>3. CASE q = p /\ i = Len(bus[p]) + 1
      <4>1. i - 1 \in 1 .. Len(bus[p]) /\ bus'[q][i - 1] = bus[p][i - 1]
        BY <3>3, <1>5
      <4>2. Later(mailbox[m], bus[p][i - 1])
        BY <4>1, <1>1 DEF BusInv, p
      <4> QED BY <3>3, <4>1, <4>2, <1>5
    <3> QED BY <3>1, <3>2, <3>3, <1>5
  <2> QED BY <2>1 DEF BusKeepsOrder, Later
<1> QED BY <1>8, <1>9, <1>10, <1>11 DEF OrderInv, FrameInv, FlagsInv

LEMMA AbortOrder ==
    ASSUME OrderInv, CarryOutAbort, FlagsInv'
    PROVE  OrderInv'
<1>1. /\ CountersInv /\ QueueInv /\ MailboxInv /\ BusInv /\ BusKeepsOrder
      /\ UNCHANGED <<txQueue, pushed, transfer_id, mailbox, bus>>
      /\ pending' \subseteq pending
  BY DEF OrderInv, FrameInv, CarryOutAbort, queueVars
<1>2. CountersInv' /\ QueueInv'
  BY <1>1 DEF CountersInv, QueueInv, Later
<1>3. MailboxInv'
  BY <1>1 DEF MailboxInv, FlagsInv, Later
<1>4. BusInv'
  <2>1. \A m \in pending' : \A i \in 1 .. Len(bus'[mailbox'[m].port]) :
           Later(mailbox'[m], bus'[mailbox'[m].port][i])
    BY <1>1 DEF BusInv
  <2>2. \A p \in Port : \A i \in 1 .. Len(bus'[p]), j \in 1 .. Len(txQueue'[p]) :
           Later(txQueue'[p][j], bus'[p][i])
    BY <1>1 DEF BusInv
  <2> QED BY <1>1, <2>1, <2>2 DEF BusInv, Later
<1>5. BusKeepsOrder'
  BY <1>1 DEF BusKeepsOrder, Later
<1> QED BY <1>2, <1>3, <1>4, <1>5 DEF OrderInv, FrameInv, FlagsInv

LEMMA InitFlags == Init => FlagsInv
BY DEF Init, FlagsInv, DriverInv

LEMMA NextOrder == FlagsInv /\ OrderInv /\ [AnyNext]_vars => OrderInv'
BY StepPreservesFlags, StepCases, QuietOrder, PublishOrder, EnqueueOrder, SentOrder, AbortOrder

(* The clock of either specification is a clock without a bound.           *)
LEMMA TicksAreTicks ==
    /\ [NextBut(PromptTick)]_vars => [AnyNext]_vars
    /\ [NextBut(EarlyTick)]_vars => [AnyNext]_vars
BY DEF AnyNext, NextBut, PromptTick, EarlyTick

LEMMA OrderHolds ==
    Init /\ [][AnyNext]_vars => [](FlagsInv /\ OrderInv)
<1>1. FlagsInv /\ OrderInv /\ [AnyNext]_vars => (FlagsInv /\ OrderInv)'
  BY StepPreservesFlags, NextOrder
<1> QED BY <1>1, InitFlags, InitOrder, PTL

(***************************************************************************)
(* bxCANPush leaves a frame in the queue while a mailbox of its CAN ID is  *)
(* pending (bxcan.c, the priority inversion test), so retries, aborts and  *)
(* three mailboxes never put the frames of one CAN ID on the bus out of    *)
(* order or twice, whatever the clock does.                                *)
(***************************************************************************)
THEOREM OrderOnTheBus ==
    /\ Spec => []BusKeepsOrder
    /\ EarlySpec => []BusKeepsOrder
<1>1. OrderInv => BusKeepsOrder
  BY DEF OrderInv
<1> QED BY <1>1, OrderHolds, TicksAreTicks, PTL DEF Spec, EarlySpec

-----------------------------------------------------------------------------
(* Where a frame that left the queue is.                                   *)

LEMMA RangeOfAppend ==
    ASSUME NEW S, NEW s \in Seq(S), NEW e \in S
    PROVE  Range(Append(s, e)) = Range(s) \cup {e}
<1>1. /\ Append(s, e) \in Seq(S) /\ Len(s) \in Nat
      /\ Len(Append(s, e)) = Len(s) + 1
      /\ Append(s, e)[Len(s) + 1] = e
      /\ \A i \in 1 .. Len(s) : Append(s, e)[i] = s[i]
  BY AppendProperties
<1>2. DOMAIN Append(s, e) = 1 .. Len(s) + 1 /\ DOMAIN s = 1 .. Len(s)
  BY <1>1
<1>3. 1 .. Len(s) + 1 = (1 .. Len(s)) \cup {Len(s) + 1}
  BY <1>1
<1> QED BY <1>1, <1>2, <1>3 DEF Range

(* What the transport took is a frame of the port it was queued on.        *)
SentInv ==
    /\ sent \in [Port -> Seq(Queue!Frame)]
    /\ \A p \in Port : \A f \in Range(sent[p]) : f.port = p

(* On the bus, given up, or still in a mailbox.                            *)
Places(p) == Range(bus[p]) \cup aborted \cup {mailbox[m] : m \in pending}

PlacesInv == SentInv /\ \A p \in Port : \A f \in Range(sent[p]) : f \in Places(p)

LEMMA InitPlaces == Init => PlacesInv
BY DEF Init, Queue!Init, PlacesInv, SentInv, Places, Port, Range

LEMMA EnqueuePlaces ==
    ASSUME OrderInv, PlacesInv, NEW p \in Port, EnqueueFrame(p)
    PROVE  PlacesInv'
<1> DEFINE f == Head(txQueue[p])
<1>1. FrameInv /\ QueueInv /\ MailboxInv /\ SentInv
  BY DEF OrderInv, FrameInv, PlacesInv
<1>2. PICK m \in Mailbox :
              /\ m \notin pending /\ pending' = pending \cup {m}
              /\ mailbox' = [mailbox EXCEPT ![m] = f]
              /\ Queue!TransmitAccepted(p)
              /\ UNCHANGED <<bus, aborted>>
  BY <1>1, FreeMailbox
<1>3. /\ f = txQueue[p][1] /\ 1 \in 1 .. Len(txQueue[p]) /\ f \in Queue!Frame
      /\ sent' = [sent EXCEPT ![p] = Append(@, f)]
  BY <1>1, <1>2, HeadTaken
<1>4. f.port = p
  BY <1>1, <1>3 DEF QueueInv
<1> HIDE DEF f
<1>5. mailbox'[m] = f /\ \A k \in pending : mailbox'[k] = mailbox[k]
  BY <1>1, <1>2 DEF MailboxInv
<1>6. \A q \in Port : Places(q) \cup {f} \subseteq Places(q)'
  BY <1>2, <1>5 DEF Places
<1>7. /\ sent[p] \in Seq(Queue!Frame) /\ sent'[p] = Append(sent[p], f)
      /\ \A q \in Port : q # p => sent'[q] = sent[q]
  BY <1>1, <1>3 DEF SentInv
<1>8. Append(sent[p], f) \in Seq(Queue!Frame)
  BY <1>7, <1>3, AppendProperties
<1>9. sent' \in [Port -> Seq(Queue!Frame)]
  BY <1>1, <1>3, <1>8 DEF SentInv
<1>10. Range(sent'[p]) = Range(sent[p]) \cup {f}
  BY <1>3, <1>7, RangeOfAppend
<1>11. \A q \in Port : Range(sent'[q]) = Range(sent[q]) \/ (q = p /\ Range(sent'[q]) = Range(sent[q]) \cup {f})
  BY <1>7, <1>10
<1>12. SentInv'
  BY <1>1, <1>4, <1>9, <1>11 DEF SentInv
<1>13. \A q \in Port : \A g \in Range(sent'[q]) : g \in Places(q)'
  BY <1>6, <1>11 DEF PlacesInv
<1> QED BY <1>12, <1>13 DEF PlacesInv

LEMMA SentPlaces ==
    ASSUME FlagsInv, OrderInv, PlacesInv, BusSent
    PROVE  PlacesInv'
<1>1. MailboxInv /\ SentInv /\ BusInv /\ UNCHANGED <<sent, mailbox, aborted>>
  BY DEF OrderInv, FrameInv, PlacesInv, BusSent, queueVars
<1>2. PICK m \in onWire : bus' = [bus EXCEPT ![mailbox[m].port] = Append(@, mailbox[m])]
  BY DEF BusSent
<1>3. m \in pending /\ pending' = pending \ {m}
  BY DEF BusSent, FlagsInv
<1> DEFINE p == mailbox[m].port
<1>4. mailbox[m] \in Queue!Frame /\ p \in Port
  BY <1>1, <1>3, FrameNumbers DEF MailboxInv
<1>5. /\ bus[p] \in Seq(Queue!Frame) /\ bus'[p] = Append(bus[p], mailbox[m])
      /\ \A q \in Port : q # p => bus'[q] = bus[q]
  BY <1>1, <1>2, <1>4 DEF BusInv
<1>6. Range(bus'[p]) = Range(bus[p]) \cup {mailbox[m]}
  BY <1>4, <1>5, RangeOfAppend
<1>7. ASSUME NEW q \in Port, NEW f \in Range(sent[q]), f \in Places(q)
      PROVE  f \in Places(q)'
  <2>1. CASE f = mailbox[m]
    <3>1. q = p
      BY <2>1, <1>1 DEF SentInv
    <3> QED BY <2>1, <3>1, <1>6 DEF Places
  <2>2. CASE f # mailbox[m]
    <3>1. Range(bus[q]) \subseteq Range(bus'[q])
      BY <1>5, <1>6
    <3>2. f \in Range(bus[q]) \/ f \in aborted \/ \E k \in pending : f = mailbox[k]
      BY <1>7 DEF Places
    <3>3. \A k \in pending : f = mailbox[k] => k \in pending'
      BY <2>2, <1>3
    <3> QED BY <3>1, <3>2, <3>3, <1>1 DEF Places
  <2> QED BY <2>1, <2>2
<1>8. SentInv'
  BY <1>1 DEF SentInv
<1>9. \A q \in Port : \A f \in Range(sent'[q]) : f \in Places(q)'
  BY <1>1, <1>7 DEF PlacesInv
<1> QED BY <1>8, <1>9 DEF PlacesInv

LEMMA AbortPlaces ==
    ASSUME PlacesInv, CarryOutAbort
    PROVE  PlacesInv'
<1>1. PICK m \in abrq : /\ pending' = pending \ {m}
                        /\ aborted' = aborted \cup {mailbox[m]}
  BY DEF CarryOutAbort
<1>2. UNCHANGED <<sent, mailbox, bus>>
  BY DEF CarryOutAbort, queueVars
<1>3. ASSUME NEW q \in Port PROVE Places(q) \subseteq Places(q)'
  <2>1. \A k \in pending : k = m \/ k \in pending'
    BY <1>1
  <2> QED BY <2>1, <1>1, <1>2 DEF Places
<1> QED BY <1>2, <1>3 DEF PlacesInv, SentInv

LEMMA OtherPlaces ==
    ASSUME PlacesInv, CountersInv, QueueInv,
           UNCHANGED frames \/ \E p \in Subject : Publish(p)
    PROVE  PlacesInv'
<1>1. ASSUME NEW p \in Subject, Publish(p)
      PROVE  UNCHANGED <<sent, mailbox, pending, bus, aborted>>
  BY <1>1, PushGrows DEF Publish, Untouched, historyVars
<1>2. UNCHANGED <<sent, mailbox, pending, bus, aborted>>
  BY <1>1 DEF frames
<1> QED BY <1>2 DEF PlacesInv, SentInv, Places

LEMMA NextPlaces == FlagsInv /\ OrderInv /\ PlacesInv /\ [AnyNext]_vars => PlacesInv'
BY StepCases, EnqueuePlaces, SentPlaces, AbortPlaces, OtherPlaces DEF OrderInv, FrameInv

(***************************************************************************)
(* A mailbox is written only when it is free, by the two readings of TSR   *)
(* in bxCANPush, whatever the controller does between them: no frame that  *)
(* the driver took is overwritten before it is sent or aborted.            *)
(***************************************************************************)
THEOREM FramesAreAccountedFor ==
    /\ Spec => []NoFrameVanishes
    /\ EarlySpec => []NoFrameVanishes
<1>1. PlacesInv => NoFrameVanishes
  BY DEF PlacesInv, Places, NoFrameVanishes
<1>2. Init /\ [][AnyNext]_vars => []PlacesInv
  BY InitPlaces, NextPlaces, OrderHolds, PTL
<1> QED BY <1>1, <1>2, TicksAreTicks, PTL DEF Spec, EarlySpec

-----------------------------------------------------------------------------
(* The holes in a transfer.                                                *)

(* The frames of one port that have not been given up, wherever they are.  *)
Alive(p) == Range(txQueue[p]) \cup Range(bus[p])
            \cup {mailbox[m] : m \in {k \in pending : mailbox[k].port = p}}

(* Every frame of which a later one of its transfer is alive, is alive or  *)
(* has been given up.                                                      *)
HolesInv ==
    \A p \in Port : \A f \in Alive(p) : \A i \in 1 .. f.idx - 1 :
        [f EXCEPT !.idx = i] \in Alive(p) \cup aborted

LEMMA InitHoles == Init => HolesInv
BY DEF Init, Queue!Init, HolesInv, Alive, Port, Range

(* Nothing alive is new, and what is no longer alive has been given up.    *)
LEMMA HolesStay ==
    ASSUME HolesInv, NEW p \in Port,
           Alive(p)' \subseteq Alive(p),
           Alive(p) \cup aborted \subseteq Alive(p)' \cup aborted'
    PROVE  \A f \in Alive(p)' : \A i \in 1 .. f.idx - 1 :
               [f EXCEPT !.idx = i] \in Alive(p)' \cup aborted'
BY Zenon DEF HolesInv

(* The first frame of a queue, apart from the others.                      *)
LEMMA RangeOfHeadTail ==
    ASSUME NEW S, NEW s \in Seq(S), s # <<>>
    PROVE  Range(s) = {Head(s)} \cup Range(Tail(s))
<1>1. /\ Len(s) \in Nat /\ Len(s) > 0 /\ Head(s) = s[1] /\ Tail(s) \in Seq(S)
      /\ Len(Tail(s)) = Len(s) - 1
      /\ \A i \in 1 .. Len(Tail(s)) : Tail(s)[i] = s[i + 1]
  BY HeadTailProperties, EmptySeq
<1>2. DOMAIN s = 1 .. Len(s) /\ DOMAIN Tail(s) = 1 .. Len(s) - 1
  BY <1>1
<1>3. ASSUME NEW x \in Range(s) PROVE x = Head(s) \/ x \in Range(Tail(s))
  <2>1. PICK i \in 1 .. Len(s) : x = s[i]
    BY <1>2 DEF Range
  <2>2. CASE i = 1
    BY <1>1, <2>1, <2>2
  <2>3. CASE i # 1
    <3>1. i - 1 \in 1 .. Len(s) - 1 /\ (i - 1) + 1 = i
      BY <1>1, <2>3
    <3>2. x = Tail(s)[i - 1]
      BY <1>1, <2>1, <3>1
    <3> QED BY <1>2, <3>1, <3>2 DEF Range
  <2> QED BY <2>2, <2>3
<1>4. Head(s) \in Range(s)
  BY <1>1, <1>2 DEF Range
<1>5. ASSUME NEW x \in Range(Tail(s)) PROVE x \in Range(s)
  <2>1. PICK i \in 1 .. Len(s) - 1 : x = Tail(s)[i]
    BY <1>2 DEF Range
  <2>2. i + 1 \in 1 .. Len(s) /\ x = s[i + 1]
    BY <1>1, <2>1
  <2> QED BY <1>2, <2>2 DEF Range
<1> QED BY <1>3, <1>4, <1>5

LEMMA EnqueueHoles ==
    ASSUME OrderInv, HolesInv, NEW p \in Port, EnqueueFrame(p)
    PROVE  HolesInv'
<1> DEFINE f == Head(txQueue[p])
<1>1. FrameInv /\ QueueInv /\ MailboxInv
  BY DEF OrderInv, FrameInv
<1>2. PICK m \in Mailbox :
              /\ m \notin pending /\ pending' = pending \cup {m}
              /\ mailbox' = [mailbox EXCEPT ![m] = f]
              /\ Queue!TransmitAccepted(p)
              /\ UNCHANGED <<bus, aborted>>
  BY <1>1, FreeMailbox
<1>3. /\ f = txQueue[p][1] /\ 1 \in 1 .. Len(txQueue[p]) /\ f \in Queue!Frame
      /\ \A q \in Port : q # p => txQueue'[q] = txQueue[q]
  BY <1>1, <1>2, HeadTaken
<1>4. f.port = p
  BY <1>1, <1>3 DEF QueueInv
<1>5. Range(txQueue[p]) = {f} \cup Range(txQueue'[p])
  <2>1. txQueue[p] \in Seq(Queue!Frame) /\ txQueue[p] # <<>> /\ txQueue'[p] = Tail(txQueue[p])
    BY <1>1, <1>2 DEF Queue!TransmitAccepted, Queue!canardTxPeek, QueueInv
  <2> QED BY <2>1, RangeOfHeadTail
<1> HIDE DEF f
<1>6. mailbox'[m] = f /\ \A k \in pending : mailbox'[k] = mailbox[k]
  BY <1>1, <1>2 DEF MailboxInv
<1>7. ASSUME NEW q \in Port PROVE Alive(q)' = Alive(q)
  <2>1. Alive(q)' = Range(txQueue'[q]) \cup Range(bus[q])
                    \cup {mailbox'[k] : k \in {l \in pending' : mailbox'[l].port = q}}
    BY <1>2 DEF Alive
  <2>2. CASE q # p
    <3>1. {mailbox'[k] : k \in {l \in pending' : mailbox'[l].port = q}}
          = {mailbox[k] : k \in {l \in pending : mailbox[l].port = q}}
      BY <1>2, <1>4, <1>6, <2>2
    <3> QED BY <1>3, <2>1, <2>2, <3>1 DEF Alive
  <2>3. CASE q = p
    <3>1. {mailbox'[k] : k \in {l \in pending' : mailbox'[l].port = p}}
          = {f} \cup {mailbox[k] : k \in {l \in pending : mailbox[l].port = p}}
      BY <1>2, <1>4, <1>6
    <3> QED BY <1>5, <2>1, <2>3, <3>1 DEF Alive
  <2> QED BY <2>2, <2>3
<1> QED BY <1>2, <1>7, HolesStay DEF HolesInv

LEMMA SentHoles ==
    ASSUME FlagsInv, OrderInv, HolesInv, BusSent
    PROVE  HolesInv'
<1>1. MailboxInv /\ BusInv /\ UNCHANGED <<txQueue, mailbox, aborted>>
  BY DEF OrderInv, FrameInv, BusSent, queueVars
<1>2. PICK m \in onWire : bus' = [bus EXCEPT ![mailbox[m].port] = Append(@, mailbox[m])]
  BY DEF BusSent
<1>3. m \in pending /\ pending' = pending \ {m}
  BY DEF BusSent, FlagsInv
<1> DEFINE p == mailbox[m].port
<1>4. mailbox[m] \in Queue!Frame /\ p \in Port
  BY <1>1, <1>3, FrameNumbers DEF MailboxInv
<1>5. /\ bus[p] \in Seq(Queue!Frame) /\ bus'[p] = Append(bus[p], mailbox[m])
      /\ \A q \in Port : q # p => bus'[q] = bus[q]
  BY <1>1, <1>2, <1>4 DEF BusInv
<1>6. Range(bus'[p]) = Range(bus[p]) \cup {mailbox[m]}
  BY <1>4, <1>5, RangeOfAppend
<1>7. ASSUME NEW q \in Port PROVE Alive(q)' = Alive(q)
  <2>1. Alive(q)' = Range(txQueue[q]) \cup Range(bus'[q])
                    \cup {mailbox[k] : k \in {l \in pending' : mailbox[l].port = q}}
    BY <1>1 DEF Alive
  <2> HIDE DEF p
  <2>2. CASE q # p
    <3>1. {l \in pending' : mailbox[l].port = q} = {l \in pending : mailbox[l].port = q}
      BY <1>3, <2>2 DEF p
    <3> QED BY <1>5, <2>1, <2>2, <3>1 DEF Alive
  <2>3. CASE q = p
    <3>1. {l \in pending : mailbox[l].port = p}
          = {m} \cup {l \in pending' : mailbox[l].port = p}
      BY <1>3 DEF p
    <3>2. {mailbox[k] : k \in {l \in pending : mailbox[l].port = p}}
          = {mailbox[m]} \cup {mailbox[k] : k \in {l \in pending' : mailbox[l].port = p}}
      BY <3>1
    <3> QED BY <1>6, <2>1, <2>3, <3>2 DEF Alive
  <2> QED BY <2>2, <2>3
<1> QED BY <1>1, <1>7, HolesStay DEF HolesInv

LEMMA AbortHoles ==
    ASSUME HolesInv, CarryOutAbort
    PROVE  HolesInv'
<1>1. PICK m \in abrq : /\ pending' = pending \ {m}
                        /\ aborted' = aborted \cup {mailbox[m]}
  BY DEF CarryOutAbort
<1>2. UNCHANGED <<txQueue, mailbox, bus>>
  BY DEF CarryOutAbort, queueVars
<1>3. ASSUME NEW p \in Port
      PROVE  /\ Alive(p)' \subseteq Alive(p)
             /\ Alive(p) \cup aborted \subseteq Alive(p)' \cup aborted'
  <2>1. \A k \in pending : k = m \/ k \in pending'
    BY <1>1
  <2> QED BY <2>1, <1>1, <1>2 DEF Alive
<1> QED BY <1>3, HolesStay DEF HolesInv

(* A push adds the whole chain of a transfer, or nothing.                  *)
LEMMA PublishHoles ==
    ASSUME CountersInv, QueueInv, HolesInv, NEW p \in Subject, Publish(p)
    PROVE  HolesInv'
<1>1. /\ UNCHANGED <<mailbox, pending, bus, aborted>> /\ Queue!Publish(p)
  BY DEF Publish, Untouched, historyVars
<1>2. /\ txQueue' \in [Port -> Seq(Queue!Frame)] /\ txQueue \in [Port -> Seq(Queue!Frame)]
      /\ \A q \in Port : \A i \in 1 .. Len(txQueue'[q]) :
            \/ i \in 1 .. Len(txQueue[q]) /\ txQueue'[q][i] = txQueue[q][i]
            \/ /\ i > Len(txQueue[q])
               /\ txQueue'[q][i].port = p
               /\ txQueue'[q][i].nth = pushed[q] + 1
               /\ txQueue'[q][i].idx = i - Len(txQueue[q])
               /\ txQueue'[q][i].tid = transfer_id[q] % TidModulo
  BY <1>1, PushGrows DEF QueueInv
<1>3. ASSUME NEW q \in Port PROVE Range(txQueue[q]) \subseteq Range(txQueue'[q])
  <2>1. \A i \in 1 .. Len(txQueue[q]) :
           i \in 1 .. Len(txQueue'[q]) /\ txQueue'[q][i] = txQueue[q][i]
    BY <1>1, PushGrows
  <2>2. /\ DOMAIN txQueue[q] = 1 .. Len(txQueue[q])
        /\ DOMAIN txQueue'[q] = 1 .. Len(txQueue'[q])
    BY <1>2
  <2> QED BY <2>1, <2>2 DEF Range
<1>4. ASSUME NEW q \in Port PROVE Alive(q) \subseteq Alive(q)'
  BY <1>1, <1>3 DEF Alive
<1>5. ASSUME NEW q \in Port, NEW f \in Alive(q)', NEW j \in 1 .. f.idx - 1
      PROVE  [f EXCEPT !.idx = j] \in Alive(q)' \cup aborted'
  <2>1. CASE f \in Alive(q)
    <3>1. [f EXCEPT !.idx = j] \in Alive(q) \cup aborted
      BY <2>1, Zenon DEF HolesInv
    <3> QED BY <1>1, <1>4, <3>1
  <2>2. CASE f \notin Alive(q)
    <3>1. txQueue[q] \in Seq(Queue!Frame) /\ txQueue'[q] \in Seq(Queue!Frame)
      BY <1>2
    <3>2. Len(txQueue[q]) \in Nat /\ Len(txQueue'[q]) \in Nat
          /\ DOMAIN txQueue[q] = 1 .. Len(txQueue[q])
          /\ DOMAIN txQueue'[q] = 1 .. Len(txQueue'[q])
      BY <3>1
    <3>3. PICK i \in 1 .. Len(txQueue'[q]) : f = txQueue'[q][i]
      BY <1>1, <2>2, <3>2 DEF Alive, Range
    <3>4. ~(i \in 1 .. Len(txQueue[q]) /\ txQueue'[q][i] = txQueue[q][i])
      BY <2>2, <3>2, <3>3 DEF Alive, Range
    <3> DEFINE n == Len(txQueue[q])
               g == txQueue'[q][n + j]
    <3>5. /\ i > n /\ f.port = p /\ f.nth = pushed[q] + 1 /\ f.idx = i - n
          /\ f.tid = transfer_id[q] % TidModulo
      BY <1>2, <3>3, <3>4
    <3>6. j \in Nat /\ n + j > n /\ n + j \in 1 .. Len(txQueue'[q]) /\ (n + j) - n = j
      BY <3>2, <3>5
    <3>7. /\ g.port = p /\ g.nth = pushed[q] + 1 /\ g.idx = j
          /\ g.tid = transfer_id[q] % TidModulo
      BY <1>2, <3>2, <3>6
    <3>8. f \in Queue!Frame /\ g \in Queue!Frame
      BY <3>1, <3>2, <3>3, <3>6
    <3>9. g \in Range(txQueue'[q])
      BY <3>2, <3>6 DEF Range
    <3> HIDE DEF g, n
    <3>10. g = [f EXCEPT !.idx = j]
      BY <3>5, <3>7, <3>8 DEF Queue!Frame
    <3> QED BY <3>9, <3>10 DEF Alive
  <2> QED BY <2>1, <2>2
<1> QED BY <1>5 DEF HolesInv

LEMMA NextHoles == FlagsInv /\ OrderInv /\ HolesInv /\ [AnyNext]_vars => HolesInv'
<1>1. ASSUME HolesInv, UNCHANGED frames PROVE HolesInv'
  <2>1. \A p \in Port : Alive(p)' = Alive(p) /\ aborted' = aborted
    BY <1>1 DEF frames, Alive
  <2>2. \A p \in Port : /\ Alive(p)' \subseteq Alive(p)
                        /\ Alive(p) \cup aborted \subseteq Alive(p)' \cup aborted'
    BY <2>1
  <2> QED BY <1>1, <2>2, HolesStay DEF HolesInv
<1> QED BY <1>1, StepCases, EnqueueHoles, SentHoles, AbortHoles, PublishHoles
        DEF OrderInv, FrameInv

(* What is still to come of a CAN ID is no earlier frame of a transfer     *)
(* that has been seen on the bus.                                          *)
LEMMA NoHoleIsFilledLate == OrderInv /\ HolesInv => HolesAreAborted
<1> SUFFICES ASSUME OrderInv, HolesInv, NEW p \in Port, NEW f \in Range(bus[p]),
                    NEW i \in 1 .. f.idx - 1
             PROVE  [f EXCEPT !.idx = i] \in Range(bus[p]) \cup aborted
  BY DEF HolesAreAborted
<1>1. BusInv /\ QueueInv /\ MailboxInv
  BY DEF OrderInv, FrameInv
<1>2. /\ bus[p] \in Seq(Queue!Frame) /\ txQueue[p] \in Seq(Queue!Frame)
      /\ DOMAIN bus[p] = 1 .. Len(bus[p]) /\ DOMAIN txQueue[p] = 1 .. Len(txQueue[p])
  BY <1>1 DEF BusInv, QueueInv
<1>3. PICK k \in 1 .. Len(bus[p]) : f = bus[p][k]
  BY <1>2 DEF Range
<1> DEFINE g == [f EXCEPT !.idx = i]
<1>4. f \in Queue!Frame /\ f.nth \in Nat /\ f.idx \in Nat
  BY <1>2, <1>3, FrameNumbers
<1>5. g.nth = f.nth /\ g.idx = i /\ i < f.idx /\ i \in Nat
  BY <1>4 DEF Queue!Frame
<1>6. g \in Alive(p) \cup aborted
  BY Zenon DEF HolesInv, Alive
<1> HIDE DEF g
<1>7. ~Later(g, f)
  BY <1>4, <1>5 DEF Later
<1>8. g \notin Range(txQueue[p])
  <2>1. \A j \in 1 .. Len(txQueue[p]) : Later(txQueue[p][j], f)
    BY <1>1, <1>3 DEF BusInv
  <2> QED BY <1>2, <1>7, <2>1 DEF Range
<1>9. ASSUME NEW m \in pending, mailbox[m].port = p, g = mailbox[m] PROVE FALSE
  <2>1. Later(mailbox[m], f)
    BY <1>1, <1>3, <1>9 DEF BusInv
  <2> QED BY <1>7, <1>9, <2>1
<1>10. g \in Range(bus[p]) \cup aborted
  BY <1>6, <1>8, <1>9 DEF Alive
<1> QED BY <1>10 DEF g

(***************************************************************************)
(* A frame is missing from a transfer seen on the bus only if a mailbox    *)
(* gave it up: a refusal by bxCANPush leaves the frame first in the queue, *)
(* and a retry by the controller comes before all that waits behind it.    *)
(***************************************************************************)
THEOREM HolesComeFromAborts ==
    /\ Spec => []HolesAreAborted
    /\ EarlySpec => []HolesAreAborted
<1>1. Init /\ [][AnyNext]_vars => []HolesInv
  BY InitHoles, NextHoles, OrderHolds, PTL
<1>2. Init /\ [][AnyNext]_vars => []HolesAreAborted
  BY <1>1, OrderHolds, NoHoleIsFilledLate, PTL
<1> QED BY <1>2, TicksAreTicks, PTL DEF Spec, EarlySpec

-----------------------------------------------------------------------------
(* Deadlines, while the 32-bit clock does not start again from zero.       *)

(* The deadline of a frame, and how long it has waited, tell the same.     *)
DeadlineInv ==
    /\ clock \in Nat /\ clock + Timeout < ClockModulo
    /\ step # "offer" => current_time = clock
    /\ g_tx_deadline \in [Mailbox -> Nat] /\ age \in [Mailbox -> Nat]
    /\ pending \subseteq Mailbox /\ abrq \subseteq pending
    /\ \A m \in pending \ abrq :
          /\ g_tx_deadline[m] <= clock + Timeout
          /\ age[m] = IF clock <= g_tx_deadline[m]
                        THEN (clock + Timeout) - g_tx_deadline[m] ELSE Timeout + 1

LEMMA ClockConstants ==
    Timeout \in Nat /\ ClockModulo \in Nat /\ Timeout < ClockModulo /\ Never \in Nat
BY BxcanTxAssumption DEF Never

LEMMA InitDeadlines == Init => DeadlineInv
BY ClockConstants DEF Init, DeadlineInv

(* An abort changes the deadlines of mailboxes that are then asked to      *)
(* abort, or are not pending.                                              *)
LEMMA AbortDeadlines ==
    ASSUME DeadlineInv, NEW S, Abort(S), UNCHANGED <<clock, age, pending>>,
           step' # "offer" => current_time' = clock
    PROVE  DeadlineInv'
<1>1. /\ g_tx_deadline' = [m \in Mailbox |-> IF m \in S THEN Never ELSE g_tx_deadline[m]]
      /\ abrq' = abrq \cup (S \cap pending)
  BY DEF Abort
<1>2. g_tx_deadline' \in [Mailbox -> Nat]
  BY <1>1, ClockConstants DEF DeadlineInv
<1>3. \A m \in pending \ abrq' : m \in pending \ abrq /\ g_tx_deadline'[m] = g_tx_deadline[m]
  BY <1>1 DEF DeadlineInv
<1>4. abrq' \subseteq pending
  BY <1>1 DEF DeadlineInv
<1> QED BY <1>2, <1>3, <1>4 DEF DeadlineInv

LEMMA EnqueueDeadlines ==
    ASSUME DeadlineInv, FrameInv, NEW p \in Port, EnqueueFrame(p)
    PROVE  DeadlineInv'
<1>1. PICK m \in Mailbox :
              /\ m \notin pending /\ pending' = pending \cup {m}
              /\ g_tx_deadline' = [g_tx_deadline EXCEPT ![m] = current_time + Timeout]
              /\ age' = [age EXCEPT ![m] = 0]
              /\ UNCHANGED <<abrq, clock, current_time>> /\ step' = "offer"
  BY FreeMailbox
<1>2. current_time = clock /\ clock \in Nat
  BY DEF EnqueueFrame, DeadlineInv
<1>3. g_tx_deadline' \in [Mailbox -> Nat] /\ age' \in [Mailbox -> Nat]
  BY <1>1, <1>2, ClockConstants DEF DeadlineInv
<1>4. g_tx_deadline'[m] = clock + Timeout /\ age'[m] = 0
  BY <1>1, <1>2 DEF DeadlineInv
<1>5. \A k \in pending : g_tx_deadline'[k] = g_tx_deadline[k] /\ age'[k] = age[k]
  BY <1>1 DEF DeadlineInv
<1>6. ASSUME NEW k \in pending' \ abrq'
      PROVE  /\ g_tx_deadline'[k] <= clock + Timeout
             /\ age'[k] = IF clock <= g_tx_deadline'[k]
                            THEN (clock + Timeout) - g_tx_deadline'[k] ELSE Timeout + 1
  <2>1. CASE k = m
    BY <2>1, <1>2, <1>4, ClockConstants
  <2>2. CASE k # m
    <3>1. k \in pending \ abrq
      BY <2>2, <1>1
    <3> QED BY <3>1, <1>5 DEF DeadlineInv
  <2> QED BY <2>1, <2>2
<1> QED BY <1>1, <1>3, <1>6 DEF DeadlineInv

LEMMA TickDeadlines ==
    ASSUME DeadlineInv, EarlyTick
    PROVE  DeadlineInv'
<1>1. /\ clock \in Nat /\ clock' = (clock + 1) % ClockModulo
      /\ clock + 1 + Timeout < ClockModulo /\ step = "offer"
      /\ age' = [m \in Mailbox |-> IF m \in pending /\ age[m] <= Timeout
                                     THEN age[m] + 1 ELSE age[m]]
      /\ UNCHANGED <<step, current_time, g_tx_deadline, pending, abrq>>
  BY DEF EarlyTick, Tick, DeadlineInv, driverVars
<1>2. clock' = clock + 1
  BY <1>1, ClockConstants, SMT
<1>3. age' \in [Mailbox -> Nat]
  BY <1>1 DEF DeadlineInv
<1>4. ASSUME NEW m \in pending \ abrq
      PROVE  /\ g_tx_deadline[m] <= clock' + Timeout
             /\ age'[m] = IF clock' <= g_tx_deadline[m]
                            THEN (clock' + Timeout) - g_tx_deadline[m] ELSE Timeout + 1
  <2>1. m \in Mailbox /\ m \in pending /\ g_tx_deadline[m] \in Nat /\ age[m] \in Nat
    BY DEF DeadlineInv
  <2>2. /\ g_tx_deadline[m] <= clock + Timeout
        /\ age[m] = IF clock <= g_tx_deadline[m]
                      THEN (clock + Timeout) - g_tx_deadline[m] ELSE Timeout + 1
    BY DEF DeadlineInv
  <2>3. age'[m] = IF age[m] <= Timeout THEN age[m] + 1 ELSE age[m]
    BY <1>1, <2>1
  <2> QED BY <1>1, <1>2, <2>1, <2>2, <2>3, ClockConstants
<1> QED BY <1>1, <1>2, <1>3, <1>4, ClockConstants DEF DeadlineInv

(* The steps that leave the driver, the clock and the deadlines alone.     *)
LEMMA OtherDeadlines ==
    ASSUME DeadlineInv, FlagsInv',
           \/ ReadTme \/ SpinTransmit \/ QueueEmpty \/ \E p \in Subject : Publish(p)
           \/ BusNotSent \/ EnterBusOff \/ BusStart \/ LeaveBusOff \/ BusSent
           \/ CarryOutAbort \/ (\E p \in Port : RejectFrame(p)) \/ UNCHANGED vars
    PROVE  DeadlineInv'
<1> DEFINE Same == /\ UNCHANGED <<clock, age, g_tx_deadline, current_time>>
                   /\ step' # "offer" => step # "offer"
                   /\ pending' \ abrq' \subseteq pending \ abrq
<1> USE DEF driverVars, timeVars, Untouched, Same
<1>1. ASSUME ReadTme
      PROVE  Same
  BY <1>1 DEF ReadTme
<1>2. ASSUME SpinTransmit \/ QueueEmpty \/ \E p \in Subject : Publish(p)
      PROVE  Same
  BY <1>2 DEF SpinTransmit, QueueEmpty, Publish
<1>3. ASSUME BusNotSent \/ EnterBusOff \/ BusStart \/ LeaveBusOff
      PROVE  Same
  BY <1>3 DEF BusNotSent, EnterBusOff, BusStart, LeaveBusOff
<1>4. ASSUME BusSent \/ CarryOutAbort
      PROVE  Same
  BY <1>4 DEF BusSent, CarryOutAbort
<1>5. ASSUME (\E p \in Port : RejectFrame(p)) \/ UNCHANGED vars
      PROVE  Same
  BY <1>5 DEF RejectFrame, vars
<1>6. Same
  BY <1>1, <1>2, <1>3, <1>4, <1>5
<1> QED BY <1>6 DEF DeadlineInv, FlagsInv

LEMMA NextDeadlines ==
    DeadlineInv /\ FlagsInv /\ FrameInv /\ [NextBut(EarlyTick)]_vars => DeadlineInv'
<1> SUFFICES ASSUME DeadlineInv, FlagsInv, FrameInv, [NextBut(EarlyTick)]_vars
             PROVE  DeadlineInv'
    OBVIOUS
<1>1. FlagsInv'
  BY TicksAreTicks, StepPreservesFlags
<1>2. CASE PollErrorStatus
  BY <1>2, AbortDeadlines DEF PollErrorStatus, timeVars, DeadlineInv
<1>3. ASSUME NEW p \in Port, OfferFrame(p) PROVE DeadlineInv'
  BY <1>3, AbortDeadlines DEF OfferFrame, timeVars
<1> QED BY <1>1, <1>2, <1>3, EnqueueDeadlines, TickDeadlines, OtherDeadlines
        DEF NextBut, Driver, Environment, Controller

DeadlinesHold == DeadlineInv /\ FlagsInv /\ OrderInv

LEMMA DeadlinesAlways == EarlySpec => []DeadlinesHold
<1>1. Init => DeadlinesHold
  BY InitDeadlines, InitFlags, InitOrder DEF DeadlinesHold
<1>2. DeadlinesHold /\ [NextBut(EarlyTick)]_vars => DeadlinesHold'
  BY NextDeadlines, StepPreservesFlags, NextOrder, TicksAreTicks DEF DeadlinesHold, OrderInv
<1> QED BY <1>1, <1>2, PTL DEF EarlySpec

(* An expired mailbox is one that has waited for longer than Timeout.      *)
LEMMA ExpiredIsOld ==
    ASSUME DeadlineInv, NEW m \in pending \ abrq
    PROVE  m \in Expired <=> age[m] > Timeout
<1>1. /\ m \in Mailbox /\ m \in pending /\ pending # {}
      /\ clock \in Nat /\ g_tx_deadline[m] \in Nat /\ age[m] \in Nat
      /\ g_tx_deadline[m] <= clock + Timeout
      /\ age[m] = IF clock <= g_tx_deadline[m]
                    THEN (clock + Timeout) - g_tx_deadline[m] ELSE Timeout + 1
  BY DEF DeadlineInv
<1>2. m \in Expired <=> clock > g_tx_deadline[m]
  BY <1>1 DEF Expired
<1> QED BY <1>1, <1>2, ClockConstants

(* Who asks for an abort.                                                  *)
LEMMA WhoAborts ==
    ASSUME [NextBut(EarlyTick)]_vars, NEW m \in abrq' \ abrq
    PROVE  /\ m \in pending \ abrq
           /\ m \in GivenUp \/ m \in Expired
<1> USE DEF queueVars, driverVars, statusVars, timeVars, historyVars, Untouched
<1>1. CASE PollErrorStatus
  BY <1>1 DEF PollErrorStatus, Abort
<1>2. ASSUME NEW p \in Port, OfferFrame(p) PROVE m \in pending \ abrq /\ (m \in GivenUp \/ m \in Expired)
  BY <1>2 DEF OfferFrame, Abort
<1>3. ASSUME \/ ReadTme \/ SpinTransmit \/ QueueEmpty \/ \E p \in Subject : Publish(p)
             \/ BusNotSent \/ EnterBusOff \/ BusStart \/ LeaveBusOff \/ BusSent
             \/ CarryOutAbort \/ (\E p \in Port : RejectFrame(p) \/ EnqueueFrame(p))
             \/ EarlyTick \/ UNCHANGED vars
      PROVE  abrq' \subseteq abrq
  BY <1>3 DEF ReadTme, SpinTransmit, QueueEmpty, Publish, BusNotSent, EnterBusOff, BusStart,
              LeaveBusOff, BusSent, CarryOutAbort, RejectFrame, EnqueueFrame, EarlyTick, Tick,
              vars
<1> QED BY <1>1, <1>2, <1>3 DEF NextBut, Driver, Environment, Controller

(***************************************************************************)
(* While the 32-bit clock does not start again from zero, the table of     *)
(* deadlines is exact: whatever is aborted has waited longer than its      *)
(* deadline or meets bus-off.                                              *)
(***************************************************************************)
THEOREM AbortsAreDue == EarlySpec => NoEarlyAbort
<1>1. ASSUME DeadlinesHold, [NextBut(EarlyTick)]_vars, NEW m \in abrq' \ abrq
      PROVE  age[m] > Timeout \/ boff
  <2>1. m \in pending \ abrq /\ (m \in GivenUp \/ m \in Expired)
    BY <1>1, WhoAborts
  <2>2. CASE m \in GivenUp
    BY <2>2 DEF GivenUp
  <2>3. CASE m \in Expired
    BY <2>1, <2>3, <1>1, ExpiredIsOld DEF DeadlinesHold
  <2> QED BY <2>1, <2>2, <2>3
<1>2. DeadlinesHold /\ [NextBut(EarlyTick)]_vars
      => [\A m \in abrq' \ abrq : age[m] > Timeout \/ boff]_vars
  BY <1>1
<1> QED BY <1>2, DeadlinesAlways, PTL DEF EarlySpec, NoEarlyAbort

(* Only OfferFrame begins a call of bxCANPush.                             *)
LEMMA WhoBegins ==
    ASSUME [NextBut(EarlyTick)]_vars, step = "offer", step' # "offer"
    PROVE  \E p \in Port : OfferFrame(p)
<1> USE DEF driverVars, Untouched
<1>1. ASSUME \/ ReadTme \/ SpinTransmit \/ QueueEmpty \/ \E p \in Subject : Publish(p)
             \/ BusNotSent \/ EnterBusOff \/ BusStart \/ LeaveBusOff \/ BusSent
             \/ CarryOutAbort \/ (\E p \in Port : RejectFrame(p) \/ EnqueueFrame(p))
             \/ PollErrorStatus \/ EarlyTick \/ UNCHANGED vars
      PROVE  step # "offer" \/ step' = "offer"
  BY <1>1 DEF ReadTme, SpinTransmit, QueueEmpty, Publish, BusNotSent, EnterBusOff, BusStart,
              LeaveBusOff, BusSent, CarryOutAbort, RejectFrame, EnqueueFrame, EarlyTick, Tick,
              PollErrorStatus, vars
<1> QED BY <1>1 DEF NextBut, Driver, Environment, Controller

(***************************************************************************)
(* Under the same condition the driver leaves no frame in a mailbox beyond *)
(* its deadline ("If such mailboxes are found they are aborted",           *)
(* bxcan.h:115-118).                                                       *)
(***************************************************************************)
THEOREM StaleFramesLeave == EarlySpec => StaleFramesAreAborted
<1>1. ASSUME DeadlinesHold, [NextBut(EarlyTick)]_vars, step = "offer", step' # "offer",
             NEW m \in pending \ abrq'
      PROVE  age[m] <= Timeout
  <2>1. PICK p \in Port : OfferFrame(p)
    BY <1>1, WhoBegins
  <2>2. m \notin abrq /\ m \notin Expired
    BY <2>1 DEF OfferFrame, Abort
  <2>3. m \in pending \ abrq /\ age[m] \in Nat
    BY <2>2, <1>1 DEF DeadlinesHold, DeadlineInv
  <2> QED BY <2>2, <2>3, <1>1, ExpiredIsOld, ClockConstants DEF DeadlinesHold
<1>2. DeadlinesHold /\ [NextBut(EarlyTick)]_vars
      => [step = "offer" /\ step' # "offer" =>
             \A m \in pending \ abrq' : age[m] <= Timeout]_vars
  BY <1>1
<1> QED BY <1>2, DeadlinesAlways, PTL DEF EarlySpec, StaleFramesAreAborted

-----------------------------------------------------------------------------
(* The bit timing (CanTimings).  First, division with remainder.           *)
LEMMA Quotient ==
    ASSUME NEW a \in Int, NEW n \in Int, n > 0
    PROVE  a = n * (a \div n) + (a % n)
BY SMTT(60)

LEMMA Factor ==
    ASSUME NEW n \in Nat \ {0}, NEW k \in Nat
    PROVE  (n * k) \div n = k /\ (k * n) \div n = k
<1>1. (n * k) \div n = k
  BY SMT
<1>2. n * k = k * n
  OBVIOUS
<1> QED BY <1>1, <1>2

(* The rounding: whatever the number of quanta, the segments fit into the  *)
(* fields of the register and the sample point is where CANopen wants it.  *)
LEMMA Segments ==
    ASSUME NEW quanta \in 3 .. 17
    PROVE  /\ ValidSegments(SegmentOne(quanta), SegmentTwo(quanta))
           /\ SegmentOne(quanta) \in Int
           /\ sample_point_permill(SegmentOne(quanta), quanta) <= 900
BY SMTT(60) DEF ValidSegments, SegmentOne, SegmentTwo, sample_point_permill

(* The search ends: numbers of quanta that are not empty have a highest.   *)
LEMMA Highest ==
    ASSUME NEW S \in SUBSET (3 .. 17), S # {}
    PROVE  \E q \in S : \A p \in S : p <= q
<1> SUFFICES ASSUME \A q \in S : \E p \in S : p > q
             PROVE  FALSE
  OBVIOUS
<1>1. \A q \in 12 .. 17 : q \notin S
  OBVIOUS
<1>2. \A q \in 8 .. 11 : q \notin S
  BY <1>1
<1>3. \A q \in 3 .. 7 : q \notin S
  BY <1>1, <1>2
<1>4. PICK q \in S : q \in 3 .. 17
  OBVIOUS
<1>5. q \in 3 .. 7 \/ q \in 8 .. 11 \/ q \in 12 .. 17
  BY <1>4
<1> QED BY <1>1, <1>2, <1>3, <1>4, <1>5

LEMMA QuantaFound ==
    ASSUME NEW pclk \in Nat, NEW bitrate \in Nat \ {0}, Divisors(pclk, bitrate) # {}
    PROVE  /\ Quanta(pclk, bitrate) \in 3 .. 17
           /\ prescaler_bs(pclk, bitrate) % Quanta(pclk, bitrate) = 0
<1>1. Divisors(pclk, bitrate) \subseteq 3 .. 17
  BY DEF Divisors, max_quanta_per_bit
<1>2. \E q \in Divisors(pclk, bitrate) : \A p \in Divisors(pclk, bitrate) : p <= q
  BY <1>1, Highest
<1>3. Quanta(pclk, bitrate) \in Divisors(pclk, bitrate)
  BY <1>2, Zenon DEF Quanta
<1> QED BY <1>1, <1>3 DEF Divisors

(* The prescaler times the quanta is the cut quotient: nothing is lost.    *)
LEMMA ClocksOfABit ==
    ASSUME NEW pclk \in Nat, NEW bitrate \in Nat \ {0}, Divisors(pclk, bitrate) # {}
    PROVE  /\ prescaler_bs(pclk, bitrate) \in Nat /\ prescaler(pclk, bitrate) \in Nat
           /\ prescaler(pclk, bitrate) * Quanta(pclk, bitrate) = prescaler_bs(pclk, bitrate)
<1> DEFINE m == prescaler_bs(pclk, bitrate)
           q == Quanta(pclk, bitrate)
<1>1. m \in Nat
  BY SMT DEF prescaler_bs
<1>2. q \in 3 .. 17 /\ m % q = 0
  BY QuantaFound
<1> HIDE DEF m, q
<1>3. m = q * (m \div q) + (m % q)
  BY <1>1, <1>2, Quotient
<1>4. m \div q \in Nat /\ q \in Nat
  BY <1>1, <1>2
<1>5. m = (m \div q) * q
  BY <1>2, <1>3, <1>4
<1> QED BY <1>1, <1>4, <1>5 DEF m, q, prescaler

(***************************************************************************)
(* When bxCANComputeTimings succeeds, its results fit into the fields that *)
(* bxCANConfigure checks and writes, the sample point is not after 90% of  *)
(* the bit, and the rate they produce is, in whole Hz, the one asked for.  *)
(***************************************************************************)
THEOREM TimingsAreExact ==
    ASSUME NEW pclk \in Nat, NEW bitrate \in Nat, Computed(pclk, bitrate)
    PROVE  LET quanta == Quanta(pclk, bitrate)
               bs1    == SegmentOne(quanta)
               bs2    == SegmentTwo(quanta)
           IN  /\ prescaler(pclk, bitrate) \in 1 .. 1024
               /\ bs1 \in 1 .. 16 /\ bs2 \in 1 .. 8
               /\ sample_point_permill(bs1, 1 + bs1 + bs2) <= 900
               /\ bitrate = pclk \div (prescaler(pclk, bitrate) * (1 + bs1 + bs2))
<1> DEFINE quanta == Quanta(pclk, bitrate)
<1>1. bitrate \in Nat \ {0} /\ Divisors(pclk, bitrate) # {}
      /\ prescaler(pclk, bitrate) \in 1 .. 1024
  BY DEF Computed, HasSolution
<1>2. quanta \in 3 .. 17
  BY <1>1, QuantaFound
<1>3. bitrate = pclk \div (prescaler(pclk, bitrate) * quanta)
  BY DEF Computed, PassesValidation
<1> HIDE DEF quanta
<1>4. /\ ValidSegments(SegmentOne(quanta), SegmentTwo(quanta))
      /\ SegmentOne(quanta) \in Int
      /\ sample_point_permill(SegmentOne(quanta), quanta) <= 900
  BY <1>2, Segments
<1>5. 1 + SegmentOne(quanta) + SegmentTwo(quanta) = quanta
  BY <1>2, <1>4 DEF SegmentTwo
<1> QED BY <1>1, <1>3, <1>4, <1>5 DEF ValidSegments, quanta

(***************************************************************************)
(* "This actually means that the algorithm has a logic error, hence        *)
(* assert(0)", says the comment on the final validation.  It never fails   *)
(* for a bit rate that divides the clock.  (For others it may: a clock of  *)
(* 36 MHz and 95 kHz make 14 quanta at a prescaler of 27, which is 95238   *)
(* Hz, so the rate cannot be set and the algorithm is not to blame.)       *)
(***************************************************************************)
THEOREM NoLogicError ==
    ASSUME NEW pclk \in Nat, NEW bitrate \in Nat, HasSolution(pclk, bitrate),
           NEW times \in Nat, pclk = bitrate * times
    PROVE  PassesValidation(pclk, bitrate)
<1> DEFINE m == prescaler_bs(pclk, bitrate)
<1>1. bitrate \in Nat \ {0} /\ Divisors(pclk, bitrate) # {}
      /\ prescaler(pclk, bitrate) \in 1 .. 1024
  BY DEF HasSolution
<1>2. Quanta(pclk, bitrate) \in 3 .. 17
  BY <1>1, QuantaFound
<1>3. m \in Nat /\ prescaler(pclk, bitrate) * Quanta(pclk, bitrate) = m
  BY <1>1, ClocksOfABit
<1>4. m = times
  BY <1>1, Factor DEF prescaler_bs
<1>5. m # 0
  BY <1>1, <1>2, <1>3, SMTT(30)
<1>6. pclk \div m = bitrate
  BY <1>1, <1>4, <1>5, Factor
<1>7. ValidSegments(SegmentOne(Quanta(pclk, bitrate)), SegmentTwo(Quanta(pclk, bitrate)))
  BY <1>2, Segments
<1> QED BY <1>3, <1>6, <1>7 DEF PassesValidation
=============================================================================
