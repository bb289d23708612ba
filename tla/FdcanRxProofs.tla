--------------------------- MODULE FdcanRxProofs ---------------------------
(***************************************************************************)
(* For every ring, every FIFO and every number of frames: the interrupt    *)
(* and the main loop share the ring buffer without harm, and what the one  *)
(* accepts the other delivers, once and in order.                          *)
(***************************************************************************)
EXTENDS FdcanRx, SequenceTheorems, TLAPS

-----------------------------------------------------------------------------
(* The ring buffer alone, with a user that does not overfill it.           *)

(* A sum at most one turn ahead is brought back by one subtraction.        *)
LEMMA OneTurn ==
    \A i \in 0 .. MaxSize - 1, n \in 0 .. MaxSize :
        Ahead(i, n) = IF i + n < MaxSize THEN i + n ELSE i + n - MaxSize
BY MaxSizeAssumption, SMT DEF Ahead

LEMMA NextSlotOneTurn ==
    \A i \in 0 .. MaxSize - 1 :
        NextSlot(i) = IF i + 1 < MaxSize THEN i + 1 ELSE 0
BY MaxSizeAssumption, SMT DEF NextSlot

(***************************************************************************)
(* Arithmetic of the slots: what the proofs below need, so that no step    *)
(* of theirs has to look at a remainder.                                   *)
(***************************************************************************)
LEMMA AheadArithmetic ==
    ASSUME NEW i \in Slot
    PROVE  /\ Ahead(i, 0) = i
           /\ NextSlot(i) \in Slot
           /\ \A n \in 0 .. MaxSize : Ahead(i, n) \in Slot
           /\ \A n \in 0 .. MaxSize - 1 :
                  /\ NextSlot(Ahead(i, n)) = Ahead(i, n + 1)
                  /\ Ahead(NextSlot(i), n) = Ahead(i, n + 1)
           /\ \A m, n \in 0 .. MaxSize - 1 : m # n => Ahead(i, m) # Ahead(i, n)
<1> USE MaxSizeAssumption DEF Slot
<1>1. \A n \in 0 .. MaxSize :
         Ahead(i, n) = IF i + n < MaxSize THEN i + n ELSE i + n - MaxSize
  BY OneTurn
<1>2. NextSlot(i) = IF i + 1 < MaxSize THEN i + 1 ELSE 0
  BY NextSlotOneTurn
<1>3. NextSlot(i) \in 0 .. MaxSize - 1
  BY <1>2
<1>4. \A n \in 0 .. MaxSize : Ahead(i, n) \in 0 .. MaxSize - 1
  BY <1>1
<1>5. ASSUME NEW n \in 0 .. MaxSize - 1
      PROVE  /\ NextSlot(Ahead(i, n)) = Ahead(i, n + 1)
             /\ Ahead(NextSlot(i), n) = Ahead(i, n + 1)
  <2>1. n \in 0 .. MaxSize /\ n + 1 \in 0 .. MaxSize
    OBVIOUS
  <2>2. NextSlot(Ahead(i, n)) = IF Ahead(i, n) + 1 < MaxSize THEN Ahead(i, n) + 1 ELSE 0
    BY <1>4, <2>1, NextSlotOneTurn
  <2>3. Ahead(NextSlot(i), n) = IF NextSlot(i) + n < MaxSize
                                  THEN NextSlot(i) + n ELSE NextSlot(i) + n - MaxSize
    BY <1>3, <2>1, OneTurn
  <2> QED BY <1>1, <1>2, <2>1, <2>2, <2>3
<1>6. \A m, n \in 0 .. MaxSize - 1 : m # n => Ahead(i, m) # Ahead(i, n)
  BY <1>1
<1>7. Ahead(i, 0) = i
  BY <1>1
<1> QED BY <1>3, <1>4, <1>5, <1>6, <1>7

-----------------------------------------------------------------------------
IInv == TypeOK /\ IndicesAgree

LEMMA InitIInv == Init => IInv
<1>1. 0 \in Slot
  BY MaxSizeAssumption DEF Slot
<1> QED BY <1>1, MaxSizeAssumption, AheadArithmetic
        DEF Init, RingInit, IInv, TypeOK, IndicesAgree

(* What the two methods do to the members in a state of IInv.              *)
LEMMA PushEffect ==
    ASSUME IInv, NEW e \in Element, Push(e), size' <= MaxSize
    PROVE  /\ buffer' = [buffer EXCEPT ![tail] = e] /\ tail' = NextSlot(tail)
           /\ size' = size + 1 /\ head' = head /\ out' = out
           /\ size \in 0 .. MaxSize - 1
BY MaxSizeAssumption DEF IInv, TypeOK, Push, RingPush

LEMMA PopEffect ==
    ASSUME IInv, Pop, size > 0
    PROVE  /\ buffer' = buffer /\ tail' = tail
           /\ size' = size - 1 /\ head' = NextSlot(head) /\ out' = buffer[head]
           /\ size' \in 0 .. MaxSize - 1
BY MaxSizeAssumption DEF IInv, TypeOK, IndicesAgree, Pop, RingPop

LEMMA PopEmptyEffect ==
    ASSUME IInv, Pop, ~(size > 0)
    PROVE  /\ UNCHANGED <<buffer, head, tail, size>> /\ out' = buffer[head]
           /\ size = 0
BY DEF IInv, TypeOK, Pop, RingPop

LEMMA NextIInv == IInv /\ [PacedNext]_vars => IInv'
<1> SUFFICES ASSUME IInv, [PacedNext]_vars PROVE IInv'
    OBVIOUS
<1> USE MaxSizeAssumption DEF IInv, TypeOK, IndicesAgree
<1>1. ASSUME NEW e \in Element, Push(e), size' <= MaxSize PROVE IInv'
  <2>1. tail' \in Slot /\ tail' = Ahead(head', size')
    BY <1>1, PushEffect, AheadArithmetic
  <2>2. buffer' \in [Slot -> Element \cup {Blank}]
    BY <1>1, PushEffect
  <2>3. size' \in Nat /\ head' \in Slot /\ out' \in Element \cup {Blank}
    BY <1>1, PushEffect
  <2> QED BY <1>1, <2>1, <2>2, <2>3
<1>2. ASSUME Pop, size > 0 PROVE IInv'
  <2>1. head' \in Slot /\ tail' = Ahead(head', size')
    <3>1. tail = Ahead(head, size' + 1)
      BY <1>2, PopEffect
    <3> QED BY <1>2, <3>1, PopEffect, AheadArithmetic
  <2>2. size' \in Nat /\ size' <= MaxSize
    BY <1>2, PopEffect
  <2> QED BY <1>2, <2>1, <2>2, PopEffect
<1>3. ASSUME Pop, ~(size > 0) PROVE IInv'
  BY <1>3, PopEmptyEffect
<1>4. CASE UNCHANGED vars
  BY <1>4 DEF vars
<1> QED BY <1>1, <1>2, <1>3, <1>4 DEF PacedNext, Next

(***************************************************************************)
(* The three members never leave their ranges: push and pop index the      *)
(* array within its bounds (ring_buffer.hpp:20-39).                        *)
(***************************************************************************)
THEOREM PacedTypeOK == PacedSpec => []TypeOK
<1>1. IInv => TypeOK
  BY DEF IInv
<1> QED BY InitIInv, NextIInv, <1>1, PTL DEF PacedSpec

(***************************************************************************)
(* The count and the two indices of ring_buffer.hpp:20-39 agree as long as *)
(* no push overfills the buffer.                                           *)
(***************************************************************************)
THEOREM PacedIndicesAgree == PacedSpec => []IndicesAgree
<1>1. IInv => IndicesAgree
  BY DEF IInv
<1> QED BY InitIInv, NextIInv, <1>1, PTL DEF PacedSpec

-----------------------------------------------------------------------------
(* The steps of the buffer seen through Contents.                          *)

LEMMA ContentsType ==
    ASSUME IInv
    PROVE  /\ Contents = [i \in 1 .. size |-> buffer[Ahead(head, i - 1)]]
           /\ Contents \in Seq(Element \cup {Blank})
           /\ Len(Contents) = size
<1>1. Held = size
  BY MaxSizeAssumption DEF Held, IInv, TypeOK, IndicesAgree
<1>2. \A i \in 1 .. size : i - 1 \in 0 .. MaxSize
  BY MaxSizeAssumption DEF IInv, TypeOK, IndicesAgree
<1>3. \A i \in 1 .. size : buffer[Ahead(head, i - 1)] \in Element \cup {Blank}
  BY <1>2, AheadArithmetic DEF IInv, TypeOK
<1>4. Contents = [i \in 1 .. size |-> buffer[Ahead(head, i - 1)]]
  BY <1>1 DEF Contents
<1> QED BY <1>3, <1>4 DEF IInv, TypeOK

(* A push that does not overfill the buffer appends.                       *)
LEMMA PushAppends ==
    ASSUME IInv, IInv', NEW e \in Element, Push(e), size' <= MaxSize
    PROVE  Contents' = Append(Contents, e)
<1>1. /\ buffer' = [buffer EXCEPT ![tail] = e] /\ size' = size + 1
      /\ head' = head /\ size \in 0 .. MaxSize - 1
  BY PushEffect
<1>2. tail = Ahead(head, size) /\ tail \in Slot /\ head \in Slot
      /\ buffer \in [Slot -> Element \cup {Blank}]
  BY DEF IInv, TypeOK, IndicesAgree
<1>3. ASSUME NEW i \in 1 .. size
      PROVE  buffer'[Ahead(head, i - 1)] = buffer[Ahead(head, i - 1)]
  <2>1. i - 1 \in 0 .. MaxSize - 1 /\ i - 1 \in 0 .. MaxSize /\ i - 1 # size
    BY <1>1, MaxSizeAssumption
  <2>2. Ahead(head, i - 1) # tail /\ Ahead(head, i - 1) \in Slot
    BY <1>1, <1>2, <2>1, AheadArithmetic
  <2> QED BY <1>1, <1>2, <2>2
<1>4. buffer'[Ahead(head, size)] = e
  BY <1>1, <1>2
<1>5. Contents' = [i \in 1 .. size + 1 |-> buffer'[Ahead(head, i - 1)]]
  <2>1. Held' = size + 1
    BY <1>1, MaxSizeAssumption DEF Held
  <2> QED BY <1>1, <2>1 DEF Contents
<1>6. \A i \in 1 .. size + 1 : Contents'[i] = IF i <= size THEN Contents[i] ELSE e
  <2> SUFFICES ASSUME NEW i \in 1 .. size + 1
               PROVE  Contents'[i] = IF i <= size THEN Contents[i] ELSE e
      OBVIOUS
  <2>1. Contents'[i] = buffer'[Ahead(head, i - 1)]
    BY <1>5
  <2>2. CASE i \in 1 .. size
    BY <1>3, <2>1, <2>2, ContentsType
  <2>3. CASE i = size + 1
    <3>1. i - 1 = size
      BY <1>1, <2>3
    <3> QED BY <1>1, <1>4, <2>1, <2>3, <3>1
  <2> QED BY <1>1, <2>2, <2>3
<1> DEFINE S == Element \cup {Blank}
<1>7. Append(Contents, e) \in Seq(S) /\ Len(Append(Contents, e)) = size + 1
      /\ \A i \in 1 .. size + 1 :
            Append(Contents, e)[i] = IF i <= size THEN Contents[i] ELSE e
  BY <1>1, ContentsType
<1>8. Contents' \in Seq(S) /\ Len(Contents') = size + 1
  <2>1. \A i \in 1 .. size + 1 : Contents'[i] \in S
    BY <1>6, ContentsType
  <2> QED BY <1>1, <1>5, <2>1
<1> HIDE DEF S
<1> QED BY <1>6, <1>7, <1>8, SeqEqual

(* A pop takes the head.                                                   *)
LEMMA PopTakes ==
    ASSUME IInv, IInv', Pop, size > 0
    PROVE  Contents # <<>> /\ out' = Head(Contents) /\ Contents' = Tail(Contents)
<1>1. /\ buffer' = buffer /\ size' = size - 1 /\ head' = NextSlot(head)
      /\ out' = buffer[head] /\ size' \in 0 .. MaxSize - 1
  BY PopEffect
<1>2. size \in Nat /\ head \in Slot /\ size \in 1 .. MaxSize
  BY DEF IInv, TypeOK, IndicesAgree
<1>3. out' = Contents[1]
  <2>1. Contents[1] = buffer[Ahead(head, 0)]
    BY <1>2, ContentsType
  <2> QED BY <1>1, <1>2, <2>1, AheadArithmetic
<1>4. Contents' = [i \in 1 .. size - 1 |-> buffer[Ahead(NextSlot(head), i - 1)]]
  <2>1. Held' = size - 1
    BY <1>1, <1>2, MaxSizeAssumption DEF Held
  <2> QED BY <1>1, <2>1 DEF Contents
<1>5. ASSUME NEW i \in 1 .. size - 1
      PROVE  Contents'[i] = Contents[i + 1]
  <2>1. i - 1 \in 0 .. MaxSize - 1 /\ (i - 1) + 1 = i /\ (i + 1) - 1 = i /\ i + 1 \in 1 .. size
    BY <1>2, MaxSizeAssumption
  <2>2. Ahead(NextSlot(head), i - 1) = Ahead(head, i)
    <3>1. Ahead(NextSlot(head), i - 1) = Ahead(head, (i - 1) + 1)
      BY <1>2, <2>1, AheadArithmetic
    <3> QED BY <2>1, <3>1
  <2>3. Contents[i + 1] = buffer[Ahead(head, i)]
    BY <2>1, ContentsType
  <2> QED BY <1>4, <2>2, <2>3
<1> DEFINE S == Element \cup {Blank}
<1>6. Contents \in Seq(S) /\ Contents # <<>>
  BY <1>2, ContentsType
<1>7. Tail(Contents) \in Seq(S) /\ Len(Tail(Contents)) = size - 1
      /\ \A i \in 1 .. size - 1 : Tail(Contents)[i] = Contents[i + 1]
  <2> HIDE DEF S
  <2> QED BY <1>6, HeadTailProperties, ContentsType
<1>8. Contents' \in Seq(S) /\ Len(Contents') = size - 1
  <2>1. \A i \in 1 .. size - 1 : Contents'[i] \in S
    BY <1>2, <1>5, ContentsType
  <2> QED BY <1>2, <1>4, <2>1
<1>9. Contents' = Tail(Contents)
  <2> HIDE DEF S
  <2> QED BY <1>5, <1>7, <1>8, SeqEqual
<1> QED BY <1>3, <1>6, <1>9

(***************************************************************************)
(* RingBuffer implements the overwriting queue its comment describes       *)
(* (ring_buffer.hpp:19) for a paced user: every initial state is an empty  *)
(* queue and every step puts, takes, or takes nothing.                     *)
(***************************************************************************)
THEOREM PacedIsFifo == PacedSpec => IsOverwritingFifo
<1>1. Init => Fifo!Init
  BY InitIInv, ContentsType, MaxSizeAssumption
     DEF Init, RingInit, Fifo!Init, Contents, Held
<1>2. IInv /\ IInv' /\ [PacedNext]_vars => [Fifo!Next]_<<Contents, out>>
  <2> SUFFICES ASSUME IInv, IInv', [PacedNext]_vars
               PROVE  [Fifo!Next]_<<Contents, out>>
      OBVIOUS
  <2>1. ASSUME NEW e \in Element, Push(e), size' <= MaxSize
        PROVE  Fifo!Next
    <3>1. Len(Contents) < MaxSize
      BY <2>1, PushEffect, ContentsType, MaxSizeAssumption
    <3>2. Fifo!Put(e)
      BY <2>1, <3>1, PushAppends DEF Fifo!Put, Push
    <3> QED BY <3>2 DEF Fifo!Next
  <2>2. ASSUME Pop, size > 0 PROVE Fifo!Next
    BY <2>2, PopTakes DEF Fifo!Next, Fifo!Take
  <2>3. ASSUME Pop, ~(size > 0) PROVE Fifo!Next
    <3>1. UNCHANGED <<head, size, buffer>> /\ out' \in Element \cup {Blank}
      BY <2>3, PopEmptyEffect DEF IInv, TypeOK
    <3>2. Contents' = Contents
      BY <3>1 DEF Contents, Held
    <3>3. Contents = <<>>
      BY <2>3, PopEmptyEffect, ContentsType
    <3> QED BY <3>1, <3>2, <3>3 DEF Fifo!Next, Fifo!TakeNothing
  <2>4. CASE UNCHANGED vars
    BY <2>4 DEF vars, Contents, Held
  <2> QED BY <2>1, <2>2, <2>3, <2>4 DEF PacedNext, Next
<1> QED BY InitIInv, NextIInv, <1>1, <1>2, PTL DEF PacedSpec, IsOverwritingFifo, Fifo!Spec
-----------------------------------------------------------------------------
(* The interrupt and the main loop.                                        *)

ReceiveNext == FrameArrives \/ Isr \/ Main

PacedReceiveNext == PacedArrival \/ Isr \/ Main

(* What the frames in the FIFO and the moves of the callback are.          *)
FifoInv ==
    /\ fifo \in Seq(Element)
    /\ isrLeft \in 0 .. Len(fifo)
    /\ arrived \in 0 .. NumFrames

(* While pop has loaded and not yet stored, the interrupt cannot run, and  *)
(* so what was loaded is still what the members hold.                      *)
MaskInv ==
    /\ pc \in {"load", "store"} => irqMasked
    /\ inIsr => ~irqMasked
    /\ pc = "store" => loaded = [element |-> buffer[head], size |-> size]

SharingInv == FifoInv /\ MaskInv

LEMMA InitSharing == ReceiveInit => SharingInv
BY FdcanRxAssumption DEF ReceiveInit, SharingInv, FifoInv, MaskInv

(* The number of a frame that arrives is one of the elements.              *)
LEMMA ArrivalType ==
    ASSUME FifoInv, FrameArrives
    PROVE  /\ FifoInv'
           /\ Len(fifo') <= Len(fifo) + 1
<1>1. arrived \in Nat /\ arrived + 1 \in 1 .. NumFrames /\ arrived' = arrived + 1
  BY FdcanRxAssumption DEF FifoInv, FrameArrives
<1>2. arrived + 1 \in Element
  BY <1>1, FdcanRxAssumption
<1>3. Append(fifo, arrived + 1) \in Seq(Element) /\ Len(Append(fifo, arrived + 1)) = Len(fifo) + 1
  BY <1>2, AppendProperties DEF FifoInv
<1>4. fifo' = fifo \/ fifo' = Append(fifo, arrived + 1)
  BY DEF FrameArrives
<1>5. fifo' \in Seq(Element) /\ Len(fifo') \in Len(fifo) .. Len(fifo) + 1
  BY <1>3, <1>4 DEF FifoInv
<1>6. isrLeft' = isrLeft /\ arrived' \in 0 .. NumFrames
  BY <1>1 DEF FrameArrives, isr
<1> QED BY <1>5, <1>6 DEF FifoInv

LEMMA MoveType ==
    ASSUME FifoInv, IsrMove
    PROVE  /\ Head(fifo) \in Element
           /\ Len(fifo') = Len(fifo) - 1
           /\ FifoInv'
<1>1. fifo # <<>> /\ Len(fifo) > 0
  BY DEF FifoInv, IsrMove
<1>2. Head(fifo) \in Element /\ Tail(fifo) \in Seq(Element) /\ Len(Tail(fifo)) = Len(fifo) - 1
  BY <1>1, HeadTailProperties DEF FifoInv
<1> QED BY <1>2 DEF FifoInv, IsrMove

LEMMA NextSharing == SharingInv /\ [ReceiveNext]_receiveVars => SharingInv'
<1> SUFFICES ASSUME SharingInv, [ReceiveNext]_receiveVars PROVE SharingInv'
    OBVIOUS
<1> USE DEF SharingInv
<1>1. CASE FrameArrives
  <2>1. MaskInv'
    BY <1>1 DEF MaskInv, FrameArrives, isr, ring, main
  <2> QED BY <1>1, <2>1, ArrivalType
<1>2. CASE IsrEnter
  <2>1. FifoInv'
    BY <1>2 DEF FifoInv, IsrEnter
  <2> QED BY <1>2, <2>1 DEF MaskInv, IsrEnter, ring, main
<1>3. CASE IsrMove
  <2>1. pc' # "store" /\ pc' # "load" /\ UNCHANGED <<pc, irqMasked, inIsr>>
    BY <1>3 DEF MaskInv, IsrMove, main
  <2> QED BY <1>3, <2>1, MoveType DEF MaskInv
<1>4. CASE IsrReturn
  BY <1>4 DEF FifoInv, MaskInv, IsrReturn, hardware, ring, main
<1>5. ASSUME Main PROVE FifoInv'
  BY <1>5 DEF FifoInv, Main, BeginProcess, LoopTest, Receive, PopLoad, PopStore,
              SpinReceivedFrame, hardware, isr
<1>6. CASE BeginProcess
  BY <1>5, <1>6 DEF Main, MaskInv, BeginProcess, At, Goto, isr, ring
<1>7. CASE LoopTest
  BY <1>5, <1>7 DEF Main, MaskInv, LoopTest, At, Goto, isr, ring
<1>8. CASE Receive
  BY <1>5, <1>8 DEF Main, MaskInv, Receive, At, Goto, isr, ring
<1>9. CASE PopLoad
  BY <1>5, <1>9 DEF Main, MaskInv, PopLoad, At, Goto, isr, ring
<1>10. CASE PopStore
  BY <1>5, <1>10 DEF Main, MaskInv, PopStore, At, Goto, isr
<1>11. CASE SpinReceivedFrame
  BY <1>5, <1>11 DEF Main, MaskInv, SpinReceivedFrame, At, Goto, isr, ring
<1>12. CASE UNCHANGED receiveVars
  BY <1>12 DEF FifoInv, MaskInv, receiveVars, hardware, isr, ring, main
<1> QED BY <1>1, <1>2, <1>3, <1>4, <1>6, <1>7, <1>8, <1>9, <1>10, <1>11, <1>12
        DEF ReceiveNext, Isr, Main

-----------------------------------------------------------------------------
(* Which steps are steps of the ring buffer.                               *)

LEMMA OtherSteps ==
    ASSUME FrameArrives \/ IsrEnter \/ IsrReturn \/ BeginProcess \/ LoopTest \/ Receive
           \/ PopLoad \/ SpinReceivedFrame \/ UNCHANGED receiveVars
    PROVE  UNCHANGED vars
BY DEF FrameArrives, IsrEnter, IsrReturn, BeginProcess, LoopTest, Receive, PopLoad,
       SpinReceivedFrame, receiveVars, ring, vars

LEMMA MoveIsPush ==
    ASSUME FifoInv, IsrMove
    PROVE  Push(Head(fifo)) /\ Head(fifo) \in Element
BY MoveType DEF IsrMove, Push

LEMMA StoreIsPop ==
    ASSUME MaskInv, PopStore
    PROVE  Pop
BY DEF MaskInv, PopStore, At, Pop

LEMMA StepIsAtomic ==
    SharingInv /\ [ReceiveNext]_receiveVars => [Next]_vars
BY OtherSteps, MoveIsPush, StoreIsPop
   DEF SharingInv, ReceiveNext, Isr, Main, Next

(***************************************************************************)
(* The interrupt preempts the main loop between any two accesses to        *)
(* ring_buffer (cyphal_transport_can.cpp:101-116 and 169-181), overfull or *)
(* not: the members change as if every push and every pop ran alone.       *)
(***************************************************************************)
THEOREM PreemptionIsHarmless == ReceiveSpec => PushAndPopAreAtomic
<1>1. ReceiveInit => Init
  BY DEF ReceiveInit, Init
<1> QED BY <1>1, InitSharing, NextSharing, StepIsAtomic, PTL
        DEF ReceiveSpec, PushAndPopAreAtomic, Spec, ReceiveNext

-----------------------------------------------------------------------------
(* A main loop that keeps up with the bus is a paced user of the ring.     *)

RoomInv == size \in Nat /\ Len(fifo) + size <= MaxSize

PacedInv == SharingInv /\ RoomInv

LEMMA InitPaced == ReceiveInit => PacedInv
BY InitSharing, MaxSizeAssumption DEF ReceiveInit, PacedInv, RoomInv, RingInit

LEMMA PacedIsReceive == [PacedReceiveNext]_receiveVars => [ReceiveNext]_receiveVars
BY DEF PacedReceiveNext, ReceiveNext, PacedArrival

LEMMA NextRoom == PacedInv /\ [PacedReceiveNext]_receiveVars => RoomInv'
<1> SUFFICES ASSUME PacedInv, [PacedReceiveNext]_receiveVars PROVE RoomInv'
    OBVIOUS
<1> USE DEF PacedInv, SharingInv, RoomInv
<1>1. Len(fifo) \in Nat
  BY DEF FifoInv
<1>2. CASE PacedArrival
  <2>1. size' = size
    BY <1>2 DEF PacedArrival, FrameArrives, ring
  <2>2. Len(fifo') <= Len(fifo) + 1 /\ Len(fifo') \in Nat
    BY <1>2, ArrivalType DEF PacedArrival, FifoInv
  <2> QED BY <1>1, <1>2, <2>1, <2>2, MaxSizeAssumption DEF PacedArrival
<1>3. CASE IsrMove
  <2>1. size' = size + 1
    BY <1>3 DEF IsrMove, RingPush
  <2>2. Len(fifo') = Len(fifo) - 1
    BY <1>3, MoveType
  <2> QED BY <1>1, <2>1, <2>2, MaxSizeAssumption
<1>4. CASE PopStore
  <2>1. fifo' = fifo /\ RingPop(size)
    BY <1>4 DEF MaskInv, PopStore, At, hardware
  <2>2. size' \in Nat /\ size' <= size
    BY <2>1 DEF RingPop
  <2> QED BY <1>1, <2>1, <2>2, MaxSizeAssumption
<1>5. CASE UNCHANGED <<fifo, size>>
  BY <1>5
<1>6. ASSUME \/ IsrEnter \/ IsrReturn \/ BeginProcess \/ LoopTest \/ Receive
             \/ PopLoad \/ SpinReceivedFrame \/ UNCHANGED receiveVars
      PROVE  UNCHANGED <<fifo, size>>
  BY <1>6 DEF IsrEnter, IsrReturn, BeginProcess, LoopTest, Receive, PopLoad,
              SpinReceivedFrame, receiveVars, hardware, ring
<1> QED BY <1>2, <1>3, <1>4, <1>5, <1>6 DEF PacedReceiveNext, Isr, Main

LEMMA NextPaced == PacedInv /\ [PacedReceiveNext]_receiveVars => PacedInv'
BY NextRoom, NextSharing, PacedIsReceive DEF PacedInv

LEMMA StepIsPaced == PacedInv /\ PacedInv' /\ [PacedReceiveNext]_receiveVars => [PacedNext]_vars
<1> SUFFICES ASSUME PacedInv, PacedInv', [PacedReceiveNext]_receiveVars PROVE [PacedNext]_vars
    OBVIOUS
<1>1. [Next]_vars
  BY StepIsAtomic, PacedIsReceive DEF PacedInv
<1>2. size' <= MaxSize
  BY MaxSizeAssumption DEF PacedInv, RoomInv, SharingInv, FifoInv
<1> QED BY <1>1, <1>2 DEF PacedNext

LEMMA ImplementsPaced == PacedReceiveSpec => PacedSpec
<1>1. ReceiveInit => Init
  BY DEF ReceiveInit, Init
<1> QED BY <1>1, InitPaced, NextPaced, StepIsPaced, PTL
        DEF PacedReceiveSpec, PacedSpec, PacedReceiveNext

(* The static ring_buffer of the driver stays within its types, and        *)
(* receive() and the callback index its array within the bounds.           *)
THEOREM SharedTypeOK == PacedReceiveSpec => []TypeOK
BY ImplementsPaced, PacedTypeOK, PTL

(* Its indices and its size, which two contexts update, agree.             *)
THEOREM SharedIndicesAgree == PacedReceiveSpec => []IndicesAgree
BY ImplementsPaced, PacedIndicesAgree, PTL

(***************************************************************************)
(* The static ring_buffer, pushed to by the interrupt and popped by the    *)
(* main loop (cyphal_transport_can.cpp:101-116 and 169-181), is the queue  *)
(* that its comment describes, for a main loop that keeps up with the bus. *)
(***************************************************************************)
THEOREM SharedIsFifo == PacedReceiveSpec => IsOverwritingFifo
BY ImplementsPaced, PacedIsFifo, PTL

-----------------------------------------------------------------------------
(* Where a frame is between its acceptance and its delivery: in the ring,  *)
(* or in the hands of the main loop, which has popped it.                  *)

Pending == IF pc = "accept" THEN <<out>> ELSE <<>>

Frame == Element \cup {Blank}

OrderInv ==
    /\ accepted \in Seq(Frame) /\ delivered \in Seq(Frame)
    /\ accepted = (delivered \o Pending) \o Contents
    /\ pc \in {"load", "store"} => size > 0

FlowInv == PacedInv /\ IInv /\ OrderInv

LEMMA PendingType ==
    ASSUME IInv
    PROVE  Pending \in Seq(Frame) /\ Contents \in Seq(Frame)
<1>1. out \in Frame
  BY DEF IInv, TypeOK, Frame
<1>2. <<out>> \in Seq(Frame) /\ <<>> \in Seq(Frame)
  BY <1>1
<1> QED BY <1>2, ContentsType DEF Pending, Frame

LEMMA InitFlow == ReceiveInit => FlowInv
<1> SUFFICES ASSUME ReceiveInit PROVE FlowInv
    OBVIOUS
<1>1. PacedInv /\ IInv
  BY InitPaced, InitIInv DEF ReceiveInit, Init
<1>2. size = 0 /\ Pending = <<>> /\ accepted = <<>> /\ delivered = <<>> /\ pc = "rest"
  BY DEF ReceiveInit, RingInit, Pending
<1>3. Contents = <<>>
  BY <1>1, <1>2, ContentsType
<1>4. <<>> \in Seq(Frame) /\ (<<>> \o <<>>) \o <<>> = <<>>
  BY EmptySeq, ConcatEmptySeq
<1> QED BY <1>1, <1>2, <1>3, <1>4 DEF FlowInv, OrderInv

(* The ring takes a frame at its end.                                      *)
LEMMA MoveFlows ==
    ASSUME FlowInv, IInv', size' <= MaxSize, IsrMove
    PROVE  OrderInv'
<1>1. Push(Head(fifo)) /\ Head(fifo) \in Element
  BY MoveIsPush DEF FlowInv, PacedInv, SharingInv
<1>2. Contents' = Append(Contents, Head(fifo))
  BY <1>1, PushAppends DEF FlowInv
<1>3. /\ accepted' = Append(accepted, Head(fifo)) /\ delivered' = delivered
      /\ pc' = pc /\ Pending' = Pending /\ size' = size + 1
  BY DEF IsrMove, main, Pending, RingPush
<1> DEFINE x == Head(fifo)
           d == delivered \o Pending
<1>4. x \in Frame /\ Contents \in Seq(Frame) /\ d \in Seq(Frame) /\ size \in Nat
  BY <1>1, PendingType, ConcatProperties DEF FlowInv, OrderInv, Frame, PacedInv, RoomInv
<1>5. accepted = d \o Contents /\ accepted \in Seq(Frame) /\ delivered \in Seq(Frame)
  BY DEF FlowInv, OrderInv
<1>6. Append(d \o Contents, x) = d \o Append(Contents, x)
  <2> HIDE DEF x, d
  <2>1. d \o Contents \in Seq(Frame) /\ <<x>> \in Seq(Frame)
    BY <1>4, ConcatProperties
  <2>2. Append(d \o Contents, x) = (d \o Contents) \o <<x>>
    BY <1>4, <2>1, AppendIsConcat
  <2>3. Append(Contents, x) = Contents \o <<x>>
    BY <1>4, AppendIsConcat
  <2> QED BY <1>4, <2>1, <2>2, <2>3, ConcatAssociative
<1>7. accepted' \in Seq(Frame)
  BY <1>3, <1>4, <1>5, AppendProperties
<1>8. accepted' = d \o Contents'
  BY <1>2, <1>3, <1>5, <1>6
<1>9. accepted' = (delivered' \o Pending') \o Contents' /\ delivered' \in Seq(Frame)
  BY <1>3, <1>5, <1>8
<1>10. pc' \in {"load", "store"} => size' > 0
  BY <1>3, <1>4
<1> QED BY <1>7, <1>9, <1>10 DEF OrderInv

(* The main loop takes a frame from its head.                              *)
LEMMA StoreFlows ==
    ASSUME FlowInv, IInv', PopStore
    PROVE  OrderInv'
<1>1. Pop /\ size > 0 /\ pc = "store"
  BY StoreIsPop DEF FlowInv, PacedInv, SharingInv, OrderInv, PopStore, At
<1>2. Contents # <<>> /\ out' = Head(Contents) /\ Contents' = Tail(Contents)
  BY <1>1, PopTakes DEF FlowInv
<1>3. Pending = <<>> /\ Pending' = <<out'>> /\ pc' = "accept"
  BY <1>1 DEF Pending, PopStore, Goto
<1>4. accepted' = accepted /\ delivered' = delivered
  BY DEF PopStore
<1>5. /\ accepted = (delivered \o <<>>) \o Contents
      /\ accepted \in Seq(Frame) /\ delivered \in Seq(Frame) /\ Contents \in Seq(Frame)
  BY <1>3, PendingType DEF FlowInv, OrderInv
<1>6. Contents = <<Head(Contents)>> \o Tail(Contents)
      /\ <<Head(Contents)>> \in Seq(Frame) /\ Tail(Contents) \in Seq(Frame)
  <2>1. Head(Contents) \in Frame /\ Tail(Contents) \in Seq(Frame)
    BY <1>2, <1>5, HeadTailProperties
  <2>2. Contents = <<Head(Contents)>> \o Tail(Contents)
    <3> DEFINE c == Contents
    <3>1. c \in Seq(Frame) /\ c # <<>>
      BY <1>2, <1>5
    <3> HIDE DEF c
    <3>2. c = <<Head(c)>> \o Tail(c)
      BY <3>1
    <3> QED BY <3>2 DEF c
  <2> QED BY <2>1, <2>2
<1>7. accepted = (delivered \o <<Head(Contents)>>) \o Tail(Contents)
  <2>1. delivered \o <<>> = delivered
    BY <1>5, ConcatEmptySeq
  <2> QED BY <1>5, <1>6, <2>1, ConcatAssociative
<1> QED BY <1>2, <1>3, <1>4, <1>5, <1>7 DEF OrderInv

LEMMA AcceptFlows ==
    ASSUME FlowInv, SpinReceivedFrame
    PROVE  OrderInv'
<1>1. Pending = <<out>> /\ Pending' = <<>> /\ pc' = "loop"
  BY DEF SpinReceivedFrame, At, Goto, Pending
<1>2. accepted' = accepted /\ delivered' = Append(delivered, out) /\ Contents' = Contents
  BY DEF SpinReceivedFrame, ring, Contents, Held, Ahead
<1>3. out \in Frame /\ delivered \in Seq(Frame) /\ accepted \in Seq(Frame)
  BY DEF FlowInv, OrderInv, IInv, TypeOK, Frame
<1>4. delivered' = delivered \o <<out>> /\ delivered' \in Seq(Frame)
  BY <1>2, <1>3, AppendIsConcat, AppendProperties
<1>5. delivered' \o <<>> = delivered'
  BY <1>4, ConcatEmptySeq
<1> QED BY <1>1, <1>2, <1>3, <1>4, <1>5 DEF FlowInv, OrderInv

LEMMA NextFlow == FlowInv /\ [PacedReceiveNext]_receiveVars => FlowInv'
<1> SUFFICES ASSUME FlowInv, [PacedReceiveNext]_receiveVars PROVE FlowInv'
    OBVIOUS
<1>1. PacedInv' /\ IInv'
  BY NextPaced, StepIsPaced, NextIInv DEF FlowInv
<1>2. size' <= MaxSize
  BY <1>1 DEF IInv, IndicesAgree
<1>3. CASE IsrMove
  BY <1>1, <1>2, <1>3, MoveFlows DEF FlowInv
<1>4. CASE PopStore
  BY <1>1, <1>4, StoreFlows DEF FlowInv
<1>5. CASE SpinReceivedFrame
  BY <1>1, <1>5, AcceptFlows DEF FlowInv
<1>6. ASSUME UNCHANGED <<ring, out, accepted, delivered>>,
             pc = "accept" <=> pc' = "accept",
             pc' \in {"load", "store"} => pc \in {"load", "store"} \/ size > 0
      PROVE  FlowInv'
  <2>1. Contents' = Contents /\ Pending' = Pending /\ size' = size
    BY <1>6 DEF ring, Contents, Held, Ahead, Pending
  <2> QED BY <1>1, <1>6, <2>1 DEF FlowInv, OrderInv
<1>7. CASE FrameArrives \/ IsrEnter \/ IsrReturn \/ UNCHANGED receiveVars
  BY <1>6, <1>7 DEF FrameArrives, IsrEnter, IsrReturn, receiveVars, main
<1>8. CASE BeginProcess \/ LoopTest \/ PopLoad
  BY <1>6, <1>8 DEF BeginProcess, LoopTest, PopLoad, At, Goto
<1>9. CASE Receive
  <2>1. pc' = "load" => size > 0
    BY <1>9 DEF Receive, Goto, FlowInv, PacedInv, RoomInv
  <2> QED BY <1>6, <1>9, <2>1 DEF Receive, At, Goto
<1> QED BY <1>3, <1>4, <1>5, <1>7, <1>8, <1>9
        DEF PacedReceiveNext, PacedArrival, Isr, Main

(* What comes first in a sequence is a prefix of it.                       *)
LEMMA FirstPart ==
    ASSUME NEW s \in Seq(Frame), NEW t \in Seq(Frame)
    PROVE  IsPrefix(s, s \o t)
<1>1. /\ s \o t \in Seq(Frame) /\ Len(s \o t) = Len(s) + Len(t)
      /\ Len(s) \in Nat /\ Len(t) \in Nat
  BY ConcatProperties, LenProperties
<1>2. CASE s = <<>>
  <2>1. Len(s) = 0
    BY <1>2
  <2>2. SubSeq(s, 1, 0) = <<>> /\ SubSeq(s \o t, 1, 0) = <<>>
    BY SubSeqEmpty
  <2> QED BY <1>1, <2>1, <2>2 DEF IsPrefix
<1>3. CASE s # <<>>
  <2>1. Len(s) \in 1 .. Len(s) /\ 1 \in 1 .. Len(s)
    BY <1>1, <1>3, EmptySeq
  <2>2. SubSeq(s \o t, 1, Len(s)) = SubSeq(s, 1, Len(s))
    BY <2>1, SubSeqOfConcat1
  <2> QED BY <1>1, <2>2 DEF IsPrefix
<1> QED BY <1>2, <1>3

(***************************************************************************)
(* The main loop gets the frames that the interrupt accepted in the order  *)
(* of their arrival, each once, with none missing in between, whatever the *)
(* sizes and the preemptions (cyphal.cpp:57-66 over the static ring).      *)
(***************************************************************************)
THEOREM FramesInOrder == PacedReceiveSpec => []DeliveredInOrder
<1>1. FlowInv => DeliveredInOrder
  <2> SUFFICES ASSUME FlowInv PROVE DeliveredInOrder
      OBVIOUS
  <2>1. delivered \in Seq(Frame) /\ Pending \in Seq(Frame) /\ Contents \in Seq(Frame)
        /\ accepted = (delivered \o Pending) \o Contents
    BY PendingType DEF FlowInv, OrderInv
  <2>2. Pending \o Contents \in Seq(Frame)
    BY <2>1, ConcatProperties
  <2>3. accepted = delivered \o (Pending \o Contents)
    BY <2>1, ConcatAssociative, SMTT(30)
  <2> QED BY <2>1, <2>2, <2>3, FirstPart DEF DeliveredInOrder
<1> QED BY <1>1, InitFlow, NextFlow, PTL DEF PacedReceiveSpec, PacedReceiveNext
=============================================================================
