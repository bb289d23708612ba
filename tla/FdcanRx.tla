------------------------------ MODULE FdcanRx ------------------------------
(***************************************************************************)
(* The receive path of the FDCAN driver: the peripheral's RX FIFO 0, the   *)
(* interrupt HAL_FDCAN_RxFifo0Callback that moves frames from it into the  *)
(* static ring_buffer, and the main loop that takes them out through       *)
(* CyphalTransportCan::receive in the first phase of Cyphal::process.      *)
(*                                                                         *)
(* The interrupt runs between any two steps of the main loop unless the    *)
(* main loop has masked it, and frames arrive at any time.  pop loads what *)
(* it returns and the size it found, then stores head and size.            *)
(*                                                                         *)
(* The members of ring_buffer, and what its methods do to them, are those  *)
(* of RingBuffer.  An element of it is a frame, which is its number in the *)
(* order of arrival; NumFrames bounds how many arrive.                     *)
(***************************************************************************)
EXTENDS RingBuffer, SequencesExt

CONSTANTS FifoDepth,    \* depth of the RX FIFO of the peripheral
          CountModulo,  \* get_rx_queue_size returns a uint8_t: 256
          NumFrames     \* bound on the frames that arrive

ASSUME FdcanRxAssumption ==
    /\ Element = 1 .. NumFrames /\ Blank = 0
    /\ FifoDepth \in Nat \ {0}
    /\ CountModulo \in Nat /\ CountModulo > MaxSize
    /\ NumFrames \in Nat

VARIABLES
    fifo, newMessage,          \* RX FIFO 0 and its interrupt request
    inIsr, isrLeft,            \* is the callback running, moves it has left
    irqMasked,                 \* between __disable_irq and __enable_irq
    pc, frame_idx,             \* position in process(), its loop counter
    loaded,                    \* what pop has loaded and not yet stored
    arrived,                   \* frames seen on the bus so far
    accepted, delivered        \* history: frames pushed, frames handed over

hardware == <<fifo, newMessage, arrived>>
isr == <<inIsr, isrLeft>>
main == <<pc, frame_idx, loaded, irqMasked>>
receiveVars == <<hardware, isr, ring, main, out, accepted, delivered>>

ReceiveTypeOK ==
    /\ TypeOK
    /\ fifo \in Seq(Element) /\ Len(fifo) <= FifoDepth
    /\ newMessage \in BOOLEAN /\ inIsr \in BOOLEAN /\ irqMasked \in BOOLEAN
    /\ isrLeft \in 0 .. Len(fifo)
    /\ pc \in {"loop", "receive", "load", "store", "accept", "rest"}
    /\ frame_idx \in 0 .. CountModulo
    /\ loaded \in [element : Element \cup {Blank}, size : Nat]
    /\ arrived \in 0 .. NumFrames
    /\ accepted \in Seq(Element)
    /\ delivered \in Seq(Element \cup {Blank})

ReceiveInit ==
    /\ fifo = <<>> /\ newMessage = FALSE /\ arrived = 0
    /\ inIsr = FALSE /\ isrLeft = 0
    /\ RingInit
    /\ pc = "rest" /\ frame_idx = 0 /\ irqMasked = FALSE
    /\ loaded = [element |-> Blank, size |-> 0]
    /\ out = Blank
    /\ accepted = <<>> /\ delivered = <<>>

-----------------------------------------------------------------------------
(* The peripheral.  A frame that finds the FIFO full is lost there.        *)

FrameArrives ==
    /\ arrived < NumFrames
    /\ arrived' = arrived + 1
    /\ IF Len(fifo) < FifoDepth
         THEN fifo' = Append(fifo, arrived + 1) /\ newMessage' = TRUE
         ELSE UNCHANGED <<fifo, newMessage>>
    /\ UNCHANGED <<isr, ring, main, out, accepted, delivered>>

-----------------------------------------------------------------------------
(* HAL_FDCAN_RxFifo0Callback.  The fill level is read once on entry.       *)

IsrEnter ==
    /\ newMessage /\ ~irqMasked /\ ~inIsr
    /\ newMessage' = FALSE
    /\ inIsr' = TRUE
    /\ isrLeft' = Len(fifo)
    /\ UNCHANGED <<fifo, arrived, ring, main, out, accepted, delivered>>

IsrMove ==
    /\ inIsr /\ isrLeft > 0
    /\ RingPush(Head(fifo))
    /\ fifo' = Tail(fifo)
    /\ accepted' = Append(accepted, Head(fifo))
    /\ isrLeft' = isrLeft - 1
    /\ UNCHANGED <<newMessage, arrived, inIsr, main, out, delivered>>

IsrReturn ==
    /\ inIsr /\ isrLeft = 0
    /\ inIsr' = FALSE
    /\ UNCHANGED <<hardware, isrLeft, ring, main, out, accepted, delivered>>

-----------------------------------------------------------------------------
(* Cyphal::process and CyphalTransportCan::receive.                        *)

(* Mutant: a count that wraps too early.                                   *)
get_rx_queue_size_wrapped == size % MaxSize

get_rx_queue_size == size % CountModulo

At(label) == ~inIsr /\ pc = label

Goto(label) == pc' = label

(* process() begins; its later phases do not touch the receive path.       *)
BeginProcess ==
    /\ At("rest") /\ Goto("loop")
    /\ frame_idx' = 0
    /\ UNCHANGED <<hardware, isr, ring, loaded, irqMasked, out, accepted, delivered>>

(* The condition of the loop, evaluated again before every frame.          *)
LoopTest ==
    /\ At("loop")
    /\ Goto(IF frame_idx < get_rx_queue_size THEN "receive" ELSE "rest")
    /\ UNCHANGED <<hardware, isr, ring, frame_idx, loaded, irqMasked, out, accepted, delivered>>

(* Mutant: the interrupt is not masked around pop.                         *)
ReceiveUnmasked ==
    /\ At("receive")
    /\ Goto(IF size = 0 THEN "rest" ELSE "load")
    /\ UNCHANGED <<hardware, isr, ring, frame_idx, loaded, irqMasked, out, accepted, delivered>>

(* receive() returns false on an empty ring, which ends the loop.          *)
Receive ==
    /\ At("receive")
    /\ Goto(IF size = 0 THEN "rest" ELSE "load")
    /\ irqMasked' = (size # 0)
    /\ UNCHANGED <<hardware, isr, ring, frame_idx, loaded, out, accepted, delivered>>

PopLoad ==
    /\ At("load") /\ Goto("store")
    /\ loaded' = [element |-> buffer[head], size |-> size]
    /\ UNCHANGED <<hardware, isr, ring, frame_idx, irqMasked, out, accepted, delivered>>

(* pop stores the members and returns; __enable_irq follows.               *)
PopStore ==
    /\ At("store") /\ Goto("accept")
    /\ RingPop(loaded.size)
    /\ out' = loaded.element
    /\ irqMasked' = FALSE
    /\ UNCHANGED <<hardware, isr, frame_idx, loaded, accepted, delivered>>

(* spinReceivedFrame consumes the frame.                                   *)
SpinReceivedFrame ==
    /\ At("accept") /\ Goto("loop")
    /\ delivered' = Append(delivered, out)
    /\ frame_idx' = frame_idx + 1
    /\ UNCHANGED <<hardware, isr, ring, loaded, irqMasked, out, accepted>>

Isr == IsrEnter \/ IsrMove \/ IsrReturn

Main == \/ BeginProcess \/ LoopTest \/ Receive \/ PopLoad \/ PopStore
        \/ SpinReceivedFrame

(* The interrupt is served, and the firmware calls process() forever.      *)
Fairness == WF_receiveVars(Isr) /\ WF_receiveVars(Main)

ReceiveSpec == ReceiveInit /\ [][FrameArrives \/ Isr \/ Main]_receiveVars /\ Fairness

(***************************************************************************)
(* The main loop keeps up with the bus: at most MaxSize frames are waiting *)
(* in the FIFO and the ring together.                                      *)
(***************************************************************************)
PacedArrival == Len(fifo) + size < MaxSize /\ FrameArrives

PacedReceiveSpec == ReceiveInit /\ [][PacedArrival \/ Isr \/ Main]_receiveVars /\ Fairness

-----------------------------------------------------------------------------
(***************************************************************************)
(* The two contexts never corrupt the buffer they share: whatever the      *)
(* interleaving of the interrupt with the main loop, and overfull or not,  *)
(* the members change as if every push and every pop ran alone, which is   *)
(* what RingBuffer specifies.                                              *)
(***************************************************************************)
PushAndPopAreAtomic == Spec

(***************************************************************************)
(* The main loop gets the frames that the interrupt accepted in the order  *)
(* of their arrival, each once, with none missing in between.              *)
(***************************************************************************)
DeliveredInOrder == IsPrefix(delivered, accepted)

(***************************************************************************)
(* No frame stays behind: process() leaves frames in the ring (its loop    *)
(* bound shrinks while its counter grows) but never the same ones forever. *)
(***************************************************************************)
EveryFrameDelivered ==
    \A n \in 1 .. NumFrames : Len(accepted) >= n ~> Len(delivered) >= n
=============================================================================
