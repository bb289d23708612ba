--------------------------- MODULE TxQueueProofs ---------------------------
(***************************************************************************)
(* For every set of ports, every queue capacity, heap size and number of   *)
(* pushes: the bookkeeping of the TX queue is exact, transfers leave       *)
(* whole, and frames leave in the order of their priority.                 *)
(*                                                                         *)
(* The second part is about the tree that keeps that order, for every      *)
(* finite set of nodes and every assignment of keys: it stays linked and   *)
(* balanced, it answers by the order, and it implements a sorted queue.    *)
(***************************************************************************)
EXTENDS TxQueue, Cavl, FiniteSetTheorems, SequenceTheorems, WellFoundedInduction, TLAPS

-----------------------------------------------------------------------------
(* Remainders with a symbolic divisor, for transfer-IDs that wrap and for  *)
(* transfers that are cut into frames.                                     *)

(* Division with remainder.                                                *)
LEMMA Quotient ==
    ASSUME NEW a \in Int, NEW n \in Int, n > 0
    PROVE  a = n * (a \div n) + (a % n)
BY SMTT(30)

(* The remainder is the only one of its kind.                              *)
LEMMA Remainder ==
    ASSUME NEW n \in Nat \ {0}, NEW q \in Nat, NEW r \in 0 .. n - 1
    PROVE  (n * q + r) % n = r
BY SMT

(* A multiple leaves nothing.                                              *)
LEMMA NoRemainder ==
    ASSUME NEW n \in Nat \ {0}, NEW q \in Nat
    PROVE  (n * q) % n = 0
BY SMT

(* Every number is a multiple and its remainder.                           *)
LEMMA Decompose ==
    ASSUME NEW a \in Nat, NEW n \in Nat \ {0}
    PROVE  \E q \in Nat : a = n * q + (a % n)
<1>1. a = n * (a \div n) + (a % n)
  BY Quotient
<1>2. a \div n \in Nat
  BY SMT
<1> QED BY <1>1, <1>2

(* Numbers after L, when L is a whole number of blocks of n.               *)
LEMMA Blocks ==
    ASSUME NEW L \in Nat, NEW n \in Nat \ {0}, L % n = 0
    PROVE  /\ (L + n) % n = 0
           /\ \A k \in 1 .. n : (L + k - 1) % n = k - 1
           /\ L > 0 => (L - 1) % n = n - 1
<1>1. PICK q \in Nat : L = n * q
  <2>1. PICK q \in Nat : L = n * q + (L % n)
    BY Decompose, Zenon
  <2> QED BY <2>1
<1>2. (L + n) % n = 0
  <2>1. L + n = n * (q + 1) /\ q + 1 \in Nat
    BY <1>1
  <2> QED BY <2>1, NoRemainder
<1>3. ASSUME NEW k \in 1 .. n PROVE (L + k - 1) % n = k - 1
  <2>1. L + k - 1 = n * q + (k - 1) /\ k - 1 \in 0 .. n - 1
    BY <1>1
  <2> QED BY <2>1, Remainder, ZenonT(40)
<1>4. ASSUME L > 0 PROVE (L - 1) % n = n - 1
  <2>1. q - 1 \in Nat
    <3>1. q # 0
      BY <1>1, <1>4
    <3> QED BY <3>1
  <2>2. L - 1 = n * (q - 1) + (n - 1) /\ n - 1 \in 0 .. n - 1
    BY <1>1
  <2> QED BY <2>1, <2>2, Remainder
<1> QED BY <1>2, <1>3, <1>4

(* Cutting a counter to d values after it was cut to a multiple of d.      *)
LEMMA Nested ==
    ASSUME NEW a \in Nat, NEW c \in Nat \ {0}, NEW d \in Nat \ {0}, c % d = 0
    PROVE  (a % c) % d = a % d
<1>1. a % c \in Nat
  BY SMT
<1>2. PICK k \in Nat : c = d * k
  <2>1. PICK k \in Nat : c = d * k + (c % d)
    BY Decompose
  <2> QED BY <2>1
<1>3. PICK q \in Nat : a = c * q + (a % c)
  BY Decompose
<1>4. PICK s \in Nat : a % c = d * s + ((a % c) % d)
  BY <1>1, Decompose
<1> DEFINE r == (a % c) % d
<1>5. r \in 0 .. d - 1
  BY <1>1, SMT
<1>6. a = d * (k * q + s) + r
  <2> HIDE DEF r
  <2>1. a = (d * k) * q + (d * s + r)
    BY <1>2, <1>3, <1>4 DEF r
  <2> QED BY <2>1, <1>5
<1>7. k * q + s \in Nat
  BY SMT
<1> HIDE DEF r
<1>8. a % d = r
  BY <1>5, <1>6, <1>7, Remainder
<1> QED BY <1>8 DEF r

(* A counter that wraps at every step counts like one that wraps once.     *)
LEMMA Counting ==
    ASSUME NEW a \in Nat, NEW c \in Nat \ {0}
    PROVE  ((a % c) + 1) % c = (a + 1) % c
<1> DEFINE r == a % c
<1>1. r \in 0 .. c - 1
  BY SMT
<1>2. PICK q \in Nat : a = c * q + r
  BY Decompose
<1> HIDE DEF r
<1>3. CASE r + 1 < c
  <2>1. r + 1 \in 0 .. c - 1 /\ a + 1 = c * q + (r + 1) /\ r + 1 = c * 0 + (r + 1)
    BY <1>1, <1>2, <1>3
  <2>2. (a + 1) % c = r + 1
    BY <2>1, Remainder
  <2>3. (r + 1) % c = r + 1
    BY <2>1, Remainder
  <2> QED BY <2>2, <2>3 DEF r
<1>4. CASE r + 1 = c
  <2>1. a + 1 = c * (q + 1) /\ q + 1 \in Nat /\ r + 1 = c * 1
    BY <1>1, <1>2, <1>4
  <2>2. (a + 1) % c = 0
    BY <2>1, NoRemainder
  <2>3. (r + 1) % c = 0
    BY <2>1, NoRemainder
  <2> QED BY <2>2, <2>3 DEF r
<1> QED BY <1>1, <1>3, <1>4
-----------------------------------------------------------------------------

(* The bookkeeping: what the size and the heap count, and nothing about    *)
(* what the frames are.                                                    *)
IInv == TypeOK /\ SizeCountsFrames /\ HeapIsConserved

-----------------------------------------------------------------------------
(* What a push allocates, frees and queues.                                *)

(* The chain is as long as the transfer and the heap allow.                *)
LEMMA ChainLengths ==
    ASSUME NEW p \in Port, TypeOK
    PROVE  /\ FramesOf[p] \in Nat \ {0}
           /\ Complete(p) =>
                 /\ queueSize + FramesOf[p] <= Capacity
                 /\ FramesOf[p] <= heapFree
                 /\ heapFree - ChainLength(p) + Released(p) = heapFree - FramesOf[p]
           /\ ~Complete(p) => heapFree - ChainLength(p) + Released(p) = heapFree
<1>1. FramesOf[p] \in Nat \ {0}
  BY TxQueueAssumption
<1>2. heapFree \in Nat /\ queueSize \in Nat /\ Capacity \in Nat
  BY TxQueueAssumption DEF TypeOK
<1> QED
  BY <1>1, <1>2 DEF Complete, Released, ChainLength, FitsQueue, Least

(* The low bits of a number are a transfer-ID.                             *)
LEMMA LowBits ==
    \A tid \in Nat : tid % TidModulo \in 0 .. TidModulo - 1
BY TxQueueAssumption, SMT

(* A chain is a sequence of frames, numbered from 1.                       *)
LEMMA ChainFrames ==
    ASSUME NEW p \in Port, NEW tid \in Nat, TypeOK, pushed[p] < MaxPushes
    PROVE  /\ Chain(p, tid) \in Seq(Frame)
           /\ Len(Chain(p, tid)) = FramesOf[p]
           /\ \A i \in 1 .. FramesOf[p] :
                 Chain(p, tid)[i] = [port |-> p, tid |-> tid % TidModulo,
                                     nth |-> pushed[p] + 1, idx |-> i]
<1>1. FramesOf[p] \in Nat
  BY TxQueueAssumption
<1>2. tid % TidModulo \in 0 .. TidModulo - 1
  BY LowBits
<1>3. pushed[p] \in 0 .. MaxPushes /\ MaxPushes \in Nat
  BY TxQueueAssumption DEF TypeOK
<1>4. pushed[p] + 1 \in 1 .. MaxPushes
  BY <1>3
<1>5. \A i \in 1 .. FramesOf[p] :
         [port |-> p, tid |-> tid % TidModulo, nth |-> pushed[p] + 1, idx |-> i] \in Frame
  BY <1>2, <1>4 DEF Frame
<1>6. Chain(p, tid) \in [1 .. FramesOf[p] -> Frame]
  BY <1>5 DEF Chain
<1> QED
  BY <1>1, <1>6 DEF Chain

(* The places after the first m are as many as were added.                 *)
LEMMA IntervalAfter ==
    ASSUME NEW a \in Nat, NEW n \in Nat
    PROVE  IsFiniteSet(a + 1 .. a + n) /\ Cardinality(a + 1 .. a + n) = n
<1> DEFINE lo == a + 1
           hi == a + n
<1>1. lo \in Int /\ hi \in Int /\ hi - lo + 1 = n /\ (lo > hi <=> n = 0)
  OBVIOUS
<1> SUFFICES IsFiniteSet(lo .. hi) /\ Cardinality(lo .. hi) = n
  OBVIOUS
<1> HIDE DEF lo, hi
<1>2. IsFiniteSet(lo .. hi)
  BY <1>1, FS_Interval
<1>3. Cardinality(lo .. hi) = IF lo > hi THEN 0 ELSE hi - lo + 1
  BY <1>1, FS_Interval
<1> QED BY <1>1, <1>2, <1>3

(* The places of the frames of a chain appended to the queue of p.         *)
LEMMA QueuedAppend ==
    ASSUME NEW p \in Port, NEW s \in Seq(Frame),
           txQueue \in [Port -> Seq(Frame)], SizeCountsFrames,
           txQueue' = [txQueue EXCEPT ![p] = @ \o s]
    PROVE  /\ IsFiniteSet(Queued')
           /\ Cardinality(Queued') = Cardinality(Queued) + Len(s)
<1> DEFINE L == Len(txQueue[p])
           New == {p} \X (L + 1 .. L + Len(s))
<1>1. txQueue[p] \in Seq(Frame) /\ L \in Nat /\ Len(s) \in Nat
  OBVIOUS
<1>2. \A q \in Port : Len(txQueue'[q]) = IF q = p THEN L + Len(s) ELSE Len(txQueue[q])
  BY <1>1
<1>3. Queued' = Queued \cup New
  BY <1>1, <1>2 DEF Queued
<1>4. Queued \cap New = {}
  BY <1>1 DEF Queued
<1>5. IsFiniteSet(L + 1 .. L + Len(s)) /\ Cardinality(L + 1 .. L + Len(s)) = Len(s)
  BY <1>1, IntervalAfter
<1>6. IsFiniteSet({p}) /\ Cardinality({p}) = 1
  BY FS_Singleton
<1>7. IsFiniteSet(New) /\ Cardinality(New) = Cardinality({p}) * Cardinality(L + 1 .. L + Len(s))
  BY <1>5, <1>6, FS_Product
<1>8. Cardinality(New) = Len(s)
  BY <1>1, <1>5, <1>6, <1>7
<1>9. IsFiniteSet(Queued) /\ Cardinality(Queued) \in Nat
  BY FS_CardinalityType DEF SizeCountsFrames
<1>10. /\ IsFiniteSet(Queued \cup New)
       /\ Cardinality(Queued \cup New)
            = Cardinality(Queued) + Cardinality(New) - Cardinality(Queued \cap New)
  BY <1>7, <1>9, FS_Union
<1> HIDE DEF New, L
<1>11. Cardinality(Queued \cap New) = 0
  BY <1>4, FS_EmptySet
<1> QED
  BY <1>1, <1>3, <1>8, <1>9, <1>10, <1>11

(* Taking the first frame of the queue of p leaves its last place empty.   *)
LEMMA QueuedTail ==
    ASSUME NEW p \in Port,
           txQueue \in [Port -> Seq(Frame)], txQueue[p] # <<>>, SizeCountsFrames,
           txQueue' = [txQueue EXCEPT ![p] = Tail(@)]
    PROVE  /\ IsFiniteSet(Queued')
           /\ Cardinality(Queued') = Cardinality(Queued) - 1
           /\ Cardinality(Queued) \in Nat \ {0}
<1> DEFINE L == Len(txQueue[p])
<1>1. txQueue[p] \in Seq(Frame) /\ L \in Nat \ {0}
  OBVIOUS
<1>2. \A q \in Port : Len(txQueue'[q]) = IF q = p THEN L - 1 ELSE Len(txQueue[q])
  BY <1>1
<1>3. Queued' = Queued \ {<<p, L>>}
  BY <1>1, <1>2 DEF Queued
<1>4. <<p, L>> \in Queued
  BY <1>1 DEF Queued
<1>5. IsFiniteSet(Queued) /\ Cardinality(Queued) \in Nat
  BY FS_CardinalityType DEF SizeCountsFrames
<1>6. Cardinality(Queued) # 0
  BY <1>4, <1>5, FS_EmptySet
<1> QED
  BY <1>3, <1>4, <1>5, <1>6, FS_RemoveElement
-----------------------------------------------------------------------------
(* The steps of the node.                                                  *)

(* A push accounts for every frame it allocated, whether it could queue    *)
(* the transfer or had to give it up.                                      *)
LEMMA PushPreservesIInv ==
    ASSUME IInv, NEW p \in Port, NEW tid \in Nat, Called(p), push(p, tid)
    PROVE  IInv'
<1> USE DEF IInv, Called, push, canardTxPush
<1> DEFINE n == FramesOf[p]
<1>1. TypeOK /\ p \in Port /\ pushed[p] < MaxPushes
  OBVIOUS
<1>2. /\ n \in Nat \ {0}
      /\ Complete(p) => /\ queueSize + n <= Capacity
                        /\ n <= heapFree /\ heapFree' = heapFree - n
      /\ ~Complete(p) => heapFree' = heapFree
  BY <1>1, ChainLengths
<1>3. /\ Chain(p, tid) \in Seq(Frame)
      /\ Len(Chain(p, tid)) = n
  BY <1>1, ChainFrames
<1>4. transfer_id' \in [Port -> 0 .. CounterModulo - 1]
  <2>1. (tid + 1) % CounterModulo \in 0 .. CounterModulo - 1
    BY TxQueueAssumption
  <2> QED BY <2>1 DEF TypeOK
<1>5. pushed' \in [Port -> 0 .. MaxPushes]
  BY TxQueueAssumption, SMTT(30) DEF TypeOK
<1>6. CASE Complete(p)
  <2>1. txQueue' = [txQueue EXCEPT ![p] = @ \o Chain(p, tid)] /\ queueSize' = queueSize + n
    BY <1>6
  <2>2. txQueue' \in [Port -> Seq(Frame)]
    BY <1>3, <2>1 DEF TypeOK
  <2>3. IsFiniteSet(Queued') /\ Cardinality(Queued') = Cardinality(Queued) + n
    BY <1>3, <2>1, QueuedAppend DEF TypeOK
  <2>4. SizeCountsFrames'
    BY <2>1, <2>3 DEF SizeCountsFrames
  <2>5. /\ queueSize' \in 0 .. Capacity /\ heapFree' \in 0 .. HeapBlocks
        /\ heapFree' + rxHeld' + queueSize' = HeapBlocks
    <3>1. /\ queueSize' = queueSize + n /\ heapFree' = heapFree - n /\ rxHeld' = rxHeld
          /\ queueSize + n <= Capacity /\ n <= heapFree
      BY <1>2, <1>6, <2>1
    <3>2. /\ queueSize \in 0 .. Capacity /\ heapFree \in 0 .. HeapBlocks
          /\ rxHeld \in 0 .. HeapBlocks /\ heapFree + rxHeld + queueSize = HeapBlocks
      BY DEF TypeOK, HeapIsConserved
    <3> HIDE DEF IInv, Called, push, canardTxPush, n
    <3> QED BY <1>2, <3>1, <3>2, TxQueueAssumption
  <2>6. rxHeld' \in 0 .. HeapBlocks /\ spinning' \in BOOLEAN /\ sent' \in [Port -> Seq(Frame)]
    BY DEF TypeOK
  <2> QED
    BY <1>4, <1>5, <2>2, <2>4, <2>5, <2>6, Zenon DEF TypeOK, HeapIsConserved
<1>7. CASE ~Complete(p)
  <2>1. UNCHANGED <<txQueue, queueSize, heapFree, rxHeld, spinning, sent>>
    BY <1>2, <1>7
  <2>2. SizeCountsFrames' /\ HeapIsConserved'
    BY <2>1 DEF SizeCountsFrames, Queued, HeapIsConserved
  <2> QED
    BY <1>4, <1>5, <2>1, <2>2 DEF TypeOK
<1> QED
  BY <1>6, <1>7

(* The frame that leaves is counted off the queue and given to the heap.   *)
LEMMA TransmitPreservesIInv ==
    ASSUME IInv, NEW p \in Port, TransmitAccepted(p)
    PROVE  IInv'
<1> USE DEF IInv, TransmitAccepted, canardTxPeek
<1>1. /\ txQueue[p] \in Seq(Frame) /\ txQueue[p] # <<>>
      /\ Head(txQueue[p]) \in Frame /\ Tail(txQueue[p]) \in Seq(Frame)
  BY DEF TypeOK
<1>2. txQueue' \in [Port -> Seq(Frame)] /\ sent' \in [Port -> Seq(Frame)]
  BY <1>1 DEF TypeOK
<1>3. /\ IsFiniteSet(Queued')
      /\ Cardinality(Queued') = Cardinality(Queued) - 1
      /\ Cardinality(Queued) \in Nat \ {0}
  BY <1>1, QueuedTail DEF TypeOK
<1>4. SizeCountsFrames' /\ queueSize > 0
  BY <1>3 DEF SizeCountsFrames
<1>5. /\ queueSize' \in 0 .. Capacity /\ heapFree' \in 0 .. HeapBlocks
      /\ HeapIsConserved'
  BY <1>4, TxQueueAssumption DEF TypeOK, HeapIsConserved
<1> QED
  BY <1>2, <1>4, <1>5 DEF TypeOK

(* The empty queue.                                                        *)
LEMMA InitEstablishesIInv == Init => IInv
<1> SUFFICES ASSUME Init PROVE IInv
  OBVIOUS
<1>1. TypeOK
  <2>1. 0 \in 0 .. CounterModulo - 1 /\ 0 \in 0 .. MaxPushes
        /\ 0 \in 0 .. Capacity /\ 0 \in 0 .. HeapBlocks /\ HeapBlocks \in 0 .. HeapBlocks
    BY TxQueueAssumption
  <2>2. <<>> \in Seq(Frame)
    OBVIOUS
  <2> QED BY <2>1, <2>2 DEF Init, TypeOK
<1>2. Queued = {}
  BY DEF Init, Queued
<1>3. SizeCountsFrames
  BY <1>2, FS_EmptySet DEF Init, SizeCountsFrames
<1>4. HeapIsConserved
  BY TxQueueAssumption DEF Init, HeapIsConserved
<1> QED BY <1>1, <1>3, <1>4 DEF IInv

(* The invariant is inductive: one case per action.                        *)
LEMMA StepPreservesIInv == IInv /\ [Next]_vars => IInv'
<1> SUFFICES ASSUME IInv, [Next]_vars PROVE IInv'
  OBVIOUS
<1>1. ASSUME NEW p \in Subject, Publish(p) PROVE IInv'
  <2>1. p \in Port /\ transfer_id[p] \in Nat
    BY TxQueueAssumption DEF Port, IInv, TypeOK
  <2> QED BY <1>1, <2>1, PushPreservesIInv DEF Publish
<1>2. ASSUME NEW p \in Response, NEW tid \in 0 .. TidModulo - 1, Respond(p, tid) PROVE IInv'
  <2>1. p \in Port /\ tid \in Nat
    BY DEF Port
  <2> QED BY <1>2, <2>1, PushPreservesIInv DEF Respond
<1>3. CASE RxAllocate
  BY <1>3, TxQueueAssumption
  DEF RxAllocate, IInv, TypeOK, SizeCountsFrames, Queued, HeapIsConserved
<1>4. CASE RxFree
  BY <1>4, TxQueueAssumption
  DEF RxFree, IInv, TypeOK, SizeCountsFrames, Queued, HeapIsConserved
<1>5. CASE SpinTransmit
  BY <1>5 DEF SpinTransmit, IInv, TypeOK, SizeCountsFrames, Queued, HeapIsConserved
<1>6. CASE QueueEmpty
  BY <1>6 DEF QueueEmpty, IInv, TypeOK, SizeCountsFrames, Queued, HeapIsConserved
<1>7. ASSUME NEW p \in Port, TransmitAccepted(p) PROVE IInv'
  BY <1>7, TransmitPreservesIInv
<1>8. ASSUME NEW p \in Port, TransmitRejected(p) PROVE IInv'
  BY <1>8 DEF TransmitRejected, IInv, TypeOK, SizeCountsFrames, Queued, HeapIsConserved
<1>9. CASE UNCHANGED vars
  BY <1>9 DEF vars, IInv, TypeOK, SizeCountsFrames, Queued, HeapIsConserved
<1> QED
  BY <1>1, <1>2, <1>3, <1>4, <1>5, <1>6, <1>7, <1>8, <1>9 DEF Next

(* Hence it holds throughout.                                              *)
THEOREM IInvHolds == Spec => []IInv
BY InitEstablishesIInv, StepPreservesIInv, PTL DEF Spec

(***************************************************************************)
(* The state of the queue stays within its types: que->size within the     *)
(* capacity given to canardTxInit and the heap within its bounds.          *)
(***************************************************************************)
THEOREM TypeCorrect == Spec => []TypeOK
BY IInvHolds, PTL DEF IInv

(***************************************************************************)
(* que->size, which canardTxPush compares with the capacity, is the number *)
(* of the frames in the tree after any sequence of operations.             *)
(***************************************************************************)
THEOREM SizeIsExact == Spec => []SizeCountsFrames
BY IInvHolds, PTL DEF IInv

(***************************************************************************)
(* Pushes that fail half-way, transmissions and receptions neither leak a  *)
(* fragment of the heap nor free one twice.                                *)
(***************************************************************************)
THEOREM HeapConserved == Spec => []HeapIsConserved
BY IInvHolds, PTL DEF IInv

-----------------------------------------------------------------------------
(* What leaves on a port.  Only a push that succeeds changes it.           *)

(* The first element of a sequence put behind another one.                 *)
LEMMA HeadMoved ==
    ASSUME NEW S, NEW s \in Seq(S), NEW t \in Seq(S), t # <<>>
    PROVE  Append(s, Head(t)) \o Tail(t) = s \o t
<1>1. Head(t) \in S /\ Tail(t) \in Seq(S) /\ t = <<Head(t)>> \o Tail(t)
  BY HeadTailProperties
<1>2. Append(s, Head(t)) = s \o <<Head(t)>>
  BY <1>1, AppendIsConcat
<1>3. <<Head(t)>> \in Seq(S)
  BY <1>1
<1>4. (s \o <<Head(t)>>) \o Tail(t) = s \o (<<Head(t)>> \o Tail(t))
  BY <1>1, <1>3, ConcatAssociative
<1> QED BY <1>1, <1>2, <1>4, Zenon

(* Handing the first frame over moves the border between sent and queued.  *)
LEMMA OutgoingIsMoved ==
    ASSUME IInv, NEW p \in Port, TransmitAccepted(p), NEW r \in Port
    PROVE  Outgoing(r)' = Outgoing(r)
<1> USE DEF IInv, TypeOK, TransmitAccepted, canardTxPeek, Outgoing
<1>1. CASE r # p
  BY <1>1
<1>2. CASE r = p
  <2>1. sent[p] \in Seq(Frame) /\ txQueue[p] \in Seq(Frame) /\ txQueue[p] # <<>>
    OBVIOUS
  <2>2. sent'[p] = Append(sent[p], Head(txQueue[p])) /\ txQueue'[p] = Tail(txQueue[p])
    BY <2>1
  <2>3. Append(sent[p], Head(txQueue[p])) \o Tail(txQueue[p]) = sent[p] \o txQueue[p]
    BY <2>1, HeadMoved
  <2> QED BY <1>2, <2>2, <2>3
<1> QED BY <1>1, <1>2

(* Sequences put together, in three cuts.                                  *)
LEMMA Cuts ==
    ASSUME NEW S, NEW s \in Seq(S), NEW t \in Seq(S), NEW u \in Seq(S)
    PROVE  (s \o t) \o u = s \o (t \o u)
OBVIOUS

(* Where the elements of two sequences put together are.                   *)
LEMMA Joined ==
    ASSUME NEW S, NEW s \in Seq(S), NEW t \in Seq(S)
    PROVE  /\ s \o t \in Seq(S) /\ Len(s \o t) = Len(s) + Len(t)
           /\ \A i \in 1 .. Len(s) : (s \o t)[i] = s[i]
           /\ \A k \in 1 .. Len(t) : (s \o t)[Len(s) + k] = t[k]
OBVIOUS

(* A push adds its chain to what leaves on its port, or nothing.           *)
LEMMA OutgoingOfPush ==
    ASSUME IInv, NEW p \in Port, NEW tid \in Nat, Called(p), push(p, tid), NEW r \in Port
    PROVE  Outgoing(r)' = IF r = p /\ Complete(p) THEN Outgoing(p) \o Chain(p, tid)
                                                 ELSE Outgoing(r)
<1>1. Chain(p, tid) \in Seq(Frame)
  BY ChainFrames DEF IInv, Called
<1>2. sent[p] \in Seq(Frame) /\ txQueue[p] \in Seq(Frame)
  BY DEF IInv, TypeOK
<1>3. sent' = sent
  BY DEF Called
<1>4. CASE Complete(p)
  <2>1. txQueue' = [txQueue EXCEPT ![p] = @ \o Chain(p, tid)]
    BY <1>4 DEF push, canardTxPush
  <2>2. (sent[p] \o txQueue[p]) \o Chain(p, tid) = sent[p] \o (txQueue[p] \o Chain(p, tid))
    <3> DEFINE a == sent[p]
               b == txQueue[p]
               c == Chain(p, tid)
    <3> HIDE DEF a, b, c
    <3>1. a \in Seq(Frame) /\ b \in Seq(Frame) /\ c \in Seq(Frame)
      BY <1>1, <1>2 DEF a, b, c
    <3>2. (a \o b) \o c = a \o (b \o c)
      BY <3>1, Cuts, SMTT(30)
    <3> QED BY <3>2 DEF a, b, c
  <2>3. txQueue'[r] = IF r = p THEN txQueue[p] \o Chain(p, tid) ELSE txQueue[r]
    BY <2>1 DEF IInv, TypeOK
  <2> QED BY <1>3, <1>4, <2>2, <2>3 DEF Outgoing
<1>5. CASE ~Complete(p)
  BY <1>3, <1>5 DEF push, canardTxPush, Outgoing
<1> QED BY <1>4, <1>5

-----------------------------------------------------------------------------
(* Transfers leave whole.  The frames of a port are a whole number of      *)
(* transfers at all times, and none is of a later push than the last one.  *)
WholeSequence(out, n, last) ==
    /\ out \in Seq(Frame)
    /\ Len(out) % n = 0
    /\ \A i \in 1 .. Len(out) :
          /\ out[i].idx = ((i - 1) % n) + 1
          /\ out[i].nth <= last
          /\ i > 1 => IF out[i].idx = 1 THEN out[i].nth > out[i - 1].nth
                                        ELSE out[i].nth = out[i - 1].nth

WholeInv == \A p \in Port : WholeSequence(Outgoing(p), FramesOf[p], pushed[p])

(* Reading the fields of a frame.                                          *)
LEMMA FieldsOfFrame ==
    ASSUME NEW f, NEW p, NEW t, NEW n, NEW k,
           f = [port |-> p, tid |-> t, nth |-> n, idx |-> k]
    PROVE  f.idx = k /\ f.nth = n /\ f.tid = t
OBVIOUS

(* Appending the chain of the next push.                                   *)
LEMMA WholeSequenceGrows ==
    ASSUME TypeOK, NEW p \in Port, NEW tid \in Nat, pushed[p] < MaxPushes,
           NEW out, WholeSequence(out, FramesOf[p], pushed[p])
    PROVE  WholeSequence(out \o Chain(p, tid), FramesOf[p], pushed[p] + 1)
<1> DEFINE n == FramesOf[p]
           c == Chain(p, tid)
           L == Len(out)
           new == out \o c
<1>1. n \in Nat \ {0} /\ pushed[p] \in Nat
  BY TxQueueAssumption DEF TypeOK
<1>2. /\ out \in Seq(Frame) /\ L \in Nat /\ L % n = 0
      /\ \A i \in 1 .. L : out[i].nth \in Nat
  <2>1. out \in Seq(Frame) /\ L \in Nat /\ L % n = 0
    BY DEF WholeSequence
  <2>2. \A i \in 1 .. L : out[i] \in Frame
    BY <2>1
  <2>3. \A f \in Frame : f.nth \in Nat
    BY TxQueueAssumption DEF Frame
  <2> QED BY <2>1, <2>2, <2>3
<1>3. /\ c \in Seq(Frame) /\ Len(c) = n
      /\ \A k \in 1 .. n : c[k].idx = k /\ c[k].nth = pushed[p] + 1
  <2>1. /\ c \in Seq(Frame) /\ Len(c) = n
        /\ \A k \in 1 .. n : c[k] = [port |-> p, tid |-> tid % TidModulo,
                                     nth |-> pushed[p] + 1, idx |-> k]
    BY ChainFrames
  <2> HIDE DEF c
  <2>2. ASSUME NEW k \in 1 .. n
        PROVE  c[k].idx = k /\ c[k].nth = pushed[p] + 1
    <3>1. c[k] = [port |-> p, tid |-> tid % TidModulo, nth |-> pushed[p] + 1, idx |-> k]
      BY <2>1
    <3> QED BY <3>1, FieldsOfFrame
  <2> QED BY <2>1, <2>2
<1>4. /\ new \in Seq(Frame) /\ Len(new) = L + n
      /\ \A i \in 1 .. L : new[i] = out[i]
      /\ \A k \in 1 .. n : new[L + k] = c[k]
  <2>1. out \in Seq(Frame) /\ c \in Seq(Frame) /\ Len(c) = n
    BY <1>2, <1>3
  <2> HIDE DEF c, n
  <2>2. /\ out \o c \in Seq(Frame) /\ Len(out \o c) = Len(out) + Len(c)
        /\ \A i \in 1 .. Len(out) : (out \o c)[i] = out[i]
        /\ \A k \in 1 .. Len(c) : (out \o c)[Len(out) + k] = c[k]
    <3>1. ASSUME NEW s \in Seq(Frame), NEW t \in Seq(Frame)
          PROVE  /\ s \o t \in Seq(Frame) /\ Len(s \o t) = Len(s) + Len(t)
                 /\ \A i \in 1 .. Len(s) : (s \o t)[i] = s[i]
                 /\ \A k \in 1 .. Len(t) : (s \o t)[Len(s) + k] = t[k]
      BY Joined
    <3> QED BY <2>1, <3>1, Zenon
  <2> QED BY <2>1, <2>2
<1>5. /\ (L + n) % n = 0
      /\ \A k \in 1 .. n : (L + k - 1) % n = k - 1
  BY <1>1, <1>2, Blocks
<1>6. \A i \in 1 .. L :
         /\ out[i].idx = ((i - 1) % n) + 1
         /\ out[i].nth <= pushed[p]
         /\ i > 1 => IF out[i].idx = 1 THEN out[i].nth > out[i - 1].nth
                                       ELSE out[i].nth = out[i - 1].nth
  BY DEF WholeSequence
<1> HIDE DEF n, c, L, new
<1>7. ASSUME NEW i \in 1 .. L + n
      PROVE  /\ new[i].idx = ((i - 1) % n) + 1
             /\ new[i].nth <= pushed[p] + 1
             /\ i > 1 => IF new[i].idx = 1 THEN new[i].nth > new[i - 1].nth
                                           ELSE new[i].nth = new[i - 1].nth
  <2>1. CASE i <= L
    <3>1. i \in 1 .. L /\ (i > 1 => i - 1 \in 1 .. L)
      BY <1>1, <1>2, <2>1
    <3>2. new[i] = out[i] /\ (i > 1 => new[i - 1] = out[i - 1])
      BY <1>4, <3>1
    <3>3. out[i].nth <= pushed[p] + 1
      BY <1>1, <1>2, <1>6, <3>1, SMTT(30)
    <3> QED BY <1>6, <3>1, <3>2, <3>3
  <2>2. CASE i = L + 1
    <3>1. 1 \in 1 .. n /\ (L + 1 - 1) % n = 1 - 1
      BY <1>1, <1>5
    <3>2. new[i].idx = 1 /\ new[i].nth = pushed[p] + 1
      BY <1>3, <1>4, <2>2, <3>1
    <3>3. ((i - 1) % n) + 1 = 1
      <4>1. i - 1 = L + 1 - 1
        BY <1>2, <2>2
      <4> QED BY <3>1, <4>1
    <3>4. i > 1 => new[i - 1] = out[L] /\ L \in 1 .. L
      BY <1>2, <1>4, <2>2
    <3>5. i > 1 => new[i - 1].nth < pushed[p] + 1
      BY <1>1, <1>2, <1>6, <3>4
    <3> QED BY <1>1, <3>2, <3>3, <3>5
  <2>3. CASE i > L + 1
    <3> DEFINE k == i - L
    <3>1. k \in 2 .. n /\ i = L + k /\ i - 1 = L + (k - 1) /\ k - 1 \in 1 .. n
      BY <1>1, <1>2, <2>3
    <3> HIDE DEF k
    <3>2. new[i] = c[k] /\ new[i - 1] = c[k - 1]
      BY <1>4, <3>1
    <3>3. /\ new[i].idx = k /\ new[i].nth = pushed[p] + 1
          /\ new[i - 1].nth = pushed[p] + 1
      BY <1>3, <3>1, <3>2
    <3>4. (L + k - 1) % n = k - 1
      BY <1>5, <3>1
    <3>5. i - 1 = L + k - 1
      BY <1>2, <3>1
    <3>6. ((i - 1) % n) + 1 = k
      BY <3>1, <3>4, <3>5
    <3> QED BY <1>1, <3>1, <3>3, <3>6
  <2> QED BY <1>1, <1>2, <2>1, <2>2, <2>3
<1> QED
  BY <1>4, <1>5, <1>7 DEF WholeSequence, n, c, new

(* A push that fails only counts.                                          *)
LEMMA WholeSequenceLasts ==
    ASSUME NEW out, NEW n, NEW last \in Int, WholeSequence(out, n, last)
    PROVE  WholeSequence(out, n, last + 1)
<1>1. \A i \in 1 .. Len(out) : out[i] \in Frame /\ out[i].nth <= last
  BY DEF WholeSequence
<1>2. \A f \in Frame : f.nth \in Int
  BY TxQueueAssumption DEF Frame
<1>3. \A i \in 1 .. Len(out) : out[i].nth <= last + 1
  BY <1>1, <1>2
<1> QED BY <1>3 DEF WholeSequence

(* A push adds a whole transfer, or none of it.                            *)
LEMMA PushPreservesWholeInv ==
    ASSUME IInv, WholeInv, NEW p \in Port, NEW tid \in Nat, Called(p), push(p, tid)
    PROVE  WholeInv'
<1> SUFFICES ASSUME NEW r \in Port
             PROVE  WholeSequence(Outgoing(r)', FramesOf[r], pushed'[r])
  BY DEF WholeInv, WholeSequence
<1>1. WholeSequence(Outgoing(r), FramesOf[r], pushed[r]) /\ pushed[r] \in Int
  BY DEF WholeInv, IInv, TypeOK
<1>2. Outgoing(r)' = IF r = p /\ Complete(p) THEN Outgoing(p) \o Chain(p, tid)
                                             ELSE Outgoing(r)
  BY OutgoingOfPush
<1>3. pushed'[r] = IF r = p THEN pushed[r] + 1 ELSE pushed[r]
  BY DEF Called, IInv, TypeOK
<1>4. CASE r # p
  BY <1>1, <1>2, <1>3, <1>4
<1>5. CASE r = p /\ ~Complete(p)
  BY <1>1, <1>2, <1>3, <1>5, WholeSequenceLasts
<1>6. CASE r = p /\ Complete(p)
  <2>1. pushed[p] < MaxPushes /\ TypeOK
    BY DEF Called, IInv
  <2> QED BY <1>1, <1>2, <1>3, <1>6, <2>1, WholeSequenceGrows
<1> QED BY <1>4, <1>5, <1>6

(* A queue full of whole transfers is what the next step starts from.      *)
LEMMA WholeInvHolds == Spec => []WholeInv
<1>1. Init => WholeInv
  <2> SUFFICES ASSUME Init, NEW p \in Port
               PROVE  WholeSequence(Outgoing(p), FramesOf[p], pushed[p])
    BY DEF WholeInv
  <2>1. Outgoing(p) = <<>>
    BY DEF Init, Outgoing
  <2>2. 0 % FramesOf[p] = 0
    <3>1. FramesOf[p] \in Nat \ {0}
      BY TxQueueAssumption
    <3>2. FramesOf[p] * 0 = 0
      BY <3>1
    <3> QED BY <3>1, <3>2, NoRemainder
  <2> QED BY <2>1, <2>2 DEF WholeSequence
<1>2. IInv /\ WholeInv /\ [Next]_vars => WholeInv'
  <2> SUFFICES ASSUME IInv, WholeInv, [Next]_vars PROVE WholeInv'
    OBVIOUS
  <2>1. ASSUME NEW p \in Subject, Publish(p) PROVE WholeInv'
    <3>1. p \in Port /\ transfer_id[p] \in Nat
      BY TxQueueAssumption DEF Port, IInv, TypeOK
    <3> QED BY <2>1, <3>1, PushPreservesWholeInv DEF Publish
  <2>2. ASSUME NEW p \in Response, NEW tid \in 0 .. TidModulo - 1, Respond(p, tid)
        PROVE  WholeInv'
    <3>1. p \in Port /\ tid \in Nat
      BY TxQueueAssumption DEF Port
    <3> QED BY <2>2, <3>1, PushPreservesWholeInv DEF Respond
  <2>3. ASSUME NEW p \in Port, TransmitAccepted(p) PROVE WholeInv'
    <3>1. ASSUME NEW r \in Port
          PROVE  WholeSequence(Outgoing(r)', FramesOf[r], pushed'[r])
      <4>1. Outgoing(r)' = Outgoing(r)
        BY <2>3, OutgoingIsMoved
      <4>2. pushed' = pushed
        BY <2>3 DEF TransmitAccepted
      <4> QED BY <4>1, <4>2 DEF WholeInv
    <3> QED BY <3>1 DEF WholeInv, WholeSequence
  <2>4. CASE UNCHANGED <<txQueue, sent, pushed>>
    BY <2>4 DEF WholeInv, WholeSequence, Outgoing
  <2> QED BY <2>1, <2>2, <2>3, <2>4 DEF Next, vars, RxAllocate, RxFree, SpinTransmit,
             QueueEmpty, TransmitRejected
<1> QED BY <1>1, <1>2, IInvHolds, PTL DEF Spec

(* Whole transfers, in the order they were pushed, leave on each port.     *)
THEOREM TransfersStayWhole == Spec => []TransfersLeaveWhole
<1>1. WholeInv => TransfersLeaveWhole
  <2> SUFFICES ASSUME WholeInv, NEW p \in Port
               PROVE  LET out == Outgoing(p)
                          n == FramesOf[p]
                      IN  \A i \in DOMAIN out :
                             /\ out[i].idx = ((i - 1) % n) + 1
                             /\ i > 1 => IF out[i].idx = 1 THEN out[i].nth > out[i - 1].nth
                                                           ELSE out[i].nth = out[i - 1].nth
                             /\ i = Len(out) => out[i].idx = n
    BY DEF TransfersLeaveWhole
  <2> DEFINE out == Outgoing(p)
             n == FramesOf[p]
  <2>1. WholeSequence(out, n, pushed[p]) /\ n \in Nat \ {0}
    BY TxQueueAssumption DEF WholeInv
  <2> HIDE DEF out, n
  <2>2. Len(out) \in Nat /\ Len(out) % n = 0 /\ DOMAIN out = 1 .. Len(out)
    BY <2>1 DEF WholeSequence
  <2>3. Len(out) > 0 => (Len(out) - 1) % n = n - 1
    BY <2>1, <2>2, Blocks
  <2>4. ASSUME NEW i \in DOMAIN out, i = Len(out) PROVE out[i].idx = n
    <3>1. out[i].idx = ((i - 1) % n) + 1 /\ i > 0
      BY <2>1, <2>2 DEF WholeSequence
    <3>2. (i - 1) % n = n - 1
      BY <2>3, <2>4, <3>1
    <3> QED BY <2>1, <3>1, <3>2
  <2> QED BY <2>1, <2>2, <2>4 DEF WholeSequence, out, n
<1> QED BY <1>1, WholeInvHolds, PTL

-----------------------------------------------------------------------------
(* Transfer-IDs count.  The counter of a subject is the number of its      *)
(* publications, modulo 256, and a frame carries that number as it was     *)
(* before its own publication, modulo 32.                                  *)
Counted(out) ==
    \A i \in 1 .. Len(out) : out[i].tid = (out[i].nth - 1) % TidModulo

CountInv ==
    \A p \in Subject :
        /\ transfer_id[p] = pushed[p] % CounterModulo
        /\ Counted(Outgoing(p))

(* A publication is counted, queued or not, and its frames carry the count.*)
LEMMA PublishPreservesCountInv ==
    ASSUME IInv, CountInv, NEW p \in Subject, Publish(p)
    PROVE  CountInv'
<1> DEFINE tid == transfer_id[p]
<1>1. p \in Port /\ tid \in Nat /\ pushed[p] \in Nat /\ tid = pushed[p] % CounterModulo
  BY TxQueueAssumption DEF Port, IInv, TypeOK, CountInv
<1>2. Called(p) /\ push(p, tid)
  BY DEF Publish
<1> SUFFICES ASSUME NEW r \in Subject
             PROVE  transfer_id'[r] = pushed'[r] % CounterModulo /\ Counted(Outgoing(r)')
  BY DEF CountInv, Counted
<1>3. r \in Port /\ transfer_id[r] = pushed[r] % CounterModulo /\ Counted(Outgoing(r))
  BY DEF Port, CountInv
<1>4. Outgoing(r)' = IF r = p /\ Complete(p) THEN Outgoing(p) \o Chain(p, tid)
                                             ELSE Outgoing(r)
  BY <1>1, <1>2, <1>3, OutgoingOfPush
<1>5. transfer_id'[r] = pushed'[r] % CounterModulo
  <2>1. /\ transfer_id'[r] = IF r = p THEN (tid + 1) % CounterModulo ELSE transfer_id[r]
        /\ pushed'[r] = IF r = p THEN pushed[p] + 1 ELSE pushed[r]
    BY <1>2, <1>3 DEF push, Called, IInv, TypeOK
  <2>2. (tid + 1) % CounterModulo = (pushed[p] + 1) % CounterModulo
    <3> DEFINE a == pushed[p]
    <3>1. ((a % CounterModulo) + 1) % CounterModulo = (a + 1) % CounterModulo
      BY <1>1, TxQueueAssumption, Counting
    <3> QED BY <1>1, <3>1
  <2> QED BY <1>3, <2>1, <2>2
<1>6. Counted(Outgoing(r)')
  <2>1. CASE r = p /\ Complete(p)
    <3> DEFINE out == Outgoing(p)
               c == Chain(p, tid)
    <3>1. out \in Seq(Frame) /\ c \in Seq(Frame)
      <4>1. sent[p] \in Seq(Frame) /\ txQueue[p] \in Seq(Frame)
        BY <1>1 DEF IInv, TypeOK
      <4>2. pushed[p] < MaxPushes /\ TypeOK
        BY <1>2 DEF Called, IInv
      <4> QED BY <1>1, <4>1, <4>2, ChainFrames DEF Outgoing
    <3>2. \A k \in 1 .. Len(c) : c[k].tid = tid % TidModulo /\ c[k].nth = pushed[p] + 1
      <4>1. Len(c) = FramesOf[p] /\ \A k \in 1 .. FramesOf[p] : c[k] =
                [port |-> p, tid |-> tid % TidModulo, nth |-> pushed[p] + 1, idx |-> k]
        BY <1>1, <1>2, ChainFrames DEF Called, IInv
      <4> HIDE DEF c
      <4>2. ASSUME NEW k \in 1 .. Len(c)
            PROVE  c[k].tid = tid % TidModulo /\ c[k].nth = pushed[p] + 1
        <5>1. c[k] = [port |-> p, tid |-> tid % TidModulo, nth |-> pushed[p] + 1, idx |-> k]
          BY <4>1, <4>2
        <5> QED BY <5>1, FieldsOfFrame
      <4> QED BY <4>2
    <3>3. tid % TidModulo = (pushed[p] + 1 - 1) % TidModulo
      <4>1. (pushed[p] % CounterModulo) % TidModulo = pushed[p] % TidModulo
        BY <1>1, TxQueueAssumption, Nested
      <4>2. pushed[p] + 1 - 1 = pushed[p]
        BY <1>1
      <4> QED BY <1>1, <4>1, <4>2
    <3>4. ASSUME NEW s \in Seq(Frame), NEW t \in Seq(Frame), Counted(s), Counted(t)
          PROVE  Counted(s \o t)
      <4>1. /\ Len(s) \in Nat /\ Len(t) \in Nat /\ Len(s \o t) = Len(s) + Len(t)
            /\ \A i \in 1 .. Len(s) : (s \o t)[i] = s[i]
            /\ \A k \in 1 .. Len(t) : (s \o t)[Len(s) + k] = t[k]
        BY Joined
      <4> DEFINE st == s \o t
      <4>2. ASSUME NEW i \in 1 .. Len(st)
            PROVE  st[i].tid = (st[i].nth - 1) % TidModulo
        <5>1. CASE i \in 1 .. Len(s)
          BY <3>4, <4>1, <5>1 DEF Counted
        <5>2. CASE i \notin 1 .. Len(s)
          <6>1. i - Len(s) \in 1 .. Len(t) /\ Len(s) + (i - Len(s)) = i
            BY <4>1, <5>2
          <6>2. st[i] = t[i - Len(s)]
            BY <4>1, <6>1
          <6> QED BY <3>4, <6>1, <6>2 DEF Counted
        <5> QED BY <5>1, <5>2
      <4> QED BY <4>2 DEF Counted
    <3>5. Counted(c)
      <4> HIDE DEF c
      <4>1. ASSUME NEW k \in 1 .. Len(c) PROVE c[k].tid = (c[k].nth - 1) % TidModulo
        <5>1. c[k].tid = tid % TidModulo /\ c[k].nth = pushed[p] + 1
          BY <3>2
        <5>2. c[k].nth - 1 = pushed[p] + 1 - 1
          BY <1>1, <5>1
        <5>3. (c[k].nth - 1) % TidModulo = (pushed[p] + 1 - 1) % TidModulo
          BY <5>2, Zenon
        <5>4. c[k].tid = tid % TidModulo
          BY <5>1
        <5> HIDE DEF tid
        <5> QED BY <3>3, <5>3, <5>4, Zenon
      <4> QED BY <4>1 DEF Counted
    <3>6. Counted(out)
      BY <1>3, <2>1
    <3> HIDE DEF out, c
    <3>7. Counted(out \o c)
      BY <3>1, <3>4, <3>5, <3>6
    <3> QED BY <1>4, <2>1, <3>7 DEF out, c
  <2>2. CASE ~(r = p /\ Complete(p))
    BY <1>3, <1>4, <2>2
  <2> QED BY <2>1, <2>2
<1> QED BY <1>5, <1>6

(* An answer to a request does not touch the subjects.                     *)
LEMMA RespondPreservesCountInv ==
    ASSUME IInv, CountInv, NEW p \in Response, NEW tid \in 0 .. TidModulo - 1,
           Respond(p, tid)
    PROVE  CountInv'
<1>1. p \in Port /\ p \notin Subject /\ tid \in Nat
  BY TxQueueAssumption DEF Port
<1> SUFFICES ASSUME NEW r \in Subject
             PROVE  transfer_id'[r] = pushed'[r] % CounterModulo /\ Counted(Outgoing(r)')
  BY DEF CountInv, Counted
<1>2. r \in Port /\ r # p /\ transfer_id[r] = pushed[r] % CounterModulo
                 /\ Counted(Outgoing(r))
  BY <1>1 DEF Port, CountInv
<1>3. Outgoing(r)' = Outgoing(r)
  BY <1>1, <1>2, OutgoingOfPush DEF Respond
<1>4. transfer_id'[r] = transfer_id[r] /\ pushed'[r] = pushed[r]
  BY <1>1, <1>2 DEF Respond, push, Called, IInv, TypeOK
<1> QED BY <1>2, <1>3, <1>4

(* The transfer-ID of a message tells how many were published before it.   *)
THEOREM TransferIdsCount == Spec => []TransferIdCountsPublications
<1>1. Init => CountInv
  <2> SUFFICES ASSUME Init, NEW p \in Subject
               PROVE  transfer_id[p] = pushed[p] % CounterModulo /\ Counted(Outgoing(p))
    BY DEF CountInv
  <2>1. p \in Port
    BY DEF Port
  <2>2. transfer_id[p] = 0 /\ pushed[p] = 0 /\ Outgoing(p) = <<>>
    BY <2>1 DEF Init, Outgoing
  <2>3. 0 % CounterModulo = 0
    BY TxQueueAssumption, SMT
  <2> QED BY <2>2, <2>3 DEF Counted
<1>2. IInv /\ CountInv /\ [Next]_vars => CountInv'
  <2> SUFFICES ASSUME IInv, CountInv, [Next]_vars PROVE CountInv'
    OBVIOUS
  <2>1. ASSUME NEW p \in Subject, Publish(p) PROVE CountInv'
    BY <2>1, PublishPreservesCountInv
  <2>2. ASSUME NEW p \in Response, NEW tid \in 0 .. TidModulo - 1, Respond(p, tid)
        PROVE  CountInv'
    BY <2>2, RespondPreservesCountInv
  <2>3. ASSUME NEW p \in Port, TransmitAccepted(p) PROVE CountInv'
    <3>1. ASSUME NEW r \in Subject
          PROVE  transfer_id'[r] = pushed'[r] % CounterModulo /\ Counted(Outgoing(r)')
      <4>1. Outgoing(r)' = Outgoing(r)
        BY <2>3, OutgoingIsMoved DEF Port
      <4>2. pushed' = pushed /\ transfer_id' = transfer_id
        BY <2>3 DEF TransmitAccepted
      <4> QED BY <4>1, <4>2 DEF CountInv
    <3> QED BY <3>1 DEF CountInv, Counted
  <2>4. CASE UNCHANGED <<txQueue, sent, pushed, transfer_id>>
    BY <2>4 DEF CountInv, Counted, Outgoing
  <2> QED BY <2>1, <2>2, <2>3, <2>4 DEF Next, vars, RxAllocate, RxFree, SpinTransmit,
             QueueEmpty, TransmitRejected
<1>3. WholeInv /\ CountInv => TransferIdCountsPublications
  <2> SUFFICES ASSUME WholeInv, NEW p \in Subject, Counted(Outgoing(p))
               PROVE  \A i \in DOMAIN Outgoing(p) :
                          Outgoing(p)[i].tid = (Outgoing(p)[i].nth - 1) % TidModulo
    BY DEF TransferIdCountsPublications, CountInv
  <2>1. Outgoing(p) \in Seq(Frame)
    BY DEF WholeInv, WholeSequence, Port
  <2>2. DOMAIN Outgoing(p) = 1 .. Len(Outgoing(p))
    BY <2>1
  <2> QED BY <2>2 DEF Counted
<1> QED BY <1>1, <1>2, <1>3, IInvHolds, WholeInvHolds, PTL DEF Spec

(***************************************************************************)
(* THE TREE.  The links of a tree are explained by three ghosts: the order *)
(* o of its nodes, the view v, which gives every node its position in o    *)
(* and every subtree its interval of positions, and the heights H.  The    *)
(* invariant says that there are such ghosts.  Every operation is shown to *)
(* keep them: a rotation changes intervals but no position, a leaf widens  *)
(* the intervals around it, a node taken out narrows them.                 *)
(***************************************************************************)

-----------------------------------------------------------------------------
(* Induction: a set of natural numbers that is not empty has a least one.  *)

Below == {ss \in Nat \X Nat : ss[1] < ss[2]}

LEMMA BelowWF == IsWellFoundedOn(Below, Nat)
BY NatLessThanWellFounded DEF OpToRel, Below

LEMMA LeastNatural ==
    ASSUME NEW T \in SUBSET Nat, T # {}
    PROVE  \E x \in T : \A y \in T : x <= y
<1>1. \A x, y \in Nat : x < y => <<x, y>> \in Below
  BY DEF Below
<1>2. PICK x \in T : \A y \in T : ~(<<y, x>> \in Below)
  <2>1. T \subseteq Nat
    OBVIOUS
  <2> QED BY <2>1, BelowWF, WFMin
<1>3. ASSUME NEW y \in T PROVE x <= y
  <2>1. x \in Nat /\ y \in Nat
    OBVIOUS
  <2>2. ~(y < x)
    BY <1>1, <1>2, <2>1, Zenon
  <2> QED BY <2>1, <2>2
<1> QED BY <1>3

(* What holds of 0 and, with each number, of the next holds of all.        *)
LEMMA EveryNatural ==
    ASSUME NEW P \in SUBSET Nat, 0 \in P, \A k \in P : k + 1 \in P
    PROVE  \A k \in Nat : k \in P
<1> SUFFICES ASSUME NEW k \in Nat, k \notin P PROVE FALSE
  OBVIOUS
<1>1. PICK m \in Nat \ P : \A y \in Nat \ P : m <= y
  BY LeastNatural
<1>2. m # 0
  OBVIOUS
<1>3. m - 1 \in Nat
  BY <1>2
<1>4. m - 1 \in P
  BY <1>1, <1>3
<1>5. (m - 1) + 1 \in P
  BY <1>4
<1> QED BY <1>5

-----------------------------------------------------------------------------
(* The loops: the recursion of Repeated defines a function.                *)

Turns(f, n, step, start) ==
    /\ f = [i \in 0 .. n |-> f[i]]
    /\ f[0] = start
    /\ \A i \in 1 .. n : f[i] = step[f[i - 1]]

LEMMA TurnsExist ==
    ASSUME NEW step, NEW start, NEW n \in Nat
    PROVE  \E f : Turns(f, n, step, start)
<1> DEFINE P == {m \in Nat : \E f : Turns(f, m, step, start)}
<1>1. 0 \in P
  <2> DEFINE f == [i \in 0 .. 0 |-> start]
  <2>1. Turns(f, 0, step, start)
    BY DEF Turns
  <2> QED BY <2>1
<1>2. ASSUME NEW m \in P PROVE m + 1 \in P
  <2>1. m \in Nat
    OBVIOUS
  <2>2. PICK f : Turns(f, m, step, start)
    OBVIOUS
  <2> DEFINE g == [i \in 0 .. m + 1 |-> IF i = m + 1 THEN step[f[m]] ELSE f[i]]
  <2>3. g = [i \in 0 .. m + 1 |-> g[i]] /\ g[0] = start
    BY <2>1, <2>2 DEF Turns
  <2>4. ASSUME NEW i \in 1 .. m + 1 PROVE g[i] = step[g[i - 1]]
    <3>1. \A j \in 1 .. m : f[j] = step[f[j - 1]]
      BY <2>2 DEF Turns
    <3>2. g[i - 1] = f[i - 1]
      BY <2>1
    <3>3. CASE i = m + 1
      BY <2>1, <3>2, <3>3
    <3>4. CASE i # m + 1
      <4>1. i \in 1 .. m /\ g[i] = f[i]
        BY <2>1, <3>4
      <4> HIDE DEF g
      <4> QED BY <3>1, <3>2, <4>1
    <3> QED BY <3>3, <3>4
  <2>5. Turns(g, m + 1, step, start)
    <3> HIDE DEF g
    <3> QED BY <2>3, <2>4 DEF Turns
  <2> QED BY <2>1, <2>5
<1>3. P \in SUBSET Nat
  OBVIOUS
<1> HIDE DEF P
<1>4. n \in P
  BY <1>1, <1>2, <1>3, EveryNatural
<1> QED BY <1>4 DEF P

LEMMA TurnsAgree ==
    ASSUME NEW step, NEW start, NEW n \in Nat, NEW m \in Nat, NEW f, NEW g,
           Turns(f, n, step, start), Turns(g, m, step, start), NEW k \in Nat, k <= n, k <= m
    PROVE  f[k] = g[k]
<1> DEFINE P == {i \in Nat : i <= n /\ i <= m => f[i] = g[i]}
<1>1. 0 \in P
  BY DEF Turns
<1>2. ASSUME NEW i \in P PROVE i + 1 \in P
  <2> SUFFICES ASSUME i + 1 <= n, i + 1 <= m PROVE f[i + 1] = g[i + 1]
    OBVIOUS
  <2>1. i + 1 \in 1 .. n /\ i + 1 \in 1 .. m /\ (i + 1) - 1 = i /\ f[i] = g[i]
    OBVIOUS
  <2>2. /\ \A j \in 1 .. n : f[j] = step[f[j - 1]]
        /\ \A j \in 1 .. m : g[j] = step[g[j - 1]]
    BY DEF Turns
  <2>3. f[i + 1] = step[f[(i + 1) - 1]] /\ g[i + 1] = step[g[(i + 1) - 1]]
    BY <2>1, <2>2, Zenon
  <2> QED BY <2>1, <2>3
<1>3. P \in SUBSET Nat
  OBVIOUS
<1> HIDE DEF P
<1>4. k \in P
  BY <1>1, <1>2, <1>3, EveryNatural
<1> QED BY <1>4 DEF P

(* What the turns of a loop of the model are, and where it ends.           *)
LEMMA RepeatedIs ==
    ASSUME NEW step, NEW start
    PROVE  \E f : /\ f[0] = start
                  /\ \A k \in Nat : f[k + 1] = step[f[k]]
                  /\ Repeated(step, start) = f[Cardinality(Node)]
<1> DEFINE part(n) == CHOOSE f : Turns(f, n, step, start)
           g == [n \in Nat |-> part(n)[n]]
<1>1. ASSUME NEW n \in Nat PROVE Turns(part(n), n, step, start)
  BY TurnsExist
<1> HIDE DEF part
<1>2. ASSUME NEW k \in Nat PROVE g[k] = IF k = 0 THEN start ELSE step[g[k - 1]]
  <2>1. CASE k = 0
    BY <1>1, <2>1 DEF Turns
  <2>2. CASE k # 0
    <3>1. k - 1 \in Nat /\ k - 1 <= k
      BY <2>2
    <3>2. part(k)[k] = step[part(k)[k - 1]]
      BY <1>1, <2>2 DEF Turns
    <3>3. Turns(part(k), k, step, start) /\ Turns(part(k - 1), k - 1, step, start)
      BY <1>1, <3>1
    <3>4. part(k)[k - 1] = part(k - 1)[k - 1]
      BY <3>1, <3>3, TurnsAgree
    <3> QED BY <2>2, <3>1, <3>2, <3>4
  <2> QED BY <2>1, <2>2
<1>3. g = [k \in Nat |-> IF k = 0 THEN start ELSE step[g[k - 1]]]
  BY <1>2
<1> HIDE DEF g
<1> DEFINE after == CHOOSE h : h = [k \in Nat |-> IF k = 0 THEN start ELSE step[h[k - 1]]]
<1>4. after = [k \in Nat |-> IF k = 0 THEN start ELSE step[after[k - 1]]]
  <2>1. \E h : h = [k \in Nat |-> IF k = 0 THEN start ELSE step[h[k - 1]]]
    BY <1>3
  <2> QED BY <2>1, Zenon
<1>5. Repeated(step, start) = after[Cardinality(Node)]
  BY Zenon DEF Repeated
<1> HIDE DEF after
<1>6. after[0] = start /\ \A k \in Nat : after[k + 1] = step[after[k]]
  <2>1. after[0] = start
    BY <1>4
  <2>2. ASSUME NEW k \in Nat PROVE after[k + 1] = step[after[k]]
    <3>1. k + 1 \in Nat /\ k + 1 # 0 /\ (k + 1) - 1 = k
      OBVIOUS
    <3> QED BY <1>4, <3>1
  <2> QED BY <2>1, <2>2
<1> QED BY <1>5, <1>6

-----------------------------------------------------------------------------
(* What a sound tree is.  M are its nodes and w is the topmost of them.    *)

Linked(t, M, w) ==
    /\ IF M = {} THEN w = NULL ELSE w \in M
    /\ \A n \in M : \A s \in Side :
         t.lr[n][s] # NULL => t.lr[n][s] \in M /\ t.up[t.lr[n][s]] = n
    /\ \A n \in M : IF n = w THEN t.up[n] = NULL
                    ELSE t.up[n] \in M /\ (t.lr[t.up[n]][0] = n \/ t.lr[t.up[n]][1] = n)

(* Where the nodes stand in the order: each has a position, and those of   *)
(* its subtree are an interval around it.                                  *)
Views == [size : Nat, pos : [Node -> Int], lo : [Node -> Int], hi : [Node -> Int]]

Spanned(t, M, w, v) ==
    /\ \A n \in M : v.lo[n] <= v.pos[n] /\ v.pos[n] <= v.hi[n]
    /\ \A n \in M : 1 <= v.lo[n] /\ v.hi[n] <= v.size
    /\ \A n \in M : IF t.lr[n][0] = NULL THEN v.lo[n] = v.pos[n]
                    ELSE v.lo[t.lr[n][0]] = v.lo[n] /\ v.hi[t.lr[n][0]] = v.pos[n] - 1
    /\ \A n \in M : IF t.lr[n][1] = NULL THEN v.hi[n] = v.pos[n]
                    ELSE v.lo[t.lr[n][1]] = v.pos[n] + 1 /\ v.hi[t.lr[n][1]] = v.hi[n]
    /\ w # NULL => v.lo[w] = 1 /\ v.hi[w] = v.size

Shape(t, M, w, v) ==
    /\ t \in Trees /\ M \in SUBSET Node /\ w \in Link /\ v \in Views
    /\ Linked(t, M, w)
    /\ Spanned(t, M, w, v)

(* What is used of a sound tree again and again.                           *)
LEMMA ShapeIs ==
    ASSUME NEW t, NEW M, NEW w, NEW v, Shape(t, M, w, v)
    PROVE  /\ t \in Trees /\ M \in SUBSET Node /\ w \in Link /\ v \in Views
           /\ NULL \notin Node /\ M \subseteq Nat \ {0} /\ NULL = 0
           /\ M # {} => w \in M
           /\ \A n \in M : /\ n \in Node
                           /\ t.lr[n][0] \in M \cup {NULL} /\ t.lr[n][1] \in M \cup {NULL}
                           /\ t.up[n] \in M \cup {NULL} /\ (t.up[n] = NULL <=> n = w)
                           /\ t.bf[n] \in -1 .. 1
                           /\ v.lo[n] \in Int /\ v.hi[n] \in Int /\ v.pos[n] \in Int
                           /\ v.lo[n] <= v.pos[n] /\ v.pos[n] <= v.hi[n]
                           /\ 1 <= v.lo[n] /\ v.hi[n] <= v.size
<1>1. /\ t \in Trees /\ M \in SUBSET Node /\ w \in Link /\ v \in Views
      /\ Linked(t, M, w) /\ Spanned(t, M, w, v)
  BY Zenon DEF Shape
<1>2. NULL \notin Node /\ M \subseteq Nat \ {0} /\ NULL = 0
  BY <1>1, CavlAssumption DEF NULL
<1>3. M # {} => w \in M
  BY <1>1, Zenon DEF Linked
<1>4. ASSUME NEW n \in M
      PROVE  /\ n \in Node
             /\ t.lr[n][0] \in M \cup {NULL} /\ t.lr[n][1] \in M \cup {NULL}
  <2>1. \A s \in Side : t.lr[n][s] # NULL => t.lr[n][s] \in M
    BY <1>1, Zenon DEF Linked
  <2> QED BY <1>1, <2>1 DEF Side
<1>5. ASSUME NEW n \in M
      PROVE  t.up[n] \in M \cup {NULL} /\ (t.up[n] = NULL <=> n = w)
  <2>1. IF n = w THEN t.up[n] = NULL ELSE t.up[n] \in M
    BY <1>1, Zenon DEF Linked
  <2> QED BY <1>2, <2>1
<1>6. ASSUME NEW n \in M
      PROVE  /\ t.bf[n] \in -1 .. 1
             /\ v.lo[n] \in Int /\ v.hi[n] \in Int /\ v.pos[n] \in Int
             /\ v.lo[n] <= v.pos[n] /\ v.pos[n] <= v.hi[n]
             /\ 1 <= v.lo[n] /\ v.hi[n] <= v.size
  <2>1. /\ v.lo[n] <= v.pos[n] /\ v.pos[n] <= v.hi[n]
        /\ 1 <= v.lo[n] /\ v.hi[n] <= v.size
    BY <1>1, Zenon DEF Spanned
  <2> QED BY <1>1, <2>1 DEF Trees, Views
<1> QED BY <1>1, <1>2, <1>3, <1>4, <1>5, <1>6

(* A child is no other child, and is not among its own descendants.        *)
LEMMA ChildIs ==
    ASSUME NEW t, NEW M, NEW w, NEW v, Shape(t, M, w, v), NEW n \in M
    PROVE  /\ t.lr[n][0] # NULL =>
                LET c == t.lr[n][0]
                IN  /\ c \in M /\ t.up[c] = n /\ c # n /\ c # t.lr[n][1]
                    /\ v.lo[c] = v.lo[n] /\ v.hi[c] = v.pos[n] - 1
           /\ t.lr[n][1] # NULL =>
                LET c == t.lr[n][1]
                IN  /\ c \in M /\ t.up[c] = n /\ c # n /\ c # t.lr[n][0]
                    /\ v.lo[c] = v.pos[n] + 1 /\ v.hi[c] = v.hi[n]
           /\ t.lr[n][0] = NULL => v.lo[n] = v.pos[n]
           /\ t.lr[n][1] = NULL => v.hi[n] = v.pos[n]
           /\ t.up[n] # NULL =>
                LET p == t.up[n]
                IN  /\ p \in M /\ p # n /\ (t.lr[p][0] = n \/ t.lr[p][1] = n)
                    /\ v.lo[p] <= v.lo[n] /\ v.hi[n] <= v.hi[p]
                    /\ v.hi[n] - v.lo[n] < v.hi[p] - v.lo[p]
<1>1. /\ Linked(t, M, w) /\ Spanned(t, M, w, v)
  BY Zenon DEF Shape
<1>2. /\ n \in Node
      /\ v.lo[n] \in Int /\ v.hi[n] \in Int /\ v.pos[n] \in Int
      /\ v.lo[n] <= v.pos[n] /\ v.pos[n] <= v.hi[n]
  BY ShapeIs
<1>3. ASSUME NEW m \in M
      PROVE  /\ t.lr[m][0] # NULL =>
                  LET c == t.lr[m][0]
                  IN  /\ c \in M /\ t.up[c] = m /\ c # m /\ c # t.lr[m][1]
                      /\ v.lo[c] = v.lo[m] /\ v.hi[c] = v.pos[m] - 1
             /\ t.lr[m][1] # NULL =>
                  LET c == t.lr[m][1]
                  IN  /\ c \in M /\ t.up[c] = m /\ c # m /\ c # t.lr[m][0]
                      /\ v.lo[c] = v.pos[m] + 1 /\ v.hi[c] = v.hi[m]
             /\ t.lr[m][0] = NULL => v.lo[m] = v.pos[m]
             /\ t.lr[m][1] = NULL => v.hi[m] = v.pos[m]
  <2>1. /\ t.lr[m][0] # NULL => t.lr[m][0] \in M /\ t.up[t.lr[m][0]] = m
        /\ t.lr[m][1] # NULL => t.lr[m][1] \in M /\ t.up[t.lr[m][1]] = m
    BY <1>1 DEF Linked, Side
  <2>2. /\ IF t.lr[m][0] = NULL THEN v.lo[m] = v.pos[m]
           ELSE v.lo[t.lr[m][0]] = v.lo[m] /\ v.hi[t.lr[m][0]] = v.pos[m] - 1
        /\ IF t.lr[m][1] = NULL THEN v.hi[m] = v.pos[m]
           ELSE v.lo[t.lr[m][1]] = v.pos[m] + 1 /\ v.hi[t.lr[m][1]] = v.hi[m]
    BY <1>1, Zenon DEF Spanned
  <2>3. \A k \in M : /\ v.lo[k] \in Int /\ v.hi[k] \in Int /\ v.pos[k] \in Int
                     /\ v.lo[k] <= v.pos[k] /\ v.pos[k] <= v.hi[k]
    BY ShapeIs
  <2> QED BY <2>1, <2>2, <2>3
<1>4. ASSUME t.up[n] # NULL
      PROVE  LET p == t.up[n]
             IN  /\ p \in M /\ p # n /\ (t.lr[p][0] = n \/ t.lr[p][1] = n)
                 /\ v.lo[p] <= v.lo[n] /\ v.hi[n] <= v.hi[p]
                 /\ v.hi[n] - v.lo[n] < v.hi[p] - v.lo[p]
  <2>1. t.up[n] \in M /\ (t.lr[t.up[n]][0] = n \/ t.lr[t.up[n]][1] = n)
    BY <1>1, <1>4, Zenon DEF Linked
  <2>2. PICK p \in M : p = t.up[n]
    BY <2>1
  <2>3. /\ v.lo[p] \in Int /\ v.hi[p] \in Int /\ v.pos[p] \in Int
        /\ v.lo[p] <= v.pos[p] /\ v.pos[p] <= v.hi[p]
    BY ShapeIs
  <2>4. n # NULL
    BY ShapeIs
  <2> QED BY <1>2, <1>3, <2>1, <2>2, <2>3, <2>4
<1> QED BY <1>3, <1>4

-----------------------------------------------------------------------------
(* One rotation: the links it changes.                                     *)

Rotated(t, u, x, z, y, r) ==
    /\ u \in Trees /\ u.root = t.root /\ u.bf = t.bf
    /\ u.lr[x][1 - r] = y /\ u.lr[x][r] = t.lr[x][r]
    /\ u.lr[z][r] = x /\ u.lr[z][1 - r] = t.lr[z][1 - r]
    /\ \A n \in Node \ {x, z} : \A s \in Side :
         u.lr[n][s] = IF n = t.up[x] /\ s = Index(t.lr[n][1] = x) THEN z ELSE t.lr[n][s]
    /\ \A n \in Node : u.up[n] = IF n = z THEN t.up[x] ELSE IF n = x THEN z
                                 ELSE IF n = y THEN x ELSE t.up[n]

LEMMA RotateIs ==
    ASSUME NEW t \in Trees, NEW x \in Node, NEW r \in Side,
           NEW z \in Node, z = t.lr[x][1 - r], NEW y \in Link, y = t.lr[z][r],
           z # x, y # x, y # z, t.up[x] # x, t.up[x] # z
    PROVE  Rotated(t, cavlPrivateRotate(t, x, r), x, z, y, r)
<1> DEFINE p == t.up[x]
           e == Replace(t, x, z)
           f == [e EXCEPT !.up[z] = p, !.up[x] = z, !.lr[x][1 - r] = y, !.lr[z][r] = x]
           g == Hang(f, y, x)
<1>1. cavlPrivateRotate(t, x, r) = g
  BY ZenonT(30) DEF cavlPrivateRotate
<1>2. p \in Link /\ NULL \notin Node /\ 1 - r \in Side /\ 1 - r # r
  BY CavlAssumption DEF Trees, NULL, Side
<1>3. /\ e \in Trees /\ e.root = t.root /\ e.bf = t.bf /\ e.up = t.up
      /\ \A n \in Node : \A s \in Side :
           e.lr[n][s] = IF n = p /\ s = Index(t.lr[n][1] = x) THEN z ELSE t.lr[n][s]
  <2>1. CASE p = NULL
    BY <1>2, <2>1, ZenonT(30) DEF Replace
  <2>2. CASE p # NULL
    <3>1. p \in Node
      BY <1>2, <2>2 DEF Link
    <3>2. PICK s \in Side : s = Index(t.lr[p][1] = x)
      BY DEF Index, Side
    <3>3. e = [t EXCEPT !.lr[p][s] = z]
      BY <2>2, <3>2 DEF Replace
    <3> HIDE DEF e
    <3> QED BY <3>1, <3>2, <3>3, ZenonT(40) DEF Trees, Link
  <2> QED BY <2>1, <2>2, ZenonT(30)
<1> HIDE DEF e, p
<1>4. /\ f \in Trees /\ f.root = t.root /\ f.bf = t.bf
      /\ \A n \in Node : f.up[n] = IF n = x THEN z ELSE IF n = z THEN p ELSE t.up[n]
  BY <1>2, <1>3, ZenonT(40) DEF Trees, Link
<1>5. /\ f.lr[x][1 - r] = y /\ f.lr[x][r] = e.lr[x][r]
      /\ f.lr[z][r] = x /\ f.lr[z][1 - r] = e.lr[z][1 - r]
      /\ \A n \in Node \ {x, z} : f.lr[n] = e.lr[n]
  BY <1>2, <1>3, ZenonT(30) DEF Trees
<1> HIDE DEF f
<1>6. /\ g \in Trees /\ g.root = t.root /\ g.bf = t.bf /\ g.lr = f.lr
      /\ \A n \in Node : g.up[n] = IF n = y THEN x ELSE f.up[n]
  <2>1. CASE y = NULL
    BY <1>2, <1>4, <2>1, ZenonT(30) DEF Hang
  <2>2. CASE y # NULL
    <3>1. y \in Node /\ g = [f EXCEPT !.up[y] = x]
      BY <2>2 DEF Hang, Link
    <3> HIDE DEF g
    <3> QED BY <1>4, <3>1, ZenonT(40) DEF Trees, Link
  <2> QED BY <2>1, <2>2, ZenonT(30)
<1> HIDE DEF g
<1>7. /\ g.lr[x][1 - r] = y /\ g.lr[x][r] = t.lr[x][r]
      /\ g.lr[z][r] = x /\ g.lr[z][1 - r] = t.lr[z][1 - r]
  <2>1. e.lr[x][r] = t.lr[x][r] /\ e.lr[z][1 - r] = t.lr[z][1 - r]
    BY <1>2, <1>3 DEF p
  <2> QED BY <1>5, <1>6, <2>1, ZenonT(30)
<1>8. \A n \in Node \ {x, z} : \A s \in Side :
         g.lr[n][s] = IF n = p /\ s = Index(t.lr[n][1] = x) THEN z ELSE t.lr[n][s]
  BY <1>3, <1>5, <1>6
<1>9. \A n \in Node : g.up[n] = IF n = z THEN p ELSE IF n = x THEN z
                                 ELSE IF n = y THEN x ELSE t.up[n]
  BY <1>4, <1>6
<1> QED BY <1>1, <1>4, <1>6, <1>7, <1>8, <1>9, ZenonT(40) DEF Rotated, p

(* The node that goes up takes over the interval of the one that goes down.*)
Turned(v, x, z, r) ==
    [v EXCEPT !.lo = [n \in Node |-> IF n = z THEN v.lo[x]
                                     ELSE IF n = x /\ r = 1 THEN v.pos[z] + 1 ELSE v.lo[n]],
              !.hi = [n \in Node |-> IF n = z THEN v.hi[x]
                                     ELSE IF n = x /\ r = 0 THEN v.pos[z] - 1 ELSE v.hi[n]]]

LEMMA TurnedIs ==
    ASSUME NEW v \in Views, NEW x \in Node, NEW z \in Node, z # x, NEW r \in Side
    PROVE  LET q == Turned(v, x, z, r)
           IN  /\ q \in Views /\ q.size = v.size /\ q.pos = v.pos
               /\ q.lo[z] = v.lo[x] /\ q.hi[z] = v.hi[x]
               /\ r = 1 => q.lo[x] = v.pos[z] + 1 /\ q.hi[x] = v.hi[x]
               /\ r = 0 => q.lo[x] = v.lo[x] /\ q.hi[x] = v.pos[z] - 1
               /\ \A n \in Node \ {x, z} : q.lo[n] = v.lo[n] /\ q.hi[n] = v.hi[n]
<1> DEFINE lo == [n \in Node |-> IF n = z THEN v.lo[x]
                               ELSE IF n = x /\ r = 1 THEN v.pos[z] + 1 ELSE v.lo[n]]
           hi == [n \in Node |-> IF n = z THEN v.hi[x]
                               ELSE IF n = x /\ r = 0 THEN v.pos[z] - 1 ELSE v.hi[n]]
<1>1. v.pos[z] \in Int /\ v.lo \in [Node -> Int] /\ v.hi \in [Node -> Int]
  BY DEF Views
<1>2. lo \in [Node -> Int] /\ hi \in [Node -> Int]
  BY <1>1
<1>3. /\ lo[z] = v.lo[x] /\ lo[x] = IF r = 1 THEN v.pos[z] + 1 ELSE v.lo[x]
      /\ hi[z] = v.hi[x] /\ hi[x] = IF r = 0 THEN v.pos[z] - 1 ELSE v.hi[x]
      /\ \A n \in Node \ {x, z} : lo[n] = v.lo[n] /\ hi[n] = v.hi[n]
  BY <1>1
<1>4. Turned(v, x, z, r) = [v EXCEPT !.lo = lo, !.hi = hi]
  BY DEF Turned
<1> HIDE DEF lo, hi
<1>5. /\ Turned(v, x, z, r) \in Views
      /\ Turned(v, x, z, r).size = v.size /\ Turned(v, x, z, r).pos = v.pos
      /\ Turned(v, x, z, r).lo = lo /\ Turned(v, x, z, r).hi = hi
  BY <1>2, <1>4 DEF Views
<1> QED BY <1>3, <1>5 DEF Side

(* What stands on a side of a node, by name.                               *)
Child(t, n, s, c) == c = t.lr[n][s]

(* A child by name.                                                        *)
LEMMA ChildOf ==
    ASSUME NEW t, NEW M, NEW w, NEW v, Shape(t, M, w, v), NEW n \in M, NEW s \in Side,
           NEW c, Child(t, n, s, c), c # NULL
    PROVE  /\ c \in M /\ c \in Node /\ c \in Link /\ c # n /\ t.up[c] = n
           /\ t.lr[n][1 - s] # c
           /\ v.hi[c] - v.lo[c] < v.hi[n] - v.lo[n]
<1>1. s = 0 \/ s = 1
  BY DEF Side
<1>2. /\ c \in M /\ c # n /\ t.up[c] = n
      /\ s = 0 => c # t.lr[n][1]
      /\ s = 1 => c # t.lr[n][0]
  BY <1>1, ChildIs DEF Child
<1>3. NULL \notin M /\ M \subseteq Node
  BY ShapeIs
<1>4. t.up[c] # NULL
  BY <1>2, <1>3
<1>5. v.hi[c] - v.lo[c] < v.hi[n] - v.lo[n]
  <2>1. v.hi[c] - v.lo[c] < v.hi[t.up[c]] - v.lo[t.up[c]]
    BY <1>2, <1>4, ChildIs, Zenon
  <2> QED BY <1>2, <2>1
<1>6. t.lr[n][1 - s] # c
  <2>1. CASE s = 0
    BY <1>2, <2>1
  <2>2. CASE s = 1
    BY <1>2, <2>2
  <2> QED BY <1>1, <2>1, <2>2
<1> QED BY <1>2, <1>3, <1>5, <1>6 DEF Link

(* The same where there may be no child.                                   *)
LEMMA SideOf ==
    ASSUME NEW t, NEW M, NEW w, NEW v, Shape(t, M, w, v), NEW n \in M, NEW s \in Side,
           NEW c, Child(t, n, s, c)
    PROVE  /\ c \in M \cup {NULL} /\ c \in Link /\ c # n
           /\ c # NULL => t.up[c] = n /\ t.lr[n][1 - s] # c
<1>1. NULL \notin M
  BY ShapeIs
<1>2. c # NULL => /\ c \in M /\ c \in Link /\ c # n /\ t.up[c] = n
                  /\ t.lr[n][1 - s] # c
  BY ChildOf
<1> QED BY <1>1, <1>2 DEF Link

(* What a rotation is about: a node, the child on one side, and its child. *)
LEMMA RotationIs ==
    ASSUME NEW t, NEW M, NEW w, NEW v, Shape(t, M, w, v), NEW x \in M, NEW r \in Side,
           NEW z, Child(t, x, 1 - r, z), z # NULL, NEW y, Child(t, z, r, y)
    PROVE  /\ z \in M /\ y \in M \cup {NULL} /\ y \in Link
           /\ z # x /\ y # x /\ y # z
           /\ t.lr[x][r] # z /\ t.lr[x][r] # x
           /\ t.up[x] # x /\ t.up[x] # z /\ t.up[z] = x /\ (y # NULL => t.up[y] = z)
<1>1. 1 - r \in Side /\ 1 - (1 - r) = r
  BY DEF Side
<1>2. \A n \in M : n \in Node /\ n # NULL /\ v.hi[n] - v.lo[n] \in Int
  BY ShapeIs
<1>3. /\ z \in M /\ z \in Node /\ t.up[z] = x /\ z # x /\ t.lr[x][r] # z
      /\ v.hi[z] - v.lo[z] < v.hi[x] - v.lo[x]
  BY <1>1, ChildOf
<1>4. t.lr[x][r] # x
  <2>1. t.lr[x][r] # NULL => t.lr[x][r] # x
    BY ChildOf DEF Child
  <2> QED BY <1>2, <2>1
<1>5. t.up[x] # x /\ t.up[x] # z
  <2>1. t.up[x] # NULL => v.hi[x] - v.lo[x] < v.hi[t.up[x]] - v.lo[t.up[x]]
    BY ChildIs, Zenon
  <2> QED BY <1>2, <1>3, <2>1
<1>6. y # NULL => /\ y \in M /\ y \in Node /\ t.up[y] = z /\ y # z
                  /\ v.hi[y] - v.lo[y] < v.hi[z] - v.lo[z]
  BY <1>3, ChildOf
<1>7. y # x /\ y # z
  BY <1>2, <1>3, <1>6
<1> QED BY <1>3, <1>4, <1>5, <1>6, <1>7 DEF Link

(* A rotation leaves a sound tree in the same order.                       *)
LEMMA RotatedShape ==
    ASSUME NEW t, NEW M, NEW w, NEW v, Shape(t, M, w, v), NEW x \in M, NEW r \in Side,
           NEW z, Child(t, x, 1 - r, z), z # NULL, NEW y, Child(t, z, r, y),
           NEW u, Rotated(t, u, x, z, y, r)
    PROVE  Shape(u, M, IF w = x THEN z ELSE w, Turned(v, x, z, r))
<1> DEFINE q == Turned(v, x, z, r)
           k == IF w = x THEN z ELSE w
           p == t.up[x]
<1>1. r = 0 \/ r = 1
  BY ZenonT(30) DEF Side
<1>2. /\ z \in M /\ y \in M \cup {NULL} /\ y \in Link
      /\ z # x /\ y # x /\ y # z
      /\ t.lr[x][r] # z /\ t.lr[x][r] # x
      /\ p # x /\ p # z /\ t.up[z] = x /\ (y # NULL => t.up[y] = z)
  BY RotationIs
<1>3. /\ t \in Trees /\ M \in SUBSET Node /\ w \in Link /\ v \in Views /\ w \in M
      /\ NULL \notin Node
      /\ Linked(t, M, w) /\ Spanned(t, M, w, v)
  BY ShapeIs, ZenonT(40) DEF Shape
<1>4. /\ q \in Views /\ q.size = v.size /\ q.pos = v.pos
      /\ q.lo[z] = v.lo[x] /\ q.hi[z] = v.hi[x]
      /\ r = 1 => q.lo[x] = v.pos[z] + 1 /\ q.hi[x] = v.hi[x]
      /\ r = 0 => q.lo[x] = v.lo[x] /\ q.hi[x] = v.pos[z] - 1
      /\ \A n \in Node \ {x, z} : q.lo[n] = v.lo[n] /\ q.hi[n] = v.hi[n]
  <2>1. v \in Views /\ x \in Node /\ z \in Node /\ z # x
    BY <1>2, <1>3
  <2> QED BY <2>1, TurnedIs
<1> HIDE DEF q
<1>5. /\ u \in Trees
      /\ u.lr[x][1 - r] = y /\ u.lr[x][r] = t.lr[x][r]
      /\ u.lr[z][r] = x /\ u.lr[z][1 - r] = t.lr[z][1 - r]
      /\ \A n \in Node \ {x, z} : \A s \in Side :
           u.lr[n][s] = IF n = p /\ s = Index(t.lr[n][1] = x) THEN z ELSE t.lr[n][s]
      /\ \A n \in Node : u.up[n] = IF n = z THEN p ELSE IF n = x THEN z
                                   ELSE IF n = y THEN x ELSE t.up[n]
  BY Zenon DEF Rotated
(* The parent had x on one side, and has z there.                          *)
<1>6. \A n \in M \ {x, z} : \A s \in Side :
         u.lr[n][s] = IF t.lr[n][s] = x THEN z ELSE t.lr[n][s]
  <2> SUFFICES ASSUME NEW n \in M \ {x, z}, NEW s \in Side
               PROVE  u.lr[n][s] = IF t.lr[n][s] = x THEN z ELSE t.lr[n][s]
    OBVIOUS
  <2>1. s = 0 \/ s = 1
    BY ZenonT(30) DEF Side
  <2>2. t.lr[n][0] = x \/ t.lr[n][1] = x => n = p
    <3>1. \A i \in Side : t.lr[n][i] = x => t.up[x] = n
      <4>1. x # NULL
        BY <1>3
      <4> QED BY <4>1, ChildOf DEF Child
    <3> QED BY <3>1 DEF Side
  <2>3. n = p => (t.lr[n][0] = x \/ t.lr[n][1] = x) /\ (t.lr[n][0] # x \/ t.lr[n][1] # x)
    <3>1. n = p => t.lr[n][0] = x \/ t.lr[n][1] = x
      <4>1. IF x = w THEN p = NULL ELSE p \in M /\ (t.lr[p][0] = x \/ t.lr[p][1] = x)
        BY <1>3, Zenon DEF Linked
      <4> QED BY <1>3, <4>1
    <3>2. t.lr[n][0] = x => t.lr[n][1] # x
      <4>1. 0 \in Side /\ 1 - 0 = 1 /\ x # NULL
        BY <1>3 DEF Side
      <4>2. Child(t, n, 0, x) => t.lr[n][1 - 0] # x
        BY <4>1, ChildOf
      <4> QED BY <4>2 DEF Child
    <3> QED BY <3>1, <3>2
  <2>4. u.lr[n][s] = IF n = p /\ s = Index(t.lr[n][1] = x) THEN z ELSE t.lr[n][s]
    BY <1>3, <1>5, ZenonT(30)
  <2> QED BY <2>1, <2>2, <2>3, <2>4 DEF Index
<1>7. k \in M
  BY <1>2, <1>3, ZenonT(30)
<1>8. Linked(u, M, k)
  <2>0. \A m \in M : /\ m # NULL
                     /\ u.up[m] = IF m = z THEN p ELSE IF m = x THEN z
                                  ELSE IF m = y THEN x ELSE t.up[m]
    BY <1>3, <1>5, Zenon
  <2>1. ASSUME NEW n \in M, NEW s \in Side, NEW c, Child(u, n, s, c), c # NULL
        PROVE  c \in M /\ u.up[c] = n
    <3>1. s = r \/ s = 1 - r
      BY <1>1 DEF Side
    <3>2. ASSUME NEW e, Child(t, n, s, e), e # NULL
          PROVE  e \in M /\ e # n /\ t.up[e] = n /\ t.lr[n][1 - s] # e
      BY <3>2, ChildOf
    <3>3. CASE n = x
      <4>1. CASE s = 1 - r
        <5>1. c = y
          BY <1>5, <2>1, <3>3, <4>1 DEF Child
        <5> QED BY <1>2, <2>0, <2>1, <3>3, <5>1
      <4>2. CASE s = r
        <5>1. Child(t, n, s, c)
          BY <1>5, <2>1, <3>3, <4>2 DEF Child
        <5>3. c # z
          BY <1>2, <3>3, <4>2, <5>1 DEF Child
        <5>2. c \in M /\ c # x /\ t.up[c] = x
          BY <2>1, <3>2, <3>3, <5>1
        <5> QED BY <2>0, <3>3, <5>2, <5>3
      <4> QED BY <3>1, <4>1, <4>2
    <3>4. CASE n = z
      <4>1. CASE s = r
        <5>1. c = x
          BY <1>5, <2>1, <3>4, <4>1 DEF Child
        <5> QED BY <1>2, <2>0, <2>1, <3>4, <5>1
      <4>2. CASE s = 1 - r
        <5>1. Child(t, n, s, c)
          BY <1>5, <2>1, <3>4, <4>2 DEF Child
        <5>2. 1 - s = r
          BY <1>1, <4>2
        <5>3. c \in M /\ c # z /\ t.up[c] = z /\ t.lr[z][r] # c
          BY <2>1, <3>2, <3>4, <5>1, <5>2
        <5>4. c # x /\ c # y
          BY <1>2, <5>3 DEF Child
        <5> QED BY <2>0, <3>4, <5>3, <5>4
      <4> QED BY <3>1, <4>1, <4>2
    <3>5. CASE n # x /\ n # z
      <4>1. PICK e : Child(t, n, s, e)
        BY DEF Child
      <4>2. c = IF e = x THEN z ELSE e
        BY <1>6, <2>1, <3>5, <4>1 DEF Child
      <4>3. e # NULL
        BY <1>3, <2>0, <2>1, <3>5, <4>2
      <4>4. e \in M /\ t.up[e] = n
        BY <3>2, <4>1, <4>3
      <4>5. e # z /\ (e = y => y = NULL)
        BY <1>2, <3>5, <4>4
      <4> QED BY <1>2, <2>0, <4>2, <4>3, <4>4, <4>5
    <3> QED BY <3>3, <3>4, <3>5
  <2>2. ASSUME NEW n \in M
        PROVE  IF n = k THEN u.up[n] = NULL
               ELSE u.up[n] \in M /\ (u.lr[u.up[n]][0] = n \/ u.lr[u.up[n]][1] = n)
    <3>1. IF n = w THEN t.up[n] = NULL
          ELSE t.up[n] \in M /\ (t.lr[t.up[n]][0] = n \/ t.lr[t.up[n]][1] = n)
      BY <1>3, Zenon DEF Linked
    <3>2. IF x = w THEN p = NULL
          ELSE p \in M /\ (t.lr[p][0] = x \/ t.lr[p][1] = x)
      BY <1>3, Zenon DEF Linked
    <3>3. 0 \in Side /\ 1 \in Side /\ NULL \notin M
      BY <1>3 DEF Side
    <3>4. CASE n = z
      <4>1. u.up[n] = p
        BY <1>2, <1>3, <1>5, <3>4, ZenonT(30)
      <4>2. CASE x = w
        BY <3>2, <3>4, <4>1, <4>2
      <4>3. CASE x # w
        <5>1. p \in M \ {x, z} /\ (t.lr[p][0] = x \/ t.lr[p][1] = x)
          BY <1>2, <3>2, <4>3, ZenonT(30)
        <5>2. u.lr[p][0] = z \/ u.lr[p][1] = z
          BY <1>6, <3>3, <5>1, ZenonT(30)
        <5>3. k # z
          <6>1. t.up[w] = NULL
            BY <1>3, ShapeIs
          <6> QED BY <1>2, <3>3, <4>3, <6>1, ZenonT(30)
        <5> QED BY <3>4, <4>1, <5>1, <5>2, <5>3, ZenonT(30)
      <4> QED BY <4>2, <4>3, ZenonT(30)
    <3>5. CASE n = x
      BY <1>1, <1>2, <1>3, <1>5, <3>3, <3>5, ZenonT(30)
    <3>6. CASE n = y
      <4>1. y # w
        <5>1. t.up[w] = NULL
          BY <1>3, ShapeIs
        <5> QED BY <1>2, <3>3, <3>6, <5>1, ZenonT(30)
      <4>2. u.up[y] = x /\ k # y
        BY <1>2, <1>3, <1>5, <3>3, <3>6, <4>1, ZenonT(30)
      <4> QED BY <1>1, <1>5, <3>6, <4>2, SMTT(30)
    <3>7. CASE n # z /\ n # x /\ n # y
      <4>1. u.up[n] = t.up[n]
        BY <1>3, <1>5, <3>7, ZenonT(30)
      <4>2. CASE t.up[n] = x
        <5>1. n # w /\ (t.lr[x][0] = n \/ t.lr[x][1] = n)
          BY <3>1, <3>3, <4>2
        <5>2. u.lr[x][r] = n
          <6>1. t.lr[x][r] = n
            BY <1>1, <3>7, <5>1 DEF Child
          <6> QED BY <1>5, <6>1
        <5> QED BY <1>1, <3>7, <4>1, <4>2, <5>1, <5>2
      <4>3. CASE t.up[n] = z
        <5>1. n # w /\ (t.lr[z][0] = n \/ t.lr[z][1] = n)
          BY <1>2, <3>1, <3>3, <4>3
        <5>2. u.lr[z][1 - r] = n
          <6>1. t.lr[z][1 - r] = n
            BY <1>1, <3>7, <5>1 DEF Child
          <6> QED BY <1>5, <6>1
        <5> QED BY <1>1, <1>2, <3>7, <4>1, <4>3, <5>1, <5>2
      <4>4. CASE t.up[n] # x /\ t.up[n] # z
        BY <1>2, <1>3, <1>6, <3>1, <3>2, <3>3, <3>7, <4>1, <4>4, SMTT(30)
      <4> QED BY <4>2, <4>3, <4>4, ZenonT(30)
    <3> QED BY <3>4, <3>5, <3>6, <3>7
  <2> HIDE DEF k
  <2>3. \A n \in M : \A s \in Side :
          u.lr[n][s] # NULL => u.lr[n][s] \in M /\ u.up[u.lr[n][s]] = n
    BY <2>1 DEF Child
  <2> QED BY <1>7, <2>2, <2>3, Zenon DEF Linked
<1>9. Spanned(u, M, k, q)
  <2>1. \A n \in M : /\ n \in Node /\ v.lo[n] \in Int /\ v.hi[n] \in Int /\ v.pos[n] \in Int
                     /\ v.lo[n] <= v.pos[n] /\ v.pos[n] <= v.hi[n]
    BY ShapeIs
  <2>2. \A n \in M :
          /\ IF t.lr[n][0] = NULL THEN v.lo[n] = v.pos[n]
             ELSE v.lo[t.lr[n][0]] = v.lo[n] /\ v.hi[t.lr[n][0]] = v.pos[n] - 1
          /\ IF t.lr[n][1] = NULL THEN v.hi[n] = v.pos[n]
             ELSE v.lo[t.lr[n][1]] = v.pos[n] + 1 /\ v.hi[t.lr[n][1]] = v.hi[n]
    BY <1>3, Zenon DEF Spanned
  <2>3. v.lo[w] = 1 /\ v.hi[w] = v.size
    BY <1>3 DEF Spanned
  <2>4. ASSUME NEW n \in M
        PROVE  /\ q.lo[n] <= q.pos[n] /\ q.pos[n] <= q.hi[n]
               /\ IF u.lr[n][0] = NULL THEN q.lo[n] = q.pos[n]
                  ELSE q.lo[u.lr[n][0]] = q.lo[n] /\ q.hi[u.lr[n][0]] = q.pos[n] - 1
               /\ IF u.lr[n][1] = NULL THEN q.hi[n] = q.pos[n]
                  ELSE q.lo[u.lr[n][1]] = q.pos[n] + 1 /\ q.hi[u.lr[n][1]] = q.hi[n]
    <3>3. CASE n # x /\ n # z
      <4>1. ASSUME NEW s \in Side, NEW e, Child(t, n, s, e), NEW f, Child(u, n, s, f)
            PROVE  /\ f = NULL <=> e = NULL
                   /\ e # NULL => q.lo[f] = v.lo[e] /\ q.hi[f] = v.hi[e]
        <5>1. f = IF e = x THEN z ELSE e
          BY <1>6, <3>3, <4>1 DEF Child
        <5>2. e # NULL => e \in M /\ t.up[e] = n
          BY <4>1, ChildOf
        <5>3. e # z /\ x # NULL /\ z # NULL
          BY <1>2, <1>3, <3>3, <5>2
        <5> QED BY <1>3, <1>4, <5>1, <5>2, <5>3
      <4>2. 0 \in Side /\ 1 \in Side
        BY DEF Side
      <4>3. n \in Node \ {x, z}
        BY <1>3, <3>3
      <4>4. q.lo[n] = v.lo[n] /\ q.hi[n] = v.hi[n] /\ q.pos[n] = v.pos[n]
        BY <1>4, <4>3
      <4>5. IF u.lr[n][0] = NULL THEN q.lo[n] = q.pos[n]
            ELSE q.lo[u.lr[n][0]] = q.lo[n] /\ q.hi[u.lr[n][0]] = q.pos[n] - 1
        <5>1. PICK e, f : Child(t, n, 0, e) /\ Child(u, n, 0, f)
          BY DEF Child
        <5>2. /\ f = NULL <=> e = NULL
              /\ e # NULL => q.lo[f] = v.lo[e] /\ q.hi[f] = v.hi[e]
          BY <4>1, <4>2, <5>1
        <5>3. IF e = NULL THEN v.lo[n] = v.pos[n]
              ELSE v.lo[e] = v.lo[n] /\ v.hi[e] = v.pos[n] - 1
          BY <2>2, <5>1 DEF Child
        <5>4. IF f = NULL THEN q.lo[n] = q.pos[n]
              ELSE q.lo[f] = q.lo[n] /\ q.hi[f] = q.pos[n] - 1
          BY <4>4, <5>2, <5>3
        <5> QED BY <5>1, <5>4 DEF Child
      <4>6. IF u.lr[n][1] = NULL THEN q.hi[n] = q.pos[n]
            ELSE q.lo[u.lr[n][1]] = q.pos[n] + 1 /\ q.hi[u.lr[n][1]] = q.hi[n]
        <5>1. PICK e, f : Child(t, n, 1, e) /\ Child(u, n, 1, f)
          BY DEF Child
        <5>2. /\ f = NULL <=> e = NULL
              /\ e # NULL => q.lo[f] = v.lo[e] /\ q.hi[f] = v.hi[e]
          BY <4>1, <4>2, <5>1
        <5>3. IF e = NULL THEN v.hi[n] = v.pos[n]
              ELSE v.lo[e] = v.pos[n] + 1 /\ v.hi[e] = v.hi[n]
          BY <2>2, <5>1 DEF Child
        <5>4. IF f = NULL THEN q.hi[n] = q.pos[n]
              ELSE q.lo[f] = q.pos[n] + 1 /\ q.hi[f] = q.hi[n]
          BY <4>4, <5>2, <5>3
        <5> QED BY <5>1, <5>4 DEF Child
      <4>7. q.lo[n] <= q.pos[n] /\ q.pos[n] <= q.hi[n]
        BY <2>1, <4>4
      <4> QED BY <4>5, <4>6, <4>7
    <3>4. x \in Node /\ z \in Node /\ x # NULL /\ z # NULL
      BY <1>2, <1>3, ZenonT(30)
    <3>5. y # NULL => y \in M /\ y \in Node /\ q.lo[y] = v.lo[y] /\ q.hi[y] = v.hi[y]
      BY <1>2, <1>3, <1>4, ZenonT(30)
    <3>6. \A m \in M \ {x, z} : q.lo[m] = v.lo[m] /\ q.hi[m] = v.hi[m]
      BY <1>3, <1>4, ZenonT(30)
    <3>7. t.lr[x][r] # NULL => t.lr[x][r] \in M \ {x, z}
      <4>1. PICK e : Child(t, x, r, e)
        BY DEF Child
      <4>2. e # NULL => e \in M /\ e # x
        BY <4>1, ChildOf
      <4>3. e # z
        BY <1>2, <4>1 DEF Child
      <4> QED BY <4>1, <4>2, <4>3 DEF Child
    <3>8. t.lr[z][1 - r] # NULL => t.lr[z][1 - r] \in M \ {x, z}
      <4>1. PICK e : Child(t, z, 1 - r, e)
        BY DEF Child
      <4>2. 1 - r \in Side
        BY <1>1 DEF Side
      <4>3. e # NULL => e \in M /\ e # z /\ t.up[e] = z
        BY <1>2, <4>1, <4>2, ChildOf
      <4> QED BY <1>2, <4>1, <4>3 DEF Child
    <3>9. CASE r = 1
      <4>1. /\ q.lo[x] = v.pos[z] + 1 /\ q.hi[x] = v.hi[x] /\ u.lr[x][0] = y
            /\ u.lr[x][1] = t.lr[x][1] /\ u.lr[z][1] = x /\ u.lr[z][0] = t.lr[z][0]
            /\ t.lr[x][0] = z /\ t.lr[z][1] = y
        BY <1>4, <1>5, <3>9 DEF Child
      <4>2. v.lo[z] = v.lo[x] /\ v.hi[z] = v.pos[x] - 1
        BY <1>2, <2>2, <3>4, <4>1, ZenonT(30)
      <4>3. IF y = NULL THEN v.hi[z] = v.pos[z] ELSE v.lo[y] = v.pos[z] + 1 /\ v.hi[y] = v.hi[z]
        BY <1>2, <2>2, <4>1, ZenonT(30)
      <4>4. /\ t.lr[x][1] # NULL => t.lr[x][1] \in M \ {x, z}
            /\ t.lr[z][0] # NULL => t.lr[z][0] \in M \ {x, z}
        BY <3>7, <3>8, <3>9
      <4>5. IF t.lr[x][1] = NULL THEN v.hi[x] = v.pos[x]
               ELSE q.lo[t.lr[x][1]] = v.pos[x] + 1 /\ q.hi[t.lr[x][1]] = v.hi[x]
        BY <2>2, <3>6, <4>4, ZenonT(30)
      <4>6. IF t.lr[z][0] = NULL THEN v.lo[z] = v.pos[z]
               ELSE q.lo[t.lr[z][0]] = v.lo[z] /\ q.hi[t.lr[z][0]] = v.pos[z] - 1
        BY <1>2, <2>2, <3>6, <4>4, ZenonT(30)
      <4>7. /\ v.lo[x] \in Int /\ v.hi[x] \in Int /\ v.pos[x] \in Int
            /\ v.lo[x] <= v.pos[x] /\ v.pos[x] <= v.hi[x]
            /\ v.lo[z] \in Int /\ v.hi[z] \in Int /\ v.pos[z] \in Int
            /\ v.lo[z] <= v.pos[z] /\ v.pos[z] <= v.hi[z]
            /\ y # NULL => v.lo[y] \in Int /\ v.hi[y] \in Int
        BY <1>2, <2>1, ZenonT(30)
      <4>8. CASE n = x
        <5>1. q.lo[x] <= v.pos[x] /\ v.pos[x] <= q.hi[x]
          <6>1. q.lo[x] = v.pos[z] + 1 /\ q.hi[x] = v.hi[x]
            BY <4>1
          <6> QED BY <4>2, <4>7, <6>1
        <5>2. IF u.lr[x][0] = NULL THEN q.lo[x] = v.pos[x]
              ELSE q.lo[u.lr[x][0]] = q.lo[x] /\ q.hi[u.lr[x][0]] = v.pos[x] - 1
          <6>1. CASE y = NULL
            <7>1. u.lr[x][0] = NULL
              BY <4>1, <6>1
            <7>2. v.pos[z] = v.hi[z]
              BY <4>3, <6>1, ZenonT(30)
            <7>3. q.lo[x] = v.hi[z] + 1
              BY <4>1, <7>2, ZenonT(30)
            <7>4. v.hi[z] + 1 = v.pos[x]
              BY <4>2, <4>7
            <7> QED BY <7>1, <7>3, <7>4
          <6>2. CASE y # NULL
            <7>1. u.lr[x][0] = y /\ q.lo[y] = v.lo[y] /\ q.hi[y] = v.hi[y]
              BY <3>5, <4>1, <6>2, ZenonT(30)
            <7>2. v.lo[y] = q.lo[x] /\ v.hi[y] = v.pos[x] - 1
              BY <4>1, <4>2, <4>3, <6>2, ZenonT(30)
            <7> QED BY <6>2, <7>1, <7>2, ZenonT(30)
          <6> QED BY <6>1, <6>2
        <5>3. IF u.lr[x][1] = NULL THEN q.hi[x] = v.pos[x]
              ELSE q.lo[u.lr[x][1]] = v.pos[x] + 1 /\ q.hi[u.lr[x][1]] = q.hi[x]
          BY <3>4, <3>5, <4>1, <4>2, <4>3, <4>5, <4>7, ZenonT(30)
        <5>4. q.pos[x] = v.pos[x]
          BY <1>4
        <5> QED BY <4>8, <5>1, <5>2, <5>3, <5>4, ZenonT(30)
      <4>9. CASE n = z
        <5>1. q.lo[z] <= v.pos[z] /\ v.pos[z] <= q.hi[z]
          <6>1. q.lo[z] = v.lo[x] /\ q.hi[z] = v.hi[x]
            BY <1>4
          <6> QED BY <4>2, <4>7, <6>1
        <5>2. IF u.lr[z][0] = NULL THEN q.lo[z] = v.pos[z]
              ELSE q.lo[u.lr[z][0]] = q.lo[z] /\ q.hi[u.lr[z][0]] = v.pos[z] - 1
          BY <1>4, <3>4, <4>1, <4>2, <4>6, <4>7, ZenonT(30)
        <5>3. IF u.lr[z][1] = NULL THEN q.hi[z] = v.pos[z]
              ELSE q.lo[u.lr[z][1]] = v.pos[z] + 1 /\ q.hi[u.lr[z][1]] = q.hi[z]
          BY <1>4, <3>4, <4>1, <4>2, <4>6, <4>7, ZenonT(30)
        <5>4. q.pos[z] = v.pos[z]
          BY <1>4, ZenonT(30)
        <5> QED BY <4>9, <5>1, <5>2, <5>3, <5>4, ZenonT(40)
      <4> QED BY <3>3, <4>8, <4>9, ZenonT(30)
    <3>10. CASE r = 0
      <4>1. /\ q.lo[x] = v.lo[x] /\ q.hi[x] = v.pos[z] - 1 /\ u.lr[x][1] = y
            /\ u.lr[x][0] = t.lr[x][0] /\ u.lr[z][0] = x /\ u.lr[z][1] = t.lr[z][1]
            /\ t.lr[x][1] = z /\ t.lr[z][0] = y
        BY <1>4, <1>5, <3>10 DEF Child
      <4>2. v.lo[z] = v.pos[x] + 1 /\ v.hi[z] = v.hi[x]
        BY <1>2, <2>2, <3>4, <4>1, ZenonT(30)
      <4>3. IF y = NULL THEN v.lo[z] = v.pos[z] ELSE v.lo[y] = v.lo[z] /\ v.hi[y] = v.pos[z] - 1
        BY <1>2, <2>2, <4>1, ZenonT(30)
      <4>4. /\ t.lr[x][0] # NULL => t.lr[x][0] \in M \ {x, z}
            /\ t.lr[z][1] # NULL => t.lr[z][1] \in M \ {x, z}
        BY <3>7, <3>8, <3>10
      <4>5. IF t.lr[x][0] = NULL THEN v.lo[x] = v.pos[x]
               ELSE q.lo[t.lr[x][0]] = v.lo[x] /\ q.hi[t.lr[x][0]] = v.pos[x] - 1
        BY <2>2, <3>6, <4>4, ZenonT(30)
      <4>6. IF t.lr[z][1] = NULL THEN v.hi[z] = v.pos[z]
               ELSE q.lo[t.lr[z][1]] = v.pos[z] + 1 /\ q.hi[t.lr[z][1]] = v.hi[z]
        BY <1>2, <2>2, <3>6, <4>4, ZenonT(30)
      <4>7. /\ v.lo[x] \in Int /\ v.hi[x] \in Int /\ v.pos[x] \in Int
            /\ v.lo[x] <= v.pos[x] /\ v.pos[x] <= v.hi[x]
            /\ v.lo[z] \in Int /\ v.hi[z] \in Int /\ v.pos[z] \in Int
            /\ v.lo[z] <= v.pos[z] /\ v.pos[z] <= v.hi[z]
            /\ y # NULL => v.lo[y] \in Int /\ v.hi[y] \in Int
        BY <1>2, <2>1
      <4>8. CASE n = x
        <5>1. q.lo[x] <= v.pos[x] /\ v.pos[x] <= q.hi[x]
          <6>1. q.lo[x] = v.lo[x] /\ q.hi[x] = v.pos[z] - 1
            BY <4>1
          <6> QED BY <4>2, <4>7, <6>1
        <5>2. IF u.lr[x][0] = NULL THEN q.lo[x] = v.pos[x]
              ELSE q.lo[u.lr[x][0]] = q.lo[x] /\ q.hi[u.lr[x][0]] = v.pos[x] - 1
          BY <3>4, <3>5, <4>1, <4>2, <4>3, <4>5, <4>7, ZenonT(30)
        <5>3. IF u.lr[x][1] = NULL THEN q.hi[x] = v.pos[x]
              ELSE q.lo[u.lr[x][1]] = v.pos[x] + 1 /\ q.hi[u.lr[x][1]] = q.hi[x]
          <6>1. CASE y = NULL
            <7>1. u.lr[x][1] = NULL
              BY <4>1, <6>1
            <7>2. v.pos[z] = v.lo[z]
              BY <4>3, <6>1
            <7>3. q.hi[x] = v.lo[z] - 1
              BY <4>1, <7>2, ZenonT(30)
            <7>4. v.lo[z] - 1 = v.pos[x]
              BY <4>2, <4>7
            <7> QED BY <7>1, <7>3, <7>4
          <6>2. CASE y # NULL
            <7>1. u.lr[x][1] = y /\ q.lo[y] = v.lo[y] /\ q.hi[y] = v.hi[y]
              BY <3>5, <4>1, <6>2, ZenonT(30)
            <7>2. v.lo[y] = v.pos[x] + 1 /\ v.hi[y] = q.hi[x]
              BY <4>1, <4>2, <4>3, <6>2, ZenonT(30)
            <7> QED BY <6>2, <7>1, <7>2, ZenonT(30)
          <6> QED BY <6>1, <6>2
        <5>4. q.pos[x] = v.pos[x]
          BY <1>4
        <5> QED BY <4>8, <5>1, <5>2, <5>3, <5>4
      <4>9. CASE n = z
        <5>1. q.lo[z] <= v.pos[z] /\ v.pos[z] <= q.hi[z]
          <6>1. q.lo[z] = v.lo[x] /\ q.hi[z] = v.hi[x]
            BY <1>4
          <6> QED BY <4>2, <4>7, <6>1
        <5>2. IF u.lr[z][0] = NULL THEN q.lo[z] = v.pos[z]
              ELSE q.lo[u.lr[z][0]] = q.lo[z] /\ q.hi[u.lr[z][0]] = v.pos[z] - 1
          BY <1>4, <3>4, <4>1, <4>2, <4>6, <4>7, ZenonT(30)
        <5>3. IF u.lr[z][1] = NULL THEN q.hi[z] = v.pos[z]
              ELSE q.lo[u.lr[z][1]] = v.pos[z] + 1 /\ q.hi[u.lr[z][1]] = q.hi[z]
          BY <1>4, <3>4, <4>1, <4>2, <4>6, <4>7, ZenonT(30)
        <5>4. q.pos[z] = v.pos[z]
          BY <1>4
        <5> QED BY <4>9, <5>1, <5>2, <5>3, <5>4
      <4> QED BY <3>3, <4>8, <4>9
    <3> QED BY <1>1, <3>9, <3>10, ZenonT(30)
  <2>5. q.lo[k] = 1 /\ q.hi[k] = q.size
    <3>1. CASE w = x
      BY <1>4, <2>3, <3>1
    <3>2. CASE w # x
      <4>1. w # z
        <5>1. t.up[w] = NULL /\ NULL \notin M
          BY <1>3, ShapeIs
        <5> QED BY <1>2, <5>1, ZenonT(30)
      <4> QED BY <1>3, <1>4, <2>1, <2>3, <3>2, <4>1, ZenonT(30)
    <3> QED BY <3>1, <3>2
  <2>6. ASSUME NEW n \in M PROVE 1 <= q.lo[n] /\ q.hi[n] <= q.size
    <3>1. \A m \in M : 1 <= v.lo[m] /\ v.hi[m] <= v.size
      BY <1>3, ZenonT(40) DEF Spanned
    <3>2. v.lo[x] <= v.lo[z] /\ v.hi[z] <= v.hi[x] /\ v.size \in Nat
      <4>1. t.up[z] # NULL
        BY <1>2, <1>3, ZenonT(30)
      <4>2. v.lo[t.up[z]] <= v.lo[z] /\ v.hi[z] <= v.hi[t.up[z]]
        BY <1>2, <4>1, ChildIs, ZenonT(30)
      <4>3. v.size \in Nat
        BY <1>3 DEF Views
      <4> QED BY <1>2, <4>2, <4>3
    <3>3. CASE n # x /\ n # z
      BY <1>3, <1>4, <3>1, <3>3
    <3>4. CASE n = z
      BY <1>4, <3>1, <3>4, ZenonT(30)
    <3>5. CASE n = x /\ r = 1
      BY <1>2, <1>4, <2>1, <3>1, <3>2, <3>5
    <3>6. CASE n = x /\ r = 0
      BY <1>2, <1>4, <2>1, <3>1, <3>2, <3>6
    <3> QED BY <1>1, <3>3, <3>4, <3>5, <3>6, ZenonT(30)
  <2> HIDE DEF k
  <2> QED BY <2>4, <2>5, <2>6, Zenon DEF Spanned
<1>10. k \in Link
  BY <1>3, <1>7 DEF Link
<1> HIDE DEF k
<1>11. Shape(u, M, k, q)
  BY <1>3, <1>4, <1>5, <1>8, <1>9, <1>10, Zenon DEF Shape
<1> QED BY <1>11 DEF k, q

(* One rotation, as far as the rest of the tree is concerned.              *)
Turn(t, M, v, u, q, x, z, r) ==
    /\ u.root = t.root /\ u.bf = t.bf
    /\ q.size = v.size /\ q.pos = v.pos
    /\ u.lr[x][1 - r] = t.lr[z][r] /\ u.lr[x][r] = t.lr[x][r]
    /\ u.lr[z][r] = x /\ u.lr[z][1 - r] = t.lr[z][1 - r]
    /\ u.up[z] = t.up[x] /\ \A n \in M \ {x, z, t.lr[z][r]} : u.up[n] = t.up[n]
    /\ \A n \in M \ {x, z} : q.lo[n] = v.lo[n] /\ q.hi[n] = v.hi[n]
    /\ \A n \in M \ {x, z} : \A s \in Side :
         u.lr[n][s] = IF t.lr[n][s] = x THEN z ELSE t.lr[n][s]
    /\ \A n \in Node \ M : u.lr[n] = t.lr[n] /\ u.up[n] = t.up[n]

LEMMA RotateHolds ==
    ASSUME NEW t, NEW M, NEW w, NEW v, Shape(t, M, w, v), NEW x \in M, NEW r \in Side,
           t.lr[x][1 - r] # NULL, NEW z, z = t.lr[x][1 - r],
           NEW u, u = cavlPrivateRotate(t, x, r)
    PROVE  \E q : /\ Shape(u, M, IF w = x THEN z ELSE w, q)
                  /\ Turn(t, M, v, u, q, x, z, r)
<1> DEFINE y == t.lr[z][r]
           q == Turned(v, x, z, r)
           p == t.up[x]
<1>1. /\ z \in M /\ y \in M \cup {NULL} /\ y \in Link
      /\ z # x /\ y # x /\ y # z
      /\ t.lr[x][r] # z /\ t.lr[x][r] # x
      /\ p # x /\ p # z /\ t.up[z] = x /\ (y # NULL => t.up[y] = z)
  BY RotationIs DEF Child
<1>2. /\ t \in Trees /\ M \in SUBSET Node /\ v \in Views /\ NULL \notin Node
      /\ p \in M \cup {NULL}
  BY ShapeIs
<1>3. Rotated(t, u, x, z, y, r)
  <2>1. x \in Node /\ z \in Node /\ y = t.lr[z][r]
    BY <1>1, <1>2
  <2> HIDE DEF y
  <2> QED BY <1>1, <1>2, <2>1, RotateIs
<1>4. Shape(u, M, IF w = x THEN z ELSE w, q)
  <2>1. Child(t, x, 1 - r, z) /\ z # NULL /\ Child(t, z, r, y)
    BY DEF Child
  <2> HIDE DEF y, q
  <2> QED BY <1>3, <2>1, RotatedShape DEF q
<1>5. /\ q.size = v.size /\ q.pos = v.pos
      /\ \A n \in M \ {x, z} : q.lo[n] = v.lo[n] /\ q.hi[n] = v.hi[n]
  <2>1. x \in Node /\ z \in Node
    BY <1>1, <1>2
  <2> QED BY <1>1, <1>2, <2>1, TurnedIs
<1> HIDE DEF q
<1>6. /\ u \in Trees /\ u.root = t.root /\ u.bf = t.bf
      /\ u.lr[x][1 - r] = y /\ u.lr[x][r] = t.lr[x][r]
      /\ u.lr[z][r] = x /\ u.lr[z][1 - r] = t.lr[z][1 - r]
      /\ \A n \in Node \ {x, z} : \A s \in Side :
           u.lr[n][s] = IF n = p /\ s = Index(t.lr[n][1] = x) THEN z ELSE t.lr[n][s]
      /\ \A n \in Node : u.up[n] = IF n = z THEN p ELSE IF n = x THEN z
                                   ELSE IF n = y THEN x ELSE t.up[n]
  BY <1>3, Zenon DEF Rotated
<1>7. ASSUME NEW n \in M \ {x, z}, NEW s \in Side
      PROVE  u.lr[n][s] = IF t.lr[n][s] = x THEN z ELSE t.lr[n][s]
  <2>1. s = 0 \/ s = 1
    BY DEF Side
  <2>2. t.lr[n][0] = x \/ t.lr[n][1] = x => n = p
    BY <1>2, ChildIs
  <2>3. n = p => (t.lr[n][0] = x \/ t.lr[n][1] = x) /\ (t.lr[n][0] # x \/ t.lr[n][1] # x)
    BY <1>2, ChildIs
  <2>4. u.lr[n][s] = IF n = p /\ s = Index(t.lr[n][1] = x) THEN z ELSE t.lr[n][s]
    BY <1>2, <1>6
  <2> QED BY <2>1, <2>2, <2>3, <2>4 DEF Index
<1>8. ASSUME NEW n \in Node \ M PROVE u.lr[n] = t.lr[n] /\ u.up[n] = t.up[n]
  <2>1. n # x /\ n # z /\ n # y /\ n # p
    BY <1>1, <1>2
  <2>2. u.lr[n] \in [Side -> Link] /\ t.lr[n] \in [Side -> Link]
    BY <1>2, <1>6 DEF Trees
  <2>3. \A s \in Side : u.lr[n][s] = t.lr[n][s]
    BY <1>6, <2>1
  <2> QED BY <1>6, <2>1, <2>2, <2>3
<1>9. u.up[z] = t.up[x] /\ \A n \in M \ {x, z, y} : u.up[n] = t.up[n]
  BY <1>1, <1>2, <1>6, ZenonT(30)
<1>10. Turn(t, M, v, u, q, x, z, r)
  BY <1>5, <1>6, <1>7, <1>8, <1>9, ZenonT(30) DEF Turn
<1> QED BY <1>4, <1>10, ZenonT(30)

(* The balance factors have no part in the shape.                          *)
LEMMA ShapeOfLinks ==
    ASSUME NEW t, NEW M, NEW w, NEW v, Shape(t, M, w, v),
           NEW u \in Trees, u.lr = t.lr, u.up = t.up
    PROVE  Shape(u, M, w, v)
BY DEF Shape, Linked, Spanned

-----------------------------------------------------------------------------
(* Heights.  H gives the height of every subtree; one node may be out of   *)
(* step with it, the one whose balance has still to be adjusted.           *)

Higher(a, b) == IF a > b THEN a ELSE b

Level(t, H, n) ==
    /\ t.bf[n] = H[t.lr[n][1]] - H[t.lr[n][0]]
    /\ H[n] = 1 + Higher(H[t.lr[n][0]], H[t.lr[n][1]])

Heights(t, M, H, e) ==
    /\ H \in [Link -> Nat] /\ H[NULL] = 0
    /\ \A n \in M \ {e} : Level(t, H, n)

(* An adjustment at x: all but the parent of x is level again, and for the *)
(* parent top stands where x stood.                                        *)
Adjusted(t, M, v, H, u, q, G, x, top) ==
    /\ top \in M /\ u.root = t.root /\ u.up[top] = t.up[x]
    /\ q.size = v.size /\ q.pos = v.pos
    /\ G \in [Link -> Nat] /\ G[NULL] = 0
    /\ \A n \in M \ {t.up[x]} : Level(u, G, n)
    /\ \A p \in M : p = t.up[x] =>
         /\ q.lo[p] = v.lo[p] /\ q.hi[p] = v.hi[p] /\ u.bf[p] = t.bf[p] /\ G[p] = H[p]
         /\ \A s \in Side : IF t.lr[p][s] = x THEN u.lr[p][s] = top
                            ELSE u.lr[p][s] = t.lr[p][s] /\ G[t.lr[p][s]] = H[t.lr[p][s]]
    /\ \A n \in Node \ M : u.lr[n] = t.lr[n] /\ u.up[n] = t.up[n] /\ u.bf[n] = t.bf[n]

(* What is below one node is not below another.                            *)
LEMMA ApartFrom ==
    ASSUME NEW t, NEW M, NEW w, NEW v, Shape(t, M, w, v), NEW n \in M, NEW x \in M,
           NEW s \in Side
    PROVE  /\ t.lr[n][s] = x => t.up[x] = n
           /\ t.lr[n][s] # n
           /\ t.lr[n][s] \in M \cup {NULL} /\ t.lr[n][s] \in Link
           /\ t.lr[n][s] # NULL => t.up[t.lr[n][s]] = n
           /\ t.lr[n][s] # NULL => t.lr[n][1 - s] # t.lr[n][s]
<1>1. s = 0 \/ s = 1
  BY DEF Side
<1>2. n \in Node /\ NULL \notin M /\ M \subseteq Node
  BY ShapeIs
<1> QED BY <1>1, <1>2, ChildIs, ShapeIs DEF Link

(* A single rotation restores the balance.                                 *)
LEMMA SingleHolds ==
    ASSUME NEW t, NEW M, NEW w, NEW v, Shape(t, M, w, v), NEW x \in M, NEW r \in Side,
           NEW H, Heights(t, M, H, x),
           NEW z, Child(t, x, 1 - r, z), H[z] = H[t.lr[x][r]] + 2,
           t.bf[z] * (IF r = 1 THEN 1 ELSE -1) <= 0,
           NEW u, u = SingleRotation(t, x, r).tree
    PROVE  /\ SingleRotation(t, x, r).top = z
           /\ \E q, G : /\ Shape(u, M, IF w = x THEN z ELSE w, q)
                        /\ Adjusted(t, M, v, H, u, q, G, x, z)
                        /\ G[z] = IF u.bf[z] = 0 THEN H[z] ELSE 1 + H[z]
<1> DEFINE y == t.lr[z][r]
           o == t.lr[z][1 - r]
           d == t.lr[x][r]
           p == t.up[x]
           k == IF w = x THEN z ELSE w
           c == cavlPrivateRotate(t, x, r)
           even == t.bf[z] = 0
           sign == IF r = 1 THEN 1 ELSE -1
<1>1. r = 0 \/ r = 1
  BY DEF Side
<1>2. /\ t \in Trees /\ M \in SUBSET Node /\ v \in Views /\ NULL \notin Node /\ NULL = 0
      /\ p \in M \cup {NULL} /\ 1 - r \in Side
  BY <1>1, ShapeIs DEF Side
<1>3. H \in [Link -> Nat] /\ H[NULL] = 0 /\ \A n \in M \ {x} : Level(t, H, n)
  BY Zenon DEF Heights
<1>sides. /\ Child(t, z, r, y) /\ Child(t, z, 1 - r, o) /\ Child(t, x, r, d)
       /\ H[z] = H[d] + 2
  BY DEF Child
<1> HIDE DEF y, o, d
<1>4. z \in M /\ z # NULL
  <2>1. z \in M \cup {NULL} /\ d \in Link
    BY <1>2, <1>sides, SideOf
  <2>2. z # NULL
    BY <1>3, <1>sides, <2>1
  <2> QED BY <2>1, <2>2
<1>5. /\ y \in M \cup {NULL} /\ o \in M \cup {NULL} /\ d \in M \cup {NULL} /\ z \in M \cup {NULL}
      /\ y \in Link /\ o \in Link /\ d \in Link
  <2>1. y \in M \cup {NULL} /\ y \in Link
    BY <1>4, <1>sides, SideOf
  <2>2. o \in M \cup {NULL} /\ o \in Link
    BY <1>2, <1>4, <1>sides, SideOf
  <2>3. d \in M \cup {NULL} /\ d \in Link
    BY <1>sides, SideOf
  <2> QED BY <1>4, <2>1, <2>2, <2>3
<1>6. /\ z # x /\ y # x /\ y # z /\ d # z /\ d # x /\ p # x /\ p # z /\ t.up[z] = x
      /\ o # z /\ o # x
  <2>1. /\ z # x /\ y # x /\ y # z /\ d # z /\ d # x /\ p # x /\ p # z /\ t.up[z] = x
    <3>1. t.lr[x][r] = d
      BY DEF d
    <3> QED BY <1>4, <1>sides, <3>1, RotationIs
  <2>2. o # z
    BY <1>2, <1>4, <1>sides, SideOf
  <2>3. o = x => t.up[x] = z
    BY <1>2, <1>5, <1>4, <1>sides, SideOf
  <2> QED BY <2>1, <2>2, <2>3
<1>7. PICK q : Shape(c, M, k, q) /\ Turn(t, M, v, c, q, x, z, r)
  BY <1>4, RotateHolds, ZenonT(30) DEF Child
<1>8. /\ c.root = t.root /\ c.bf = t.bf
      /\ q.size = v.size /\ q.pos = v.pos
      /\ c.lr[x][1 - r] = y /\ c.lr[x][r] = d /\ c.lr[z][r] = x /\ c.lr[z][1 - r] = o
      /\ c.up[z] = p
      /\ \A n \in M \ {x, z} : q.lo[n] = v.lo[n] /\ q.hi[n] = v.hi[n]
      /\ \A n \in M \ {x, z} : \A s \in Side :
           c.lr[n][s] = IF t.lr[n][s] = x THEN z ELSE t.lr[n][s]
      /\ \A n \in Node \ M : c.lr[n] = t.lr[n] /\ c.up[n] = t.up[n]
  BY <1>7, ZenonT(30) DEF Turn, y, o, d
<1>9. c \in Trees
  BY <1>7, ShapeIs
<1> HIDE DEF c, p, k
<1>10. /\ SingleRotation(t, x, r).top = z
       /\ u = [c EXCEPT !.bf[x] = IF even THEN -sign ELSE 0, !.bf[z] = IF even THEN sign ELSE 0]
  BY DEF SingleRotation, c, Child
<1>11. /\ u \in Trees /\ u.lr = c.lr /\ u.up = c.up /\ u.root = c.root
       /\ u.bf[x] = IF even THEN -sign ELSE 0
       /\ u.bf[z] = IF even THEN sign ELSE 0
       /\ \A n \in Node \ {x, z} : u.bf[n] = c.bf[n]
  <2>1. x \in Node /\ z \in Node /\ x # z
    BY <1>2, <1>4, <1>6
  <2> DEFINE bx == IF even THEN -sign ELSE 0
             bz == IF even THEN sign ELSE 0
  <2>2. bx \in -1 .. 1 /\ bz \in -1 .. 1
    <3>1. sign = 1 \/ sign = -1
      BY ZenonT(30)
    <3> HIDE DEF sign, even
    <3> QED BY <3>1
  <2>3. u = [c EXCEPT !.bf[x] = bx, !.bf[z] = bz]
    BY <1>10, ZenonT(30)
  <2> SUFFICES /\ u \in Trees /\ u.lr = c.lr /\ u.up = c.up /\ u.root = c.root
               /\ u.bf[x] = bx /\ u.bf[z] = bz
               /\ \A n \in Node \ {x, z} : u.bf[n] = c.bf[n]
    OBVIOUS
  <2> HIDE DEF bx, bz
  <2> DEFINE f == [c.bf EXCEPT ![x] = bx, ![z] = bz]
  <2>4. f \in [Node -> -1 .. 1] /\ f[x] = bx /\ f[z] = bz
        /\ \A n \in Node \ {x, z} : f[n] = c.bf[n]
    <3>1. c.bf \in [Node -> -1 .. 1]
      BY <1>9 DEF Trees
    <3> QED BY <2>1, <2>2, <3>1
  <2>5. u = [c EXCEPT !.bf = f]
    BY <1>9, <2>3 DEF Trees
  <2> HIDE DEF f
  <2> QED BY <1>9, <2>4, <2>5 DEF Trees
<1>12. Shape(u, M, k, q)
  BY <1>7, <1>11, ShapeOfLinks
<1> DEFINE hx == 1 + Higher(H[y], H[d])
           hz == 1 + Higher(hx, H[o])
           G == [H EXCEPT ![x] = hx, ![z] = hz]
<1>13. /\ hx \in Nat /\ hz \in Nat
  BY <1>3, <1>5 DEF Higher
<1>14. /\ G \in [Link -> Nat] /\ G[NULL] = 0 /\ G[x] = hx /\ G[z] = hz
       /\ \A n \in Link \ {x, z} : G[n] = H[n]
  <2>1. x \in Link /\ z \in Link /\ NULL \in Link /\ NULL # x /\ NULL # z
    BY <1>2, <1>4 DEF Link
  <2> HIDE DEF hx, hz
  <2> QED BY <1>3, <1>6, <1>13, <2>1
<1> HIDE DEF G
(* The heights below x before.                                             *)
<1>15. /\ H[y] \in Nat /\ H[o] \in Nat /\ H[d] \in Nat /\ H[z] \in Nat
       /\ H[z] = H[d] + 2 /\ H[z] = 1 + Higher(H[y], H[o])
       /\ IF even THEN H[y] = H[o] ELSE H[o] = H[y] + 1
  <2>1. H[y] \in Nat /\ H[o] \in Nat /\ H[d] \in Nat /\ H[z] \in Nat
    BY <1>2, <1>3, <1>5, <1>4 DEF Link
  <2>2. Level(t, H, z)
    BY <1>3, <1>4, <1>6
  <2>5. t.bf[z] \in -1 .. 1
    BY <1>4, ShapeIs
  <2>3. CASE r = 1
    BY <2>1, <2>2, <2>3, <2>5, SMTT(30) DEF Level, Higher, y, o, d
  <2>4. CASE r = 0
    BY <2>1, <2>2, <2>4, <2>5, SMTT(30) DEF Level, Higher, y, o, d
  <2> QED BY <1>1, <2>3, <2>4
<1>16. /\ IF even THEN hx = H[z] /\ hz = 1 + H[z] ELSE hx = H[d] + 1 /\ hz = H[z]
       /\ IF even THEN H[y] - H[d] = 1 /\ H[o] - hx = -1 ELSE H[y] - H[d] = 0 /\ H[o] - hx = 0
  <2>1. CASE even
    <3> HIDE DEF even
    <3> QED BY <1>15, <2>1 DEF Higher
  <2>2. CASE ~even
    <3> HIDE DEF even
    <3> QED BY <1>15, <2>2 DEF Higher
  <2> QED BY <2>1, <2>2
<1>17. G[z] = IF u.bf[z] = 0 THEN H[z] ELSE 1 + H[z]
  <2>1. sign # 0
    OBVIOUS
  <2> HIDE DEF sign, hz, hx
  <2> QED BY <1>11, <1>14, <1>16, <2>1
<1>18. G[y] = H[y] /\ G[o] = H[o] /\ G[d] = H[d]
  BY <1>5, <1>6, <1>14
<1>19. Level(u, G, x)
  <2>1. CASE r = 1
    <3>1. u.lr[x][0] = y /\ u.lr[x][1] = d
      BY <1>8, <1>11, <2>1
    <3> QED BY <1>11, <1>14, <1>15, <1>16, <1>18, <2>1, <3>1 DEF Level
  <2>2. CASE r = 0
    <3>1. u.lr[x][1] = y /\ u.lr[x][0] = d
      BY <1>8, <1>11, <2>2
    <3> QED BY <1>11, <1>14, <1>15, <1>16, <1>18, <2>2, <3>1 DEF Level, Higher
  <2> QED BY <1>1, <2>1, <2>2
<1>20. Level(u, G, z)
  <2>1. CASE r = 1
    <3>1. u.lr[z][0] = o /\ u.lr[z][1] = x
      BY <1>8, <1>11, <2>1
    <3>2. G[z] = 1 + Higher(H[o], hx)
      <4> HIDE DEF hx
      <4> QED BY <1>13, <1>14, <1>15 DEF Higher
    <3>3. u.bf[z] = hx - H[o]
      <4> HIDE DEF hx, hz
      <4> QED BY <1>11, <1>13, <1>15, <1>16, <2>1
    <3> HIDE DEF hx, hz
    <3> QED BY <1>14, <1>18, <3>1, <3>2, <3>3 DEF Level
  <2>2. CASE r = 0
    <3>1. u.lr[z][1] = o /\ u.lr[z][0] = x
      BY <1>8, <1>11, <2>2
    <3> QED BY <1>11, <1>13, <1>14, <1>15, <1>16, <1>18, <2>2, <3>1, SMTT(30) DEF Level, Higher
  <2> QED BY <1>1, <2>1, <2>2
<1>21. ASSUME NEW n \in M \ {p} PROVE Level(u, G, n)
  <2>1. CASE n # x /\ n # z
    <3>1. \A s \in Side : t.lr[n][s] # x /\ t.lr[n][s] # z /\ t.lr[n][s] \in Link
      BY <1>4, <1>6, <2>1, ApartFrom DEF p
    <3>2. \A s \in Side : u.lr[n][s] = t.lr[n][s] /\ G[t.lr[n][s]] = H[t.lr[n][s]]
      BY <1>8, <1>11, <1>14, <2>1, <3>1
    <3>3. G[n] = H[n] /\ u.bf[n] = t.bf[n] /\ Level(t, H, n)
      BY <1>2, <1>3, <1>8, <1>11, <1>14, <2>1 DEF Link
    <3>4. 0 \in Side /\ 1 \in Side
      BY ZenonT(30) DEF Side
    <3> QED BY <3>2, <3>3, <3>4 DEF Level
  <2> QED BY <1>19, <1>20, <2>1
<1>22. ASSUME NEW n \in M, n = p
       PROVE  /\ q.lo[n] = v.lo[n] /\ q.hi[n] = v.hi[n] /\ u.bf[n] = t.bf[n] /\ G[n] = H[n]
              /\ \A s \in Side : IF t.lr[n][s] = x THEN u.lr[n][s] = z
                                 ELSE u.lr[n][s] = t.lr[n][s] /\ G[t.lr[n][s]] = H[t.lr[n][s]]
  <2>1. n # x /\ n # z /\ n \in Node /\ n \in Link
    BY <1>2, <1>6, <1>22 DEF Link
  <2>2. \A s \in Side : t.lr[n][s] # z /\ t.lr[n][s] \in Link
    BY <1>4, <1>6, <2>1, ApartFrom
  <2> QED BY <1>8, <1>11, <1>14, <2>1, <2>2
<1>23. \A n \in Node \ M : u.lr[n] = t.lr[n] /\ u.up[n] = t.up[n] /\ u.bf[n] = t.bf[n]
  BY <1>4, <1>8, <1>11
<1>24. Adjusted(t, M, v, H, u, q, G, x, z)
  <2>1. u.root = t.root /\ u.up[z] = t.up[x]
    BY <1>8, <1>11 DEF p
  <2> QED BY <1>4, <1>8, <1>14, <1>21, <1>22, <1>23, <2>1, Zenon DEF Adjusted, p
<1> QED BY <1>10, <1>12, <1>17, <1>24, Zenon DEF k

(* ... and so does a double one.                                           *)
LEMMA DoubleHolds ==
    ASSUME NEW t, NEW M, NEW w, NEW v, Shape(t, M, w, v), NEW x \in M, NEW r \in Side,
           NEW H, Heights(t, M, H, x),
           NEW z, Child(t, x, 1 - r, z), H[z] = H[t.lr[x][r]] + 2,
           t.bf[z] = (IF r = 1 THEN 1 ELSE -1),
           NEW y, Child(t, z, r, y),
           NEW u, u = DoubleRotation(t, x, r).tree
    PROVE  /\ DoubleRotation(t, x, r).top = y
           /\ \E q, G : /\ Shape(u, M, IF w = x THEN y ELSE w, q)
                        /\ Adjusted(t, M, v, H, u, q, G, x, y)
                        /\ u.bf[y] = 0 /\ G[y] = H[z]
<1> DEFINE a == t.lr[y][r]
           b == t.lr[y][1 - r]
           o == t.lr[z][1 - r]
           d == t.lr[x][r]
           p == t.up[x]
           k == IF w = x THEN y ELSE w
           c == cavlPrivateRotate(t, z, 1 - r)
           e == cavlPrivateRotate(c, x, r)
           sign == IF r = 1 THEN 1 ELSE -1
           lean == t.bf[y] * sign
<1> HIDE DEF sign, lean
<1>1. (r = 0 \/ r = 1) /\ 1 - (1 - r) = r
  BY DEF Side
<1>2. /\ t \in Trees /\ M \in SUBSET Node /\ v \in Views /\ NULL \notin Node /\ NULL = 0
      /\ p \in M \cup {NULL} /\ 1 - r \in Side /\ 1 - r # r
      /\ \A n \in M : t.bf[n] \in -1 .. 1
  BY <1>1, ShapeIs DEF Side
<1>3. H \in [Link -> Nat] /\ H[NULL] = 0 /\ \A n \in M \ {x} : Level(t, H, n)
  BY Zenon DEF Heights
<1>sides. /\ Child(t, z, 1 - r, o) /\ Child(t, x, r, d)
          /\ Child(t, y, r, a) /\ Child(t, y, 1 - r, b)
          /\ H[z] = H[d] + 2
  BY DEF Child
<1>links. t.lr[x][r] = d /\ t.lr[z][1 - r] = o /\ t.lr[z][r] = y
          /\ t.lr[y][r] = a /\ t.lr[y][1 - r] = b
  BY DEF Child
<1> HIDE DEF a, b, o, d
<1>4. z \in M /\ d \in M \cup {NULL} /\ d \in Link /\ z # x
  <2>1. /\ d \in M \cup {NULL} /\ d \in Link
    BY <1>sides, SideOf
  <2>3. z \in M \cup {NULL} /\ z # x
    BY <1>2, SideOf
  <2>2. z # NULL
    BY <1>3, <1>sides, <2>1
  <2> QED BY <2>1, <2>2, <2>3
(* The heights below x before.                                             *)
<1>5. /\ H[y] \in Nat /\ H[o] \in Nat /\ H[d] \in Nat /\ H[z] \in Nat
      /\ y \in M \cup {NULL} /\ o \in M \cup {NULL} /\ o \in Link
      /\ H[z] = H[d] + 2 /\ H[y] = H[d] + 1 /\ H[o] = H[d]
  <2>1. y \in M \cup {NULL} /\ o \in M \cup {NULL} /\ o \in Link /\ y \in Link
    BY <1>2, <1>4, <1>sides, SideOf
  <2>2. H[y] \in Nat /\ H[o] \in Nat /\ H[d] \in Nat /\ H[z] \in Nat
    BY <1>2, <1>3, <1>4, <2>1, ZenonT(30) DEF Link
  <2>3. Level(t, H, z)
    BY <1>3, <1>4
  <2>4. t.bf[z] = sign
    BY ZenonT(30) DEF sign
  <2>5. CASE r = 1
    <3>1. t.lr[z][1] = y /\ t.lr[z][0] = o /\ t.bf[z] = 1
      BY <1>links, <2>4, <2>5 DEF sign
    <3>2. H[y] - H[o] = 1 /\ H[z] = 1 + Higher(H[o], H[y])
      BY <2>3, <3>1 DEF Level
    <3>3. H[y] = H[d] + 1 /\ H[o] = H[d]
      BY <1>sides, <2>2, <3>2 DEF Higher
    <3> QED BY <1>sides, <2>1, <2>2, <3>3
  <2>6. CASE r = 0
    <3>1. t.lr[z][0] = y /\ t.lr[z][1] = o /\ t.bf[z] = -1
      BY <1>links, <2>4, <2>6 DEF sign
    <3>2. H[o] - H[y] = -1 /\ H[z] = 1 + Higher(H[y], H[o])
      BY <2>3, <3>1 DEF Level
    <3>3. H[y] = H[d] + 1 /\ H[o] = H[d]
      BY <1>sides, <2>2, <3>2 DEF Higher
    <3> QED BY <1>sides, <2>1, <2>2, <3>3
  <2> QED BY <1>1, <2>5, <2>6
<1>6. y \in M /\ y # NULL
  <2>1. y # NULL
    BY <1>3, <1>5
  <2> QED BY <1>5, <2>1
<1>7. /\ y # x /\ y # z /\ d # z /\ d # x /\ p # x /\ p # z /\ t.up[z] = x /\ t.up[y] = z
  <2>1. z # NULL
    BY <1>2, <1>4
  <2> QED BY <1>6, <1>links, <2>1, RotationIs
<1>8. /\ a \in M \cup {NULL} /\ b \in M \cup {NULL} /\ a \in Link /\ b \in Link
      /\ (a # NULL => t.up[a] = y /\ a # b) /\ (b # NULL => t.up[b] = y) /\ a # y /\ b # y
  <2>1. /\ a \in M \cup {NULL} /\ a \in Link /\ a # y
        /\ a # NULL => t.up[a] = y /\ t.lr[y][1 - r] # a
    BY <1>6, <1>sides, SideOf
  <2>2. /\ b \in M \cup {NULL} /\ b \in Link /\ b # y
        /\ b # NULL => t.up[b] = y
    BY <1>2, <1>6, <1>sides, SideOf
  <2> QED BY <1>links, <2>1, <2>2
<1>9. /\ (o # NULL => t.up[o] = z /\ o # y) /\ (d # NULL => t.up[d] = x) /\ o # z
  <2>1. d # NULL => t.up[d] = x
    BY <1>sides, SideOf
  <2>2. /\ o # NULL => t.up[o] = z /\ t.lr[z][1 - (1 - r)] # o
        /\ o # z
    BY <1>2, <1>4, <1>sides, SideOf
  <2> QED BY <1>1, <1>links, <2>1, <2>2
<1>10. p # y
  <2>1. p = y => y # NULL /\ t.up[x] = y
    BY <1>6, ZenonT(30)
  <2>2. t.up[x] # NULL => v.hi[x] - v.lo[x] < v.hi[t.up[x]] - v.lo[t.up[x]]
    BY ChildIs, ZenonT(30)
  <2>3. v.hi[y] - v.lo[y] < v.hi[z] - v.lo[z] /\ v.hi[z] - v.lo[z] < v.hi[x] - v.lo[x]
    <3>1. t.up[y] # NULL /\ t.up[z] # NULL
      BY <1>2, <1>4, <1>7
    <3>2. v.hi[y] - v.lo[y] < v.hi[t.up[y]] - v.lo[t.up[y]]
      BY <1>6, <3>1, ChildIs, ZenonT(40)
    <3>3. v.hi[z] - v.lo[z] < v.hi[t.up[z]] - v.lo[t.up[z]]
      BY <1>4, <3>1, ChildIs, ZenonT(30)
    <3> QED BY <1>7, <3>2, <3>3, ZenonT(30)
  <2>4. \A n \in M : v.lo[n] \in Int /\ v.hi[n] \in Int
    BY ShapeIs
  <2>5. PICK i \in Int : i = v.hi[x] - v.lo[x]
    BY <2>4
  <2>6. PICK j \in Int : j = v.hi[y] - v.lo[y]
    BY <1>6, <2>4, SMTT(30)
  <2>7. PICK h \in Int : h = v.hi[z] - v.lo[z]
    BY <1>4, <2>4
  <2>8. j < h /\ h < i
    BY <2>3, <2>5, <2>6, <2>7, Zenon
  <2>9. p = y => i < j
    BY <2>1, <2>2, <2>5, <2>6, Zenon
  <2> HIDE DEF p
  <2> QED BY <2>8, <2>9
<1>11. a # x /\ b # x /\ a # z /\ b # z /\ o # x /\ d # y
  BY <1>2, <1>4, <1>6, <1>7, <1>8, <1>9, <1>10, ZenonT(40) DEF p
<1> HIDE DEF p
(* The first rotation.                                                     *)
<1>12. PICK f : Shape(c, M, w, f) /\ Turn(t, M, v, c, f, z, y, 1 - r)
  <2>1. y = t.lr[z][1 - (1 - r)] /\ t.lr[z][1 - (1 - r)] # NULL
    BY <1>1, <1>6, <1>links
  <2>2. w # z
    BY <1>2, <1>4, <1>7, ShapeIs
  <2>3. PICK f : Shape(c, M, IF w = z THEN y ELSE w, f) /\ Turn(t, M, v, c, f, z, y, 1 - r)
    BY <1>2, <1>4, <2>1, RotateHolds
  <2> QED BY <2>2, <2>3
<1>13. /\ c.root = t.root /\ c.bf = t.bf
       /\ f.size = v.size /\ f.pos = v.pos
       /\ c.lr[z][r] = b /\ c.lr[z][1 - r] = o /\ c.lr[y][1 - r] = z /\ c.lr[y][r] = a
       /\ c.up[y] = x /\ c.up[x] = p
       /\ c.lr[x][1 - r] = y /\ c.lr[x][r] = d
       /\ \A n \in M \ {z, y} : f.lo[n] = v.lo[n] /\ f.hi[n] = v.hi[n]
       /\ \A n \in M \ {z, y, x} : \A s \in Side : c.lr[n][s] = t.lr[n][s]
       /\ \A n \in Node \ M : c.lr[n] = t.lr[n] /\ c.up[n] = t.up[n]
  <2>1. /\ c.root = t.root /\ c.bf = t.bf
        /\ f.size = v.size /\ f.pos = v.pos
        /\ c.lr[z][1 - (1 - r)] = b /\ c.lr[z][1 - r] = o
        /\ c.lr[y][1 - r] = z /\ c.lr[y][1 - (1 - r)] = t.lr[y][1 - (1 - r)]
        /\ c.up[y] = t.up[z] /\ \A n \in M \ {z, y, b} : c.up[n] = t.up[n]
        /\ \A n \in M \ {z, y} : f.lo[n] = v.lo[n] /\ f.hi[n] = v.hi[n]
        /\ \A n \in M \ {z, y} : \A s \in Side :
             c.lr[n][s] = IF t.lr[n][s] = z THEN y ELSE t.lr[n][s]
        /\ \A n \in Node \ M : c.lr[n] = t.lr[n] /\ c.up[n] = t.up[n]
    BY <1>12, Zenon DEF Turn, b, o
  <2>2. c.up[x] = p
    BY <1>4, <1>7, <1>11, <2>1, Zenon DEF p
  <2>3. c.lr[x][1 - r] = y /\ c.lr[x][r] = d
    BY <1>2, <1>4, <1>7, <2>1, Zenon DEF d, Child
  <2>4. ASSUME NEW n \in M \ {z, y, x}, NEW s \in Side PROVE c.lr[n][s] = t.lr[n][s]
    <3>1. t.lr[n][s] # z
      BY <1>4, <1>7, ApartFrom, SMTT(30)
    <3>2. n \in M \ {z, y}
      OBVIOUS
    <3>3. c.lr[n][s] = IF t.lr[n][s] = z THEN y ELSE t.lr[n][s]
      BY <2>1, <3>2, ZenonT(40)
    <3> QED BY <3>1, <3>3, ZenonT(30)
  <2>5. c.lr[z][r] = b /\ c.lr[y][r] = a
    BY <1>1, <2>1, Zenon DEF a
  <2> QED BY <1>7, <2>1, <2>2, <2>3, <2>4, <2>5, Zenon
(* The second.                                                             *)
<1>14. PICK q : Shape(e, M, k, q) /\ Turn(c, M, f, e, q, x, y, r)
  BY <1>6, <1>12, <1>13, RotateHolds, ZenonT(40)
<1> HIDE DEF c, e, k
<1>15. /\ e.root = t.root /\ e.bf = t.bf
       /\ q.size = v.size /\ q.pos = v.pos
       /\ e.lr[x][1 - r] = a /\ e.lr[x][r] = d /\ e.lr[y][r] = x /\ e.lr[y][1 - r] = z
       /\ e.up[y] = p
       /\ e.lr[z][r] = b /\ e.lr[z][1 - r] = o
       /\ \A n \in M \ {x, y, z} : q.lo[n] = v.lo[n] /\ q.hi[n] = v.hi[n]
       /\ \A n \in M \ {x, y, z} : \A s \in Side :
            e.lr[n][s] = IF t.lr[n][s] = x THEN y ELSE t.lr[n][s]
       /\ \A n \in Node \ M : e.lr[n] = t.lr[n] /\ e.up[n] = t.up[n]
  <2>1. /\ e.root = c.root /\ e.bf = c.bf
        /\ q.size = f.size /\ q.pos = f.pos
        /\ e.lr[x][1 - r] = c.lr[y][r] /\ e.lr[x][r] = c.lr[x][r]
        /\ e.lr[y][r] = x /\ e.lr[y][1 - r] = c.lr[y][1 - r]
        /\ e.up[y] = c.up[x]
        /\ \A n \in M \ {x, y} : q.lo[n] = f.lo[n] /\ q.hi[n] = f.hi[n]
        /\ \A n \in M \ {x, y} : \A s \in Side :
             e.lr[n][s] = IF c.lr[n][s] = x THEN y ELSE c.lr[n][s]
        /\ \A n \in Node \ M : e.lr[n] = c.lr[n] /\ e.up[n] = c.up[n]
    BY <1>14, Zenon DEF Turn
  <2>2. e.lr[z][r] = b /\ e.lr[z][1 - r] = o
    <3>1. z \in M \ {x, y} /\ r \in Side /\ 1 - r \in Side
      BY <1>2, <1>4, <1>7
    <3>2. /\ e.lr[z][r] = IF c.lr[z][r] = x THEN y ELSE c.lr[z][r]
          /\ e.lr[z][1 - r] = IF c.lr[z][1 - r] = x THEN y ELSE c.lr[z][1 - r]
      BY <2>1, <3>1, Zenon
    <3>3. c.lr[z][r] = b /\ c.lr[z][1 - r] = o
      BY <1>13, ZenonT(30)
    <3> QED BY <1>11, <3>2, <3>3
  <2>3. ASSUME NEW n \in M \ {x, y, z}
        PROVE  /\ q.lo[n] = v.lo[n] /\ q.hi[n] = v.hi[n]
               /\ \A s \in Side : e.lr[n][s] = IF t.lr[n][s] = x THEN y ELSE t.lr[n][s]
    <3>1. n \in M \ {x, y} /\ n \in M \ {z, y} /\ n \in M \ {z, y, x}
      OBVIOUS
    <3>2. \A s \in Side : c.lr[n][s] = t.lr[n][s]
      BY <1>13, <3>1, Zenon
    <3>3. \A s \in Side : e.lr[n][s] = IF c.lr[n][s] = x THEN y ELSE c.lr[n][s]
      BY <2>1, <3>1, Zenon
    <3>4. f.lo[n] = v.lo[n] /\ f.hi[n] = v.hi[n] /\ q.lo[n] = f.lo[n] /\ q.hi[n] = f.hi[n]
      BY <1>13, <2>1, <3>1, ZenonT(40)
    <3> QED BY <3>2, <3>3, <3>4
  <2>4. ASSUME NEW n \in Node \ M PROVE e.lr[n] = t.lr[n] /\ e.up[n] = t.up[n]
    <3>1. e.lr[n] = c.lr[n] /\ e.up[n] = c.up[n]
      BY <2>1, Zenon
    <3>2. c.lr[n] = t.lr[n] /\ c.up[n] = t.up[n]
      BY <1>13, ZenonT(40)
    <3> QED BY <3>1, <3>2
  <2>5. /\ e.lr[x][1 - r] = a /\ e.lr[x][r] = d /\ e.lr[y][r] = x /\ e.lr[y][1 - r] = z
        /\ e.up[y] = p
    <3>1. c.lr[y][r] = a /\ c.lr[x][r] = d /\ c.lr[y][1 - r] = z /\ c.up[x] = p
      BY <1>13, ZenonT(30)
    <3> QED BY <2>1, <3>1, ZenonT(30)
  <2>6. e.root = t.root /\ e.bf = t.bf /\ q.size = v.size /\ q.pos = v.pos
    <3>1. c.root = t.root /\ c.bf = t.bf /\ f.size = v.size /\ f.pos = v.pos
      BY <1>13, ZenonT(30)
    <3> QED BY <2>1, <3>1, Zenon
  <2> QED BY <2>2, <2>3, <2>4, <2>5, <2>6, ZenonT(30)
<1>16. e \in Trees
  BY <1>14, ShapeIs, ZenonT(30)
<1> DEFINE bx == IF lean < 0 THEN sign ELSE 0
           bz == IF lean > 0 THEN -sign ELSE 0
<1>17. DoubleRotation(t, x, r) =
         [top |-> y, tree |-> [e EXCEPT !.bf[x] = bx, !.bf[z] = bz, !.bf[y] = 0]]
  BY <1>links, ZenonT(30) DEF DoubleRotation, e, c, sign, lean, Child
<1>18. bx \in -1 .. 1 /\ bz \in -1 .. 1
  <2>1. sign = 1 \/ sign = -1
    BY ZenonT(30) DEF sign
  <2> QED BY <2>1
<1>19. /\ u \in Trees /\ u.lr = e.lr /\ u.up = e.up /\ u.root = e.root
       /\ u.bf[x] = bx /\ u.bf[z] = bz /\ u.bf[y] = 0
       /\ \A n \in Node \ {x, y, z} : u.bf[n] = e.bf[n]
  <2> HIDE DEF bx, bz
  <2> DEFINE g == [e.bf EXCEPT ![x] = bx, ![z] = bz, ![y] = 0]
  <2>1. x \in Node /\ z \in Node /\ y \in Node /\ x # z /\ y # z /\ y # x
    BY <1>2, <1>4, <1>6, <1>7, ZenonT(30)
  <2>2. g \in [Node -> -1 .. 1] /\ g[x] = bx /\ g[z] = bz /\ g[y] = 0
        /\ \A n \in Node \ {x, y, z} : g[n] = e.bf[n]
    <3>1. e.bf \in [Node -> -1 .. 1]
      BY <1>16, ZenonT(30) DEF Trees
    <3> QED BY <1>18, <2>1, <3>1, SMTT(30)
  <2>3. u = [e EXCEPT !.bf = g]
    <3>1. u = [e EXCEPT !.bf[x] = bx, !.bf[z] = bz, !.bf[y] = 0]
      BY <1>17
    <3> QED BY <1>16, <3>1 DEF Trees
  <2> HIDE DEF g
  <2> QED BY <1>16, <2>2, <2>3, ZenonT(30) DEF Trees
<1> HIDE DEF bx, bz
<1>20. Shape(u, M, k, q)
  BY <1>14, <1>19, ShapeOfLinks, ZenonT(30)
<1> DEFINE h == H[d] + 1
           G == [H EXCEPT ![x] = h, ![z] = h, ![y] = h + 1]
<1>21. h \in Nat /\ h + 1 \in Nat
  BY <1>5, SMTT(30)
<1>22. /\ G \in [Link -> Nat] /\ G[NULL] = 0 /\ G[x] = h /\ G[z] = h /\ G[y] = h + 1
       /\ \A n \in Link \ {x, y, z} : G[n] = H[n]
  <2>1. x \in Link /\ y \in Link /\ z \in Link /\ NULL \in Link /\ NULL # x /\ NULL # z /\ NULL # y
    BY <1>2, <1>4, <1>6, ZenonT(30) DEF Link
  <2> HIDE DEF h
  <2> QED BY <1>3, <1>4, <1>7, <1>21, <2>1, ZenonT(30)
<1> HIDE DEF G
<1>23. G[a] = H[a] /\ G[b] = H[b] /\ G[o] = H[o] /\ G[d] = H[d]
  BY <1>5, <1>6, <1>7, <1>8, <1>9, <1>4, <1>11, <1>22, ZenonT(30)
<1>24. /\ H[a] \in Nat /\ H[b] \in Nat
       /\ IF r = 1 THEN t.bf[y] = H[a] - H[b] ELSE t.bf[y] = H[b] - H[a]
       /\ H[y] = 1 + Higher(H[b], H[a]) /\ t.bf[y] \in -1 .. 1
  <2>1. Level(t, H, y) /\ H[a] \in Nat /\ H[b] \in Nat
    BY <1>3, <1>6, <1>7, <1>8, ZenonT(30)
  <2>4. t.bf[y] \in -1 .. 1
    BY <1>2, <1>6, ZenonT(30)
  <2>2. CASE r = 1
    <3>1. t.lr[y][1] = a /\ t.lr[y][0] = b
      BY <2>2 DEF a, b
    <3>2. t.bf[y] = H[a] - H[b] /\ H[y] = 1 + Higher(H[b], H[a])
      BY <2>1, <3>1, ZenonT(30) DEF Level
    <3> QED BY <2>1, <2>2, <2>4, <3>2, ZenonT(30)
  <2>3. CASE r = 0
    <3>1. t.lr[y][0] = a /\ t.lr[y][1] = b
      BY <2>3 DEF a, b
    <3>2. t.bf[y] = H[b] - H[a] /\ H[y] = 1 + Higher(H[a], H[b])
      BY <2>1, <3>1, ZenonT(30) DEF Level
    <3>3. Higher(H[a], H[b]) = Higher(H[b], H[a])
      BY <2>1 DEF Higher
    <3> QED BY <2>1, <2>3, <2>4, <3>2, <3>3, SMTT(30)
  <2> QED BY <1>1, <2>2, <2>3, ZenonT(30)
<1> USE DEF bx, bz
<1>25. /\ IF r = 1 THEN bx = H[d] - H[a] /\ bz = H[b] - H[o]
          ELSE bx = H[a] - H[d] /\ bz = H[o] - H[b]
       /\ h = 1 + Higher(H[a], H[d]) /\ h = 1 + Higher(H[b], H[o])
       /\ h = 1 + Higher(H[d], H[a]) /\ h = 1 + Higher(H[o], H[b])
  <2>1. CASE r = 1
    <3>1. lean = t.bf[y] /\ sign = 1
      BY <1>24, <2>1 DEF lean, sign
    <3> QED BY <1>5, <1>24, <2>1, <3>1, SMTT(30) DEF Higher
  <2>2. CASE r = 0
    <3>1. lean = -t.bf[y] /\ sign = -1
      BY <1>24, <2>2 DEF lean, sign
    <3> QED BY <1>5, <1>24, <2>2, <3>1, SMTT(30) DEF Higher
  <2> QED BY <1>1, <2>1, <2>2, ZenonT(30)
<1> HIDE DEF bx, bz, h
<1>26. Level(u, G, x) /\ Level(u, G, z)
  <2>1. CASE r = 1
    <3>1. u.lr[x][0] = a /\ u.lr[x][1] = d /\ u.lr[z][0] = o /\ u.lr[z][1] = b
      BY <1>15, <1>19, <2>1, SMTT(30)
    <3> QED BY <1>19, <1>22, <1>23, <1>25, <2>1, <3>1, SMTT(30) DEF Level
  <2>2. CASE r = 0
    <3>1. u.lr[x][1] = a /\ u.lr[x][0] = d /\ u.lr[z][1] = o /\ u.lr[z][0] = b
      BY <1>15, <1>19, <2>2, SMTT(30)
    <3> QED BY <1>19, <1>22, <1>23, <1>25, <2>2, <3>1, SMTT(30) DEF Level
  <2> QED BY <1>1, <2>1, <2>2, ZenonT(30)
<1>27. Level(u, G, y)
  <2>1. G[u.lr[y][0]] = h /\ G[u.lr[y][1]] = h
    <3>1. CASE r = 1
      <4>1. u.lr[y][1] = x /\ u.lr[y][0] = z
        BY <1>15, <1>19, <3>1, SMTT(30)
      <4> QED BY <1>22, <4>1, ZenonT(30)
    <3>2. CASE r = 0
      <4>1. u.lr[y][0] = x /\ u.lr[y][1] = z
        BY <1>15, <1>19, <3>2, SMTT(30)
      <4> QED BY <1>22, <4>1, ZenonT(40)
    <3> QED BY <1>1, <3>1, <3>2, ZenonT(40)
  <2>2. u.bf[y] = 0 /\ G[y] = h + 1 /\ h \in Nat
    BY <1>19, <1>21, <1>22, ZenonT(30)
  <2>3. h + 1 = 1 + Higher(h, h) /\ h - h = 0
    BY <2>2 DEF Higher
  <2> QED BY <2>1, <2>2, <2>3, ZenonT(40) DEF Level
<1>33. /\ \A n \in M \ {x, y, z} : \A s \in Side :
            u.lr[n][s] = IF t.lr[n][s] = x THEN y ELSE t.lr[n][s]
       /\ \A n \in Node \ {x, y, z} : u.bf[n] = t.bf[n]
       /\ \A n \in M \ {x, y, z} : q.lo[n] = v.lo[n] /\ q.hi[n] = v.hi[n]
  <2>1. u.lr = e.lr /\ e.bf = t.bf
    BY <1>15, <1>19, ZenonT(30)
  <2>2. \A n \in Node \ {x, y, z} : u.bf[n] = t.bf[n]
    BY <1>19, <2>1
  <2>3. \A n \in M \ {x, y, z} : q.lo[n] = v.lo[n] /\ q.hi[n] = v.hi[n]
    BY <1>15, Zenon
  <2>4. \A n \in M \ {x, y, z} : \A s \in Side :
            e.lr[n][s] = IF t.lr[n][s] = x THEN y ELSE t.lr[n][s]
    BY <1>15, Zenon
  <2> QED BY <2>1, <2>2, <2>3, <2>4, SMTT(30)
<1>28. ASSUME NEW n \in M \ {p} PROVE Level(u, G, n)
  <2>1. CASE n \notin {x, y, z}
    <3>1. \A s \in Side : /\ t.lr[n][s] # x /\ t.lr[n][s] # z /\ t.lr[n][s] # y
                          /\ t.lr[n][s] \in Link
      BY <1>4, <1>6, <1>7, <2>1, ApartFrom, SMTT(30) DEF p
    <3>5. n \in M \ {x, y, z} /\ n \in Node \ {x, y, z} /\ n \in Link \ {x, y, z} /\ n \in M \ {x}
      BY <1>2, <2>1 DEF Link
    <3>2. ASSUME NEW s \in Side
          PROVE  u.lr[n][s] = t.lr[n][s] /\ G[t.lr[n][s]] = H[t.lr[n][s]]
      <4>1. t.lr[n][s] \in Link \ {x, y, z}
        BY <3>1, ZenonT(30)
      <4>2. u.lr[n][s] = t.lr[n][s]
        BY <1>33, <3>1, <3>5, ZenonT(30)
      <4> QED BY <1>22, <4>1, <4>2
    <3>3. G[n] = H[n] /\ u.bf[n] = t.bf[n] /\ Level(t, H, n)
      <4>1. u.bf[n] = t.bf[n]
        BY <1>33, <3>5, ZenonT(30)
      <4>2. Level(t, H, n)
        BY <1>3, <3>5, Zenon
      <4> QED BY <1>22, <3>5, <4>1, <4>2, ZenonT(30)
    <3>4. 0 \in Side /\ 1 \in Side
      BY DEF Side
    <3> QED BY <3>2, <3>3, <3>4, ZenonT(30) DEF Level
  <2> QED BY <1>26, <1>27, <2>1
<1>29. ASSUME NEW n \in M, n = p
       PROVE  /\ q.lo[n] = v.lo[n] /\ q.hi[n] = v.hi[n] /\ u.bf[n] = t.bf[n] /\ G[n] = H[n]
              /\ \A s \in Side : IF t.lr[n][s] = x THEN u.lr[n][s] = y
                                 ELSE u.lr[n][s] = t.lr[n][s] /\ G[t.lr[n][s]] = H[t.lr[n][s]]
  <2>1. n # x /\ n # z /\ n # y /\ n \in Node /\ n \in Link
    BY <1>2, <1>7, <1>10, <1>29, ZenonT(30) DEF Link
  <2>2. \A s \in Side : t.lr[n][s] # z /\ t.lr[n][s] # y /\ t.lr[n][s] \in Link
    BY <1>4, <1>6, <1>7, <2>1, ApartFrom, SMTT(30)
  <2>3. n \in M \ {x, y, z} /\ n \in Node \ {x, y, z} /\ n \in Link \ {x, y, z}
    BY <2>1, ZenonT(30)
  <2>4. q.lo[n] = v.lo[n] /\ q.hi[n] = v.hi[n] /\ u.bf[n] = t.bf[n] /\ G[n] = H[n]
    BY <1>22, <1>33, <2>3, ZenonT(30)
  <2>5. ASSUME NEW s \in Side
        PROVE  IF t.lr[n][s] = x THEN u.lr[n][s] = y
               ELSE u.lr[n][s] = t.lr[n][s] /\ G[t.lr[n][s]] = H[t.lr[n][s]]
    <3>1. u.lr[n][s] = IF t.lr[n][s] = x THEN y ELSE t.lr[n][s]
      BY <1>33, <2>3, ZenonT(30)
    <3>2. t.lr[n][s] # x => t.lr[n][s] \in Link \ {x, y, z}
      BY <2>2
    <3> QED BY <1>22, <3>1, <3>2, ZenonT(30)
  <2> QED BY <2>4, <2>5
<1>30. ASSUME NEW n \in Node \ M
       PROVE  u.lr[n] = t.lr[n] /\ u.up[n] = t.up[n] /\ u.bf[n] = t.bf[n]
  <2>1. n \in Node \ {x, y, z}
    BY <1>4, <1>6, ZenonT(30)
  <2>2. e.lr[n] = t.lr[n] /\ e.up[n] = t.up[n] /\ u.lr = e.lr /\ u.up = e.up
    BY <1>15, <1>19, ZenonT(30)
  <2> QED BY <1>33, <2>1, <2>2, ZenonT(30)
<1>31. Adjusted(t, M, v, H, u, q, G, x, y)
  <2>1. u.root = t.root /\ u.up[y] = t.up[x]
    BY <1>15, <1>19, Zenon DEF p
  <2> QED BY <1>6, <1>15, <1>22, <1>28, <1>29, <1>30, <2>1, Zenon DEF Adjusted, p
<1>32. G[y] = H[z] /\ u.bf[y] = 0
  BY <1>5, <1>19, <1>22, SMTT(30) DEF h
<1>34. Shape(u, M, IF w = x THEN y ELSE w, q)
  BY <1>20 DEF k
<1>35. DoubleRotation(t, x, r).top = y
  BY <1>17
<1> QED BY <1>31, <1>32, <1>34, <1>35, Zenon

(* The adjustment of the balance of a node restores it in every case.      *)
LEMMA AdjustHolds ==
    ASSUME NEW t, NEW M, NEW w, NEW v, Shape(t, M, w, v), NEW x \in M,
           NEW H, Heights(t, M, H, x), NEW increment \in Side,
           NEW h0, h0 = H[t.lr[x][0]], NEW h1, h1 = H[t.lr[x][1]],
           t.bf[x] + (IF increment = 1 THEN 1 ELSE -1) = h1 - h0,
           NEW a, a = cavlPrivateAdjustBalance(t, x, increment)
    PROVE  \E q, G : /\ Shape(a.tree, M, IF w = x THEN a.top ELSE w, q)
                     /\ Adjusted(t, M, v, H, a.tree, q, G, x, a.top)
                     /\ IF h1 - h0 \in -1 .. 1
                        THEN a.tree.bf[a.top] = h1 - h0 /\ G[a.top] = 1 + Higher(h0, h1)
                        ELSE G[a.top] = IF a.tree.bf[a.top] = 0 THEN Higher(h0, h1)
                                        ELSE 1 + Higher(h0, h1)
<1>1. /\ t \in Trees /\ M \in SUBSET Node /\ NULL \notin Node /\ NULL = 0
      /\ x \in Node /\ t.bf[x] \in -1 .. 1 /\ t.up[x] \in M \cup {NULL} /\ t.up[x] # x
      /\ t.lr[x][0] \in M \cup {NULL} /\ t.lr[x][1] \in M \cup {NULL}
  BY ShapeIs, ChildIs
<1>2. H \in [Link -> Nat] /\ H[NULL] = 0 /\ \A n \in M \ {x} : Level(t, H, n)
  BY Zenon DEF Heights
<1>3. h0 \in Nat /\ h1 \in Nat
  BY <1>1, <1>2 DEF Link
<1> DEFINE b == t.bf[x] + (IF increment = 1 THEN 1 ELSE -1)
           r == Index(b < 0)
           sign == IF r = 1 THEN 1 ELSE -1
           z == t.lr[x][1 - r]
<1>4. b = h1 - h0 /\ b \in Int
  BY <1>3
<1>5. a = IF b \in -1 .. 1 THEN [top |-> x, tree |-> [t EXCEPT !.bf[x] = b]]
          ELSE IF t.bf[z] * sign <= 0 THEN SingleRotation(t, x, r) ELSE DoubleRotation(t, x, r)
  BY ZenonT(30) DEF cavlPrivateAdjustBalance
<1> HIDE DEF b
<1>6. CASE b \in -1 .. 1
  <2> DEFINE u == [t EXCEPT !.bf[x] = b]
  <2>1. a.tree = u /\ a.top = x
    BY <1>5, <1>6
  <2>2. /\ u \in Trees /\ u.lr = t.lr /\ u.up = t.up /\ u.root = t.root /\ u.bf[x] = b
        /\ \A n \in Node \ {x} : u.bf[n] = t.bf[n]
    BY <1>1, <1>6 DEF Trees
  <2> HIDE DEF u
  <2>3. Shape(u, M, w, v)
    BY <2>2, ShapeOfLinks
  <2> DEFINE g == 1 + Higher(h0, h1)
             G == [H EXCEPT ![x] = g]
  <2>4. g \in Nat
    BY <1>3 DEF Higher
  <2> HIDE DEF g
  <2>5. G \in [Link -> Nat] /\ G[x] = g /\ G[NULL] = 0 /\ \A n \in Link \ {x} : G[n] = H[n]
    BY <1>1, <1>2, <2>4 DEF Link
  <2> HIDE DEF G
  <2>6. Level(u, G, x)
    <3>1. t.lr[x][0] # x /\ t.lr[x][1] # x /\ t.lr[x][0] \in Link /\ t.lr[x][1] \in Link
      BY <1>1, ApartFrom DEF Side, Link
    <3>2. G[u.lr[x][0]] = h0 /\ G[u.lr[x][1]] = h1
      BY <2>2, <2>5, <3>1
    <3> QED BY <1>4, <2>2, <2>5, <3>2 DEF Level, g
  <2>7. ASSUME NEW n \in M \ {t.up[x]} PROVE Level(u, G, n)
    <3>1. CASE n # x
      <4>1. \A s \in Side : t.lr[n][s] # x /\ t.lr[n][s] \in Link
        BY ApartFrom
      <4>2. t.lr[n][0] \in Link \ {x} /\ t.lr[n][1] \in Link \ {x}
        BY <4>1 DEF Side
      <4>3. n \in Node \ {x} /\ n \in Link \ {x}
        BY <1>1, <3>1 DEF Link
      <4>4. u.bf[n] = t.bf[n] /\ G[n] = H[n] /\ u.lr[n] = t.lr[n]
        BY <2>2, <2>5, <4>3
      <4>5. Level(t, H, n)
        BY <1>2, <3>1
      <4> QED BY <2>5, <4>2, <4>4, <4>5 DEF Level
    <3> QED BY <2>6, <3>1
  <2>8. ASSUME NEW n \in M, n = t.up[x]
        PROVE  /\ v.lo[n] = v.lo[n] /\ v.hi[n] = v.hi[n] /\ u.bf[n] = t.bf[n] /\ G[n] = H[n]
               /\ \A s \in Side : IF t.lr[n][s] = x THEN u.lr[n][s] = x
                                  ELSE u.lr[n][s] = t.lr[n][s] /\ G[t.lr[n][s]] = H[t.lr[n][s]]
    <3>1. n \in Node \ {x} /\ n \in Link \ {x}
      BY <1>1, <2>8 DEF Link
    <3>2. \A s \in Side : t.lr[n][s] \in Link
      BY ApartFrom
    <3> QED BY <2>2, <2>5, <3>1, <3>2
  <2>9. \A n \in Node \ M : u.lr[n] = t.lr[n] /\ u.up[n] = t.up[n] /\ u.bf[n] = t.bf[n]
    BY <2>2
  <2>10. Adjusted(t, M, v, H, u, v, G, x, x)
    BY <2>2, <2>5, <2>7, <2>8, <2>9, Zenon DEF Adjusted
  <2>11. Shape(u, M, IF w = x THEN x ELSE w, v)
    BY <2>3
  <2>12. u.bf[x] = h1 - h0 /\ G[x] = 1 + Higher(h0, h1) /\ h1 - h0 \in -1 .. 1
    BY <1>4, <1>6, <2>2, <2>5, ZenonT(30) DEF g
  <2> QED BY <2>1, <2>10, <2>11, <2>12, ZenonT(30)
<1>7. CASE b \notin -1 .. 1
  <2>1. r \in Side /\ (r = 0 \/ r = 1) /\ 1 - r \in Side
    BY DEF Index, Side
  <2>2. r = 1 <=> b < 0
    BY DEF Index
  <2> HIDE DEF r
  <2>3. b = 2 \/ b = -2
    <3>1. b = t.bf[x] + 1 \/ b = t.bf[x] - 1
      BY <1>1 DEF b
    <3> QED BY <1>1, <1>7, <3>1
  <2>4. H[z] = H[t.lr[x][r]] + 2 /\ Higher(h0, h1) = H[z]
    <3>1. CASE r = 1
      BY <1>3, <1>4, <2>2, <2>3, <3>1 DEF Higher
    <3>2. CASE r = 0
      BY <1>3, <1>4, <2>2, <2>3, <3>2 DEF Higher
    <3> QED BY <2>1, <3>1, <3>2
  <2>5. z \in M
    <3>1. z \in M \cup {NULL} /\ t.lr[x][r] \in Link
      BY <2>1, ApartFrom
    <3>2. z # NULL
      BY <1>2, <2>4, <3>1
    <3> QED BY <3>1, <3>2
  <2>6. t.bf[z] \in -1 .. 1
    BY <2>5, ShapeIs
  <2>7. CASE t.bf[z] * sign <= 0
    <3>1. a = SingleRotation(t, x, r)
      BY <1>5, <1>7, <2>7, ZenonT(30)
    <3>2. /\ a.top = z
          /\ \E q, G : /\ Shape(a.tree, M, IF w = x THEN z ELSE w, q)
                       /\ Adjusted(t, M, v, H, a.tree, q, G, x, z)
                       /\ G[z] = IF a.tree.bf[z] = 0 THEN H[z] ELSE 1 + H[z]
      <4> DEFINE u == a.tree
      <4>1. u = SingleRotation(t, x, r).tree
        BY <3>1
      <4>2. Child(t, x, 1 - r, z)
        BY DEF Child
      <4> HIDE DEF u, z, sign
      <4>3. t.bf[z] * (IF r = 1 THEN 1 ELSE -1) <= 0
        BY <2>7 DEF sign
      <4>4. /\ SingleRotation(t, x, r).top = z
            /\ \E q, G : /\ Shape(u, M, IF w = x THEN z ELSE w, q)
                         /\ Adjusted(t, M, v, H, u, q, G, x, z)
                         /\ G[z] = IF u.bf[z] = 0 THEN H[z] ELSE 1 + H[z]
        BY <2>1, <2>4, <4>1, <4>2, <4>3, SingleHolds
      <4> QED BY <3>1, <4>4 DEF u
    <3> HIDE DEF z
    <3> QED BY <1>4, <1>7, <2>4, <3>2
  <2>8. CASE ~(t.bf[z] * sign <= 0)
    <3> DEFINE y == t.lr[z][r]
    <3>1. a = DoubleRotation(t, x, r)
      BY <1>5, <1>7, <2>8
    <3>2. t.bf[z] = (IF r = 1 THEN 1 ELSE -1)
      BY <2>1, <2>6, <2>8, SMTT(30)
    <3>3. /\ a.top = y
          /\ \E q, G : /\ Shape(a.tree, M, IF w = x THEN y ELSE w, q)
                       /\ Adjusted(t, M, v, H, a.tree, q, G, x, y)
                       /\ a.tree.bf[y] = 0 /\ G[y] = H[z]
      <4> DEFINE u == a.tree
      <4>1. u = DoubleRotation(t, x, r).tree
        BY <3>1
      <4>2. Child(t, x, 1 - r, z) /\ Child(t, z, r, y)
        BY DEF Child
      <4> HIDE DEF u, z, y
      <4>3. /\ DoubleRotation(t, x, r).top = y
            /\ \E q, G : /\ Shape(u, M, IF w = x THEN y ELSE w, q)
                         /\ Adjusted(t, M, v, H, u, q, G, x, y)
                         /\ u.bf[y] = 0 /\ G[y] = H[z]
        BY <2>1, <2>4, <3>2, <4>1, <4>2, DoubleHolds
      <4> QED BY <3>1, <4>3, ZenonT(30) DEF u
    <3> HIDE DEF z, y
    <3> QED BY <1>4, <1>7, <2>4, <3>3
  <2> QED BY <2>7, <2>8, ZenonT(30)
<1> QED BY <1>6, <1>7, ZenonT(30)

-----------------------------------------------------------------------------
(* On the way up.  The side r of p is d higher than p accounts for.        *)

Before(H, child, here, d) == IF here THEN H[child] - d ELSE H[child]

Due(t, H, p, r, d) ==
    LET k0 == Before(H, t.lr[p][0], r = 0, d)
        k1 == Before(H, t.lr[p][1], r = 1, d)
    IN  t.bf[p] = k1 - k0 /\ H[p] = 1 + Higher(k0, k1)

(* The state of the loop: p is out of step with its side r, or NULL.       *)
Retracing(s, M, d, v, H) ==
    /\ s \in [tree : Trees, p : Link, r : Side]
    /\ Shape(s.tree, M, s.tree.root, v)
    /\ s.p \in M \cup {NULL}
    /\ Heights(s.tree, M, H, s.p)
    /\ s.p # NULL => Due(s.tree, H, s.p, s.r, d)

SameOutside(t, u, M) ==
    \A n \in Node \ M : u.lr[n] = t.lr[n] /\ u.up[n] = t.up[n] /\ u.bf[n] = t.bf[n]

Width(v, n) == v.hi[n] - v.lo[n]

(* A turn on the way up: one node higher, or done.                         *)
LEMMA RetraceStepHolds ==
    ASSUME NEW M, NEW d \in {-1, 1}, NEW s, NEW v, NEW H, Retracing(s, M, d, v, H),
           s.p # NULL, NEW e, e = RetraceStep(s, d)
    PROVE  \E q, G : /\ Retracing(e, M, d, q, G)
                     /\ q.size = v.size /\ q.pos = v.pos
                     /\ SameOutside(s.tree, e.tree, M)
                     /\ e.p # NULL => Width(v, s.p) < Width(q, e.p)
<1> DEFINE t == s.tree
           x == s.p
           r == s.r
           inc == IF d = 1 THEN r ELSE 1 - r
           a == cavlPrivateAdjustBalance(t, x, inc)
           u == a.tree
           top == a.top
           p == u.up[top]
           absorbed == IF d = 1 THEN u.bf[top] = 0 ELSE u.bf[top] # 0
           h0 == H[t.lr[x][0]]
           h1 == H[t.lr[x][1]]
           b == t.bf[x]
           k0 == Before(H, t.lr[x][0], r = 0, d)
           k1 == Before(H, t.lr[x][1], r = 1, d)
<1>1. e = IF p = NULL THEN [tree |-> [u EXCEPT !.root = top], p |-> NULL, r |-> 0]
          ELSE [tree |-> u, p |-> IF absorbed THEN NULL ELSE p, r |-> Index(u.lr[p][1] = top)]
  BY ZenonT(30) DEF RetraceStep
<1>2. /\ s \in [tree : Trees, p : Link, r : Side]
      /\ Shape(t, M, t.root, v) /\ x \in M /\ Heights(t, M, H, x) /\ Due(t, H, x, r, d)
  BY DEF Retracing
<1>3. r \in Side /\ (r = 0 \/ r = 1) /\ inc \in Side
  BY <1>2 DEF Side
<1>4. /\ b \in -1 .. 1 /\ h0 \in Nat /\ h1 \in Nat /\ H[x] \in Nat
      /\ k0 = (IF r = 0 THEN h0 - d ELSE h0) /\ k1 = (IF r = 1 THEN h1 - d ELSE h1)
      /\ k0 \in Int /\ k1 \in Int
      /\ b = k1 - k0 /\ H[x] = 1 + Higher(k0, k1)
  <2>1. H \in [Link -> Nat] /\ t.lr[x][0] \in Link /\ t.lr[x][1] \in Link /\ x \in Link
    <3>1. H \in [Link -> Nat]
      BY <1>2 DEF Heights
    <3>2. t.lr[x][0] \in Link /\ t.lr[x][1] \in Link
      BY <1>2, ApartFrom DEF Side
    <3> QED BY <1>2, <3>1, <3>2
  <2>2. h0 \in Nat /\ h1 \in Nat /\ H[x] \in Nat
    BY <2>1
  <2>3. k0 = (IF r = 0 THEN h0 - d ELSE h0) /\ k1 = (IF r = 1 THEN h1 - d ELSE h1)
    BY Zenon DEF Before
  <2>4. k0 \in Int /\ k1 \in Int
    <3> HIDE DEF k0, k1, h0, h1, r
    <3> QED BY <2>2, <2>3
  <2>5. b = k1 - k0 /\ H[x] = 1 + Higher(k0, k1)
    BY <1>2, Zenon DEF Due
  <2>6. b \in -1 .. 1
    BY <1>2, ShapeIs
  <2> QED BY <2>2, <2>3, <2>4, <2>5, <2>6, ZenonT(30)
<1> HIDE DEF k0, k1, a, u, top
<1>5. b + (IF inc = 1 THEN 1 ELSE -1) = h1 - h0
  <2> HIDE DEF b, h0, h1, t, x, r
  <2> QED BY <1>3, <1>4
<1>6. PICK q, G : /\ Shape(u, M, IF t.root = x THEN top ELSE t.root, q)
                  /\ Adjusted(t, M, v, H, u, q, G, x, top)
                  /\ IF h1 - h0 \in -1 .. 1
                     THEN u.bf[top] = h1 - h0 /\ G[top] = 1 + Higher(h0, h1)
                     ELSE G[top] = IF u.bf[top] = 0 THEN Higher(h0, h1)
                                   ELSE 1 + Higher(h0, h1)
  <2>1. PICK q, G : /\ Shape(a.tree, M, IF t.root = x THEN a.top ELSE t.root, q)
                    /\ Adjusted(t, M, v, H, a.tree, q, G, x, a.top)
                    /\ IF h1 - h0 \in -1 .. 1
                       THEN a.tree.bf[a.top] = h1 - h0 /\ G[a.top] = 1 + Higher(h0, h1)
                       ELSE G[a.top] = IF a.tree.bf[a.top] = 0 THEN Higher(h0, h1)
                                       ELSE 1 + Higher(h0, h1)
    <3>1. a = cavlPrivateAdjustBalance(t, x, inc)
      BY DEF a
    <3> HIDE DEF t, x, inc
    <3> QED BY <1>2, <1>3, <1>5, <3>1, AdjustHolds DEF h0, h1, b
  <2> QED BY <2>1, ZenonT(30) DEF u, top
<1>7. /\ top \in M /\ u.root = t.root /\ u.up[top] = t.up[x]
      /\ q.size = v.size /\ q.pos = v.pos
      /\ G \in [Link -> Nat] /\ G[NULL] = 0
      /\ \A n \in M \ {t.up[x]} : Level(u, G, n)
      /\ \A n \in M : n = t.up[x] =>
           /\ q.lo[n] = v.lo[n] /\ q.hi[n] = v.hi[n] /\ u.bf[n] = t.bf[n] /\ G[n] = H[n]
           /\ \A i \in Side : IF t.lr[n][i] = x THEN u.lr[n][i] = top
                              ELSE u.lr[n][i] = t.lr[n][i] /\ G[t.lr[n][i]] = H[t.lr[n][i]]
      /\ SameOutside(t, u, M)
  BY <1>6, Zenon DEF Adjusted, SameOutside
<1>8. /\ u \in Trees /\ NULL \notin M /\ M \subseteq Node /\ t \in Trees
      /\ t.up[x] \in M \cup {NULL} /\ (t.up[x] = NULL <=> x = t.root)
      /\ top \in Link /\ u.bf[top] \in Int /\ G[top] \in Nat
  <2>1. /\ u \in Trees /\ NULL \notin M /\ M \subseteq Node /\ t \in Trees
        /\ t.up[x] \in M \cup {NULL} /\ (t.up[x] = NULL <=> x = t.root)
    BY <1>2, <1>6, ShapeIs
  <2>2. top \in Node
    BY <1>7, <2>1
  <2> QED BY <1>7, <2>1, <2>2 DEF Trees, Link
(* How the height of a subtree comes out of an adjustment is in its balance.*)
<1>9. G[top] = IF d = 1 THEN (IF u.bf[top] = 0 THEN H[x] ELSE H[x] + 1)
               ELSE (IF u.bf[top] # 0 THEN H[x] ELSE H[x] - 1)
  <2> DEFINE old == H[x]
             c == u.bf[top]
             g == G[top]
  <2>1. IF h1 - h0 \in -1 .. 1 THEN c = h1 - h0 /\ g = 1 + Higher(h0, h1)
        ELSE g = IF c = 0 THEN Higher(h0, h1) ELSE 1 + Higher(h0, h1)
    BY <1>6, ZenonT(30)
  <2>2. c \in Int /\ g \in Nat
    BY <1>8, ZenonT(30)
  <2>3. /\ b \in -1 .. 1 /\ h0 \in Nat /\ h1 \in Nat /\ old \in Nat
        /\ k0 = (IF r = 0 THEN h0 - d ELSE h0) /\ k1 = (IF r = 1 THEN h1 - d ELSE h1)
        /\ k0 \in Int /\ k1 \in Int
        /\ b = k1 - k0 /\ old = 1 + Higher(k0, k1)
    BY <1>4, ZenonT(30)
  <2> SUFFICES g = IF d = 1 THEN (IF c = 0 THEN old ELSE old + 1)
                   ELSE (IF c # 0 THEN old ELSE old - 1)
    OBVIOUS
  <2> HIDE DEF b, h0, h1, r, old, c, g
  <2>4. CASE r = 0 /\ d = 1
    BY <2>1, <2>2, <2>3, <2>4 DEF Higher
  <2>5. CASE r = 1 /\ d = 1
    BY <2>1, <2>2, <2>3, <2>5 DEF Higher
  <2>6. CASE r = 0 /\ d = -1
    BY <2>1, <2>2, <2>3, <2>6 DEF Higher
  <2>7. CASE r = 1 /\ d = -1
    BY <2>1, <2>2, <2>3, <2>7 DEF Higher
  <2> QED BY <1>3, <2>4, <2>5, <2>6, <2>7, ZenonT(30)
<1> HIDE DEF h0, h1, b
<1>10. CASE p = NULL
  <2> DEFINE f == [u EXCEPT !.root = top]
  <2>1. e = [tree |-> f, p |-> NULL, r |-> 0]
    BY <1>1, <1>10
  <2>2. /\ f \in Trees /\ f.lr = u.lr /\ f.up = u.up /\ f.root = top /\ f.bf = u.bf
    BY <1>8 DEF Trees
  <2> HIDE DEF f
  <2>3. Shape(f, M, top, q)
    <3>1. Shape(u, M, top, q)
      BY <1>6, <1>7, <1>8, <1>10
    <3> QED BY <2>2, <3>1, ShapeOfLinks
  <2>4. Heights(f, M, G, NULL)
    <3>1. \A n \in M : Level(u, G, n)
      BY <1>7, <1>8, <1>10
    <3>2. \A n \in M : Level(f, G, n)
      BY <2>2, <3>1 DEF Level
    <3> QED BY <1>7, <3>2 DEF Heights
  <2>5. Retracing(e, M, d, q, G)
    <3>1. e \in [tree : Trees, p : Link, r : Side]
      BY <2>1, <2>2 DEF Link, Side
    <3>2. e.p = NULL /\ e.tree = f
      BY <2>1
    <3> QED BY <2>2, <2>3, <2>4, <3>1, <3>2 DEF Retracing
  <2>6. SameOutside(t, e.tree, M)
    BY <1>7, <2>1, <2>2 DEF SameOutside
  <2>7. e.p = NULL
    BY <2>1
  <2> QED BY <1>7, <2>5, <2>6, <2>7
<1>11. CASE p # NULL
  <2>1. p = t.up[x] /\ p \in M /\ x # t.root
    BY <1>7, <1>8, <1>11
  <2>2. Shape(u, M, u.root, q)
    BY <1>6, <1>7, <2>1
  <2>3. /\ t.lr[p][0] = x \/ t.lr[p][1] = x
        /\ ~(t.lr[p][0] = x /\ t.lr[p][1] = x)
        /\ Width(v, x) < Width(v, p) /\ p # x
    <3>1. t.up[x] # NULL
      BY <1>11, <2>1, ZenonT(30)
    <3>2. /\ t.lr[p][0] = x \/ t.lr[p][1] = x
          /\ Width(v, x) < Width(v, p) /\ p # x
      BY <1>2, <2>1, <3>1, ChildIs DEF Width
    <3>3. x # NULL
      OBVIOUS
    <3>4. ~(t.lr[p][0] = x /\ t.lr[p][1] = x)
      BY <1>2, <2>1, <3>3, ChildIs, SMTT(30)
    <3> QED BY <3>2, <3>4
  <2>4. /\ q.lo[p] = v.lo[p] /\ q.hi[p] = v.hi[p] /\ u.bf[p] = t.bf[p] /\ G[p] = H[p]
        /\ IF t.lr[p][0] = x THEN u.lr[p][0] = top
           ELSE u.lr[p][0] = t.lr[p][0] /\ G[t.lr[p][0]] = H[t.lr[p][0]]
        /\ IF t.lr[p][1] = x THEN u.lr[p][1] = top
           ELSE u.lr[p][1] = t.lr[p][1] /\ G[t.lr[p][1]] = H[t.lr[p][1]]
    <3>1. 0 \in Side /\ 1 \in Side
      BY DEF Side
    <3> QED BY <1>7, <2>1, <3>1, ZenonT(30)
  <2>5. Level(t, H, p)
    BY <1>2, <2>1, <2>3 DEF Heights
  <2>6. H[x] \in Nat /\ H[t.lr[p][0]] \in Nat /\ H[t.lr[p][1]] \in Nat
    <3>1. t.lr[p][0] \in Link /\ t.lr[p][1] \in Link /\ x \in Link
      BY <1>2, <2>1, ApartFrom DEF Side
    <3> QED BY <1>2, <3>1 DEF Heights
  <2>7. CASE absorbed
    <3>1. e = [tree |-> u, p |-> NULL, r |-> Index(u.lr[p][1] = top)]
      BY <1>1, <1>11, <2>7
    <3>2. G[top] = H[x]
      BY <1>9, <2>7, ZenonT(30)
    <3>3. G[u.lr[p][0]] = H[t.lr[p][0]] /\ G[u.lr[p][1]] = H[t.lr[p][1]]
      BY <2>4, <3>2, ZenonT(30)
    <3>4. Level(u, G, p)
      BY <2>4, <2>5, <3>3, ZenonT(30) DEF Level
    <3>5. Heights(u, M, G, NULL)
      BY <1>7, <2>1, <3>4 DEF Heights
    <3>6. /\ e \in [tree : Trees, p : Link, r : Side] /\ e.tree = u /\ e.p = NULL
      <4>1. Index(u.lr[p][1] = top) \in Side
        BY DEF Index, Side
      <4> QED BY <1>8, <3>1, <4>1 DEF Link
    <3>7. Retracing(e, M, d, q, G)
      BY <2>2, <3>5, <3>6, ZenonT(30) DEF Retracing
    <3> QED BY <1>7, <3>6, <3>7
  <2>8. CASE ~absorbed
    <3> DEFINE i == Index(u.lr[p][1] = top)
    <3>1. e = [tree |-> u, p |-> p, r |-> i]
      BY <1>1, <1>11, <2>8
    <3>2. G[top] = H[x] + d
      BY <1>9, <2>6, <2>8
    <3>3. i = IF t.lr[p][1] = x THEN 1 ELSE 0
      <4>1. t.lr[p][1] = x => u.lr[p][1] = top
        BY <2>4
      <4>2. ASSUME t.lr[p][1] # x PROVE u.lr[p][1] # top
        <5>1. u.lr[p][0] = top
          BY <2>3, <2>4, <4>2
        <5>2. top # NULL
          BY <1>7, <1>8, ZenonT(30)
        <5> QED BY <2>1, <2>2, <5>1, <5>2, ChildIs
      <4> QED BY <4>1, <4>2 DEF Index
    <3>4. /\ Before(G, u.lr[p][0], i = 0, d) = H[t.lr[p][0]]
          /\ Before(G, u.lr[p][1], i = 1, d) = H[t.lr[p][1]]
      <4>1. CASE t.lr[p][1] = x
        <5>1. i = 1 /\ u.lr[p][1] = top /\ G[u.lr[p][0]] = H[t.lr[p][0]]
          BY <2>3, <2>4, <3>3, <4>1
        <5> HIDE DEF i
        <5> QED BY <2>6, <3>2, <4>1, <5>1 DEF Before
      <4>2. CASE t.lr[p][1] # x
        <5>1. i = 0 /\ u.lr[p][0] = top /\ G[u.lr[p][1]] = H[t.lr[p][1]] /\ t.lr[p][0] = x
          BY <2>3, <2>4, <3>3, <4>2, ZenonT(30)
        <5> HIDE DEF i
        <5> QED BY <2>6, <3>2, <4>2, <5>1 DEF Before
      <4> QED BY <4>1, <4>2, ZenonT(30)
    <3>5. Due(u, G, p, i, d)
      BY <2>4, <2>5, <3>4, ZenonT(30) DEF Due, Level
    <3>6. Heights(u, M, G, p)
      BY <1>7, <2>1 DEF Heights
    <3>7. /\ e \in [tree : Trees, p : Link, r : Side] /\ e.tree = u /\ e.p = p /\ e.r = i
      <4>1. i \in Side /\ p \in Link
        BY <1>8, <2>1, ZenonT(30) DEF Index, Side, Link
      <4> QED BY <1>8, <3>1, <4>1
    <3>8. Retracing(e, M, d, q, G)
      BY <2>1, <2>2, <3>5, <3>6, <3>7, ZenonT(30) DEF Retracing
    <3>9. Width(v, x) < Width(q, p)
      BY <2>3, <2>4, ZenonT(30) DEF Width
    <3> QED BY <1>7, <3>7, <3>8, <3>9, ZenonT(30)
  <2> QED BY <2>7, <2>8
<1> QED BY <1>10, <1>11

(* On the way up the balance is restored everywhere, at the root at the latest.*)
LEMMA RetraceHolds ==
    ASSUME NEW M, NEW d \in {-1, 1}, NEW t, NEW p, NEW r, NEW v, NEW H,
           Retracing([tree |-> t, p |-> p, r |-> r], M, d, v, H), p # NULL,
           v.size <= Cardinality(Node), NEW u, u = Retrace(t, p, r, d)
    PROVE  \E q, G : /\ Shape(u, M, u.root, q) /\ Heights(u, M, G, NULL)
                     /\ q.size = v.size /\ q.pos = v.pos
                     /\ SameOutside(t, u, M)
<1> DEFINE start == [tree |-> t, p |-> p, r |-> r]
           states == [tree : Trees, p : Link, r : Side]
           step == [s \in states |-> RetraceStep(s, d)]
           N == Cardinality(Node)
<1>1. PICK f : /\ f[0] = start
               /\ \A k \in Nat : f[k + 1] = step[f[k]]
               /\ Repeated(step, start) = f[N]
  <2> HIDE DEF start, step
  <2> QED BY RepeatedIs
<1>2. u = f[N].tree
  BY <1>1 DEF Retrace
<1> HIDE DEF start
<1> DEFINE Underway(s, k, q, G) ==
               /\ Retracing(s, M, d, q, G)
               /\ q.size = v.size /\ q.pos = v.pos
               /\ SameOutside(t, s.tree, M)
               /\ s.p # NULL => k <= Width(q, s.p)
           P == {k \in Nat : \E q, G : Underway(f[k], k, q, G)}
<1>3. 0 \in P
  <2>1. Retracing(start, M, d, v, H) /\ start.p = p /\ start.tree = t
    BY DEF start
  <2>2. p \in M /\ Shape(t, M, t.root, v)
    BY <2>1 DEF Retracing
  <2>3. 0 <= Width(v, p)
    BY <2>2, ShapeIs DEF Width
  <2>4. SameOutside(t, start.tree, M)
    BY <2>1 DEF SameOutside
  <2>5. Underway(start, 0, v, H)
    BY <2>1, <2>3, <2>4
  <2> HIDE DEF Underway
  <2> QED BY <1>1, <2>5
<1>4. ASSUME NEW k \in P PROVE k + 1 \in P
  <2>1. k \in Nat /\ k + 1 \in Nat
    OBVIOUS
  <2>2. PICK q, G : Underway(f[k], k, q, G)
    OBVIOUS
  <2> DEFINE s == f[k]
             e == RetraceStep(s, d)
  <2>3. f[k + 1] = e
    <3>1. s \in states
      BY <2>2 DEF Retracing
    <3>2. f[k + 1] = step[s]
      BY <1>1, <2>1
    <3> QED BY <3>1, <3>2
  <2>4. \E q2, G2 : Underway(e, k + 1, q2, G2)
    <3>1. CASE s.p = NULL
      <4>1. e = s
        BY <3>1 DEF RetraceStep
      <4>2. Underway(e, k + 1, q, G)
        <5> HIDE DEF s, e
        <5> QED BY <2>2, <3>1, <4>1 DEF s
      <4> HIDE DEF Underway, e
      <4> QED BY <4>2
    <3>2. CASE s.p # NULL
      <4> HIDE DEF s
      <4>1. Underway(s, k, q, G)
        BY <2>2 DEF s
      <4>2. PICK q2, G2 : /\ Retracing(e, M, d, q2, G2)
                          /\ q2.size = q.size /\ q2.pos = q.pos
                          /\ SameOutside(s.tree, e.tree, M)
                          /\ e.p # NULL => Width(q, s.p) < Width(q2, e.p)
        <5>1. Retracing(s, M, d, q, G) /\ e = RetraceStep(s, d)
          BY <4>1
        <5> HIDE DEF e
        <5> QED BY <3>2, <5>1, RetraceStepHolds
      <4> HIDE DEF e
      <4>3. SameOutside(t, e.tree, M)
        BY <4>1, <4>2 DEF SameOutside
      <4>4. ASSUME e.p # NULL PROVE k + 1 <= Width(q2, e.p)
        <5>1. k <= Width(q, s.p) /\ Width(q, s.p) < Width(q2, e.p)
          BY <3>2, <4>1, <4>2, <4>4
        <5>2. Width(q, s.p) \in Int /\ Width(q2, e.p) \in Int
          <6>1. Shape(s.tree, M, s.tree.root, q) /\ s.p \in M
            BY <3>2, <4>1 DEF Retracing
          <6>2. Shape(e.tree, M, e.tree.root, q2) /\ e.p \in M
            BY <4>2, <4>4 DEF Retracing
          <6>3. q.hi[s.p] \in Int /\ q.lo[s.p] \in Int
            BY <6>1, ShapeIs
          <6>4. q2.hi[e.p] \in Int /\ q2.lo[e.p] \in Int
            BY <6>2, ShapeIs
          <6> QED BY <6>3, <6>4 DEF Width
        <5> QED BY <2>1, <5>1, <5>2
      <4>5. Underway(e, k + 1, q2, G2)
        BY <4>1, <4>2, <4>3, <4>4
      <4> HIDE DEF Underway
      <4> QED BY <4>5
    <3> QED BY <3>1, <3>2
  <2> HIDE DEF Underway, e
  <2> QED BY <2>1, <2>3, <2>4
<1>5. N \in Nat
  BY CavlAssumption, FS_CardinalityType
<1>6. N \in P
  <2>1. P \in SUBSET Nat
    OBVIOUS
  <2> HIDE DEF P
  <2> QED BY <1>3, <1>4, <1>5, <2>1, EveryNatural
<1>7. PICK q, G : Underway(f[N], N, q, G)
  BY <1>6
<1>8. Shape(u, M, u.root, q) /\ f[N].p \in M \cup {NULL} /\ Heights(u, M, G, f[N].p)
  BY <1>2, <1>7 DEF Retracing
<1>9. f[N].p = NULL
  <2> SUFFICES ASSUME f[N].p # NULL PROVE FALSE
    OBVIOUS
  <2> DEFINE n == f[N].p
  <2>1. n \in M /\ N <= Width(q, n)
    BY <1>7, <1>8
  <2> HIDE DEF n
  <2>2. /\ q.lo[n] \in Int /\ q.hi[n] \in Int /\ 1 <= q.lo[n] /\ q.hi[n] <= q.size
        /\ q.size \in Nat
    BY <1>8, <2>1, ShapeIs DEF Views
  <2>3. q.size <= N
    BY <1>7
  <2> HIDE DEF N
  <2> QED BY <1>5, <2>1, <2>2, <2>3 DEF Width
<1> QED BY <1>2, <1>7, <1>8, <1>9

-----------------------------------------------------------------------------
(* The order: o lists the nodes, and pos is where a node stands in it.     *)

Ordered(o, M, v) ==
    /\ o \in Seq(Node) /\ Len(o) = v.size
    /\ \A i \in 1 .. v.size : o[i] \in M /\ v.pos[o[i]] = i
    /\ \A n \in M : v.pos[n] \in 1 .. v.size /\ o[v.pos[n]] = n

LEMMA OrderedApart ==
    ASSUME NEW o, NEW M, NEW v, Ordered(o, M, v), NEW m \in M, NEW n \in M, m # n
    PROVE  v.pos[m] # v.pos[n]
BY DEF Ordered

LEMMA OrderedSize ==
    ASSUME NEW o, NEW M, NEW v, Ordered(o, M, v)
    PROVE  v.size \in Nat /\ v.size <= Cardinality(Node)
<1>1. o \in Seq(Node) /\ Len(o) = v.size
      /\ \A i \in 1 .. v.size : o[i] \in Node /\ v.pos[o[i]] = i
  BY DEF Ordered
<1>2. v.size \in Nat
  BY <1>1
<1> DEFINE f == [i \in 1 .. v.size |-> o[i]]
<1>3. f \in Injection(1 .. v.size, Node)
  BY <1>1 DEF Injection, IsInjective
<1>4. Cardinality(1 .. v.size) <= Cardinality(Node)
  <2> HIDE DEF f
  <2> QED BY <1>3, CavlAssumption, FS_Injection
<1>5. Cardinality(1 .. v.size) = v.size
  <2>1. IF 1 > v.size THEN Cardinality(1 .. v.size) = 0
        ELSE Cardinality(1 .. v.size) = v.size - 1 + 1
    BY <1>2, FS_Interval
  <2> QED BY <1>2, <2>1
<1> QED BY <1>2, <1>4, <1>5

(* A node is hung up at position i: those from there on move by one.       *)
Widened(v, q, up, i, n) ==
    /\ q \in Views /\ q.size = v.size + 1
    /\ q.pos[n] = i /\ q.lo[n] = i /\ q.hi[n] = i
    /\ \A m \in Node \ {n} :
         /\ q.pos[m] = IF v.pos[m] >= i THEN v.pos[m] + 1 ELSE v.pos[m]
         /\ q.lo[m] = IF v.lo[m] > v.pos[up] THEN v.lo[m] + 1 ELSE v.lo[m]
         /\ q.hi[m] = IF v.hi[m] >= v.pos[up] THEN v.hi[m] + 1 ELSE v.hi[m]

LEMMA WidenedExists ==
    ASSUME NEW v \in Views, NEW up \in Node, NEW n \in Node, NEW i \in Int
    PROVE  \E q : Widened(v, q, up, i, n)
<1> DEFINE pos == [m \in Node |-> IF m = n THEN i ELSE IF v.pos[m] >= i THEN v.pos[m] + 1
                                  ELSE v.pos[m]]
           lo == [m \in Node |-> IF m = n THEN i ELSE IF v.lo[m] > v.pos[up] THEN v.lo[m] + 1
                                 ELSE v.lo[m]]
           hi == [m \in Node |-> IF m = n THEN i ELSE IF v.hi[m] >= v.pos[up] THEN v.hi[m] + 1
                                 ELSE v.hi[m]]
           size == v.size + 1
<1>1. /\ v.pos \in [Node -> Int] /\ v.lo \in [Node -> Int] /\ v.hi \in [Node -> Int]
      /\ v.size \in Nat
  BY DEF Views
<1>2. pos \in [Node -> Int] /\ lo \in [Node -> Int] /\ hi \in [Node -> Int] /\ size \in Nat
  BY <1>1
<1>3. /\ pos[n] = i /\ lo[n] = i /\ hi[n] = i
      /\ \A m \in Node \ {n} :
           /\ pos[m] = IF v.pos[m] >= i THEN v.pos[m] + 1 ELSE v.pos[m]
           /\ lo[m] = IF v.lo[m] > v.pos[up] THEN v.lo[m] + 1 ELSE v.lo[m]
           /\ hi[m] = IF v.hi[m] >= v.pos[up] THEN v.hi[m] + 1 ELSE v.hi[m]
  OBVIOUS
<1> DEFINE q == [size |-> size, pos |-> pos, lo |-> lo, hi |-> hi]
<1>5. size = v.size + 1
  OBVIOUS
<1> HIDE DEF pos, lo, hi, size
<1>6. q \in Views /\ q.size = size /\ q.pos = pos /\ q.lo = lo /\ q.hi = hi
  BY <1>2 DEF Views
<1> HIDE DEF q
<1>7. Widened(v, q, up, i, n)
  BY <1>3, <1>5, <1>6 DEF Widened
<1> QED BY <1>7

(* A leaf is hung up below a node that has no child there.                 *)
Hung(t, a, n, up, side) ==
    /\ a \in Trees /\ a.root = t.root
    /\ \A s \in Side : a.lr[n][s] = NULL
    /\ a.lr[up][side] = n /\ a.lr[up][1 - side] = t.lr[up][1 - side]
    /\ a.up[n] = up /\ a.bf[n] = 0
    /\ \A m \in Node \ {n} : a.up[m] = t.up[m] /\ a.bf[m] = t.bf[m]
    /\ \A m \in Node \ {n, up} : a.lr[m] = t.lr[m]

(* A leaf hung up below a node stands right before or right after it.      *)
LEMMA HungShape ==
    ASSUME NEW t, NEW M, NEW w, NEW v, Shape(t, M, w, v), NEW o, Ordered(o, M, v),
           NEW n \in Node \ M, NEW up \in M, NEW side \in Side, t.lr[up][side] = NULL,
           NEW a, Hung(t, a, n, up, side), NEW i, i = v.pos[up] + side,
           NEW q, Widened(v, q, up, i, n)
    PROVE  Shape(a, M \cup {n}, w, q)
<1> DEFINE K == M \cup {n}
<1>1. side = 0 \/ side = 1
  BY DEF Side
<1>2. /\ t \in Trees /\ M \in SUBSET Node /\ w \in Link /\ v \in Views /\ w \in M
      /\ NULL \notin Node /\ NULL \notin M /\ NULL = 0 /\ up \in Node /\ n \in Node /\ n # up /\ w # n
      /\ Linked(t, M, w) /\ Spanned(t, M, w, v) /\ v.size \in Nat
  <2>1. Linked(t, M, w) /\ Spanned(t, M, w, v)
    BY Zenon DEF Shape
  <2> QED BY <2>1, ShapeIs DEF Views
<1>3. \A m \in M : /\ v.lo[m] \in Int /\ v.hi[m] \in Int /\ v.pos[m] \in Int
                   /\ v.lo[m] <= v.pos[m] /\ v.pos[m] <= v.hi[m]
                   /\ 1 <= v.lo[m] /\ v.hi[m] <= v.size
  BY ShapeIs
<1>4. i \in Int
  BY <1>1, <1>3
<1>5. /\ q \in Views /\ q.size = v.size + 1
      /\ q.pos[n] = i /\ q.lo[n] = i /\ q.hi[n] = i
      /\ \A m \in M : /\ q.pos[m] = IF v.pos[m] >= i THEN v.pos[m] + 1 ELSE v.pos[m]
                      /\ q.lo[m] = IF v.lo[m] > v.pos[up] THEN v.lo[m] + 1 ELSE v.lo[m]
                      /\ q.hi[m] = IF v.hi[m] >= v.pos[up] THEN v.hi[m] + 1 ELSE v.hi[m]
  <2>1. /\ q \in Views /\ q.size = v.size + 1
        /\ q.pos[n] = i /\ q.lo[n] = i /\ q.hi[n] = i
        /\ \A m \in Node \ {n} :
             /\ q.pos[m] = IF v.pos[m] >= i THEN v.pos[m] + 1 ELSE v.pos[m]
             /\ q.lo[m] = IF v.lo[m] > v.pos[up] THEN v.lo[m] + 1 ELSE v.lo[m]
             /\ q.hi[m] = IF v.hi[m] >= v.pos[up] THEN v.hi[m] + 1 ELSE v.hi[m]
    BY Zenon DEF Widened
  <2>2. \A m \in M : m \in Node \ {n}
    BY <1>2
  <2> QED BY <2>1, <2>2
<1>6. /\ a \in Trees /\ a.root = t.root
      /\ a.lr[n][0] = NULL /\ a.lr[n][1] = NULL
      /\ a.lr[up][side] = n /\ a.lr[up][1 - side] = t.lr[up][1 - side]
      /\ a.up[n] = up
      /\ \A m \in M : a.up[m] = t.up[m]
      /\ \A m \in M \ {up} : a.lr[m] = t.lr[m]
  <2>1. \A m \in M : m \in Node \ {n}
    BY <1>2
  <2>2. \A m \in M \ {up} : m \in Node \ {n, up}
    BY <1>2
  <2> QED BY <2>1, <2>2 DEF Hung, Side
<1>7. Linked(a, K, w)
  <2>1. ASSUME NEW m \in K, NEW s \in Side, a.lr[m][s] # NULL
        PROVE  a.lr[m][s] \in K /\ a.up[a.lr[m][s]] = m
    <3>1. \A j \in M : t.lr[j][s] # NULL => t.lr[j][s] \in M /\ t.up[t.lr[j][s]] = j
      BY <1>2, Zenon DEF Linked
    <3>2. CASE m = n
      BY <1>6, <2>1, <3>2 DEF Side
    <3>3. CASE m = up
      <4>1. CASE s = side
        BY <1>6, <3>3, <4>1
      <4>2. CASE s = 1 - side
        BY <1>6, <2>1, <3>1, <3>3, <4>2
      <4> QED BY <1>1, <4>1, <4>2 DEF Side
    <3>4. CASE m # n /\ m # up
      <4>1. m \in M /\ a.lr[m][s] = t.lr[m][s]
        BY <1>6, <3>4
      <4> QED BY <1>6, <2>1, <3>1, <4>1
    <3> QED BY <3>2, <3>3, <3>4
  <2>2. ASSUME NEW m \in K
        PROVE  IF m = w THEN a.up[m] = NULL
               ELSE a.up[m] \in K /\ (a.lr[a.up[m]][0] = m \/ a.lr[a.up[m]][1] = m)
    <3>1. CASE m = n
      BY <1>1, <1>2, <1>6, <3>1
    <3>2. CASE m # n
      <4>1. IF m = w THEN t.up[m] = NULL
            ELSE t.up[m] \in M /\ (t.lr[t.up[m]][0] = m \/ t.lr[t.up[m]][1] = m)
        BY <1>2, <3>2, Zenon DEF Linked
      <4>2. m \in M /\ a.up[m] = t.up[m] /\ m # NULL
        BY <1>2, <1>6, <3>2
      <4>3. CASE t.up[m] = up
        BY <1>1, <1>2, <1>6, <4>1, <4>2, <4>3
      <4>4. CASE t.up[m] # up
        BY <1>2, <1>6, <4>1, <4>2, <4>4
      <4> QED BY <4>3, <4>4
    <3> QED BY <3>1, <3>2
  <2>3. K # {} /\ w \in K
    BY <1>2
  <2> HIDE DEF K
  <2> QED BY <2>1, <2>2, <2>3, Zenon DEF Linked
<1>8. \A m \in M :
          /\ IF t.lr[m][0] = NULL THEN v.lo[m] = v.pos[m]
             ELSE /\ t.lr[m][0] \in M /\ v.lo[t.lr[m][0]] = v.lo[m]
                  /\ v.hi[t.lr[m][0]] = v.pos[m] - 1
          /\ IF t.lr[m][1] = NULL THEN v.hi[m] = v.pos[m]
             ELSE /\ t.lr[m][1] \in M /\ v.lo[t.lr[m][1]] = v.pos[m] + 1
                  /\ v.hi[t.lr[m][1]] = v.hi[m]
  <2> SUFFICES ASSUME NEW m \in M
               PROVE  /\ IF t.lr[m][0] = NULL THEN v.lo[m] = v.pos[m]
                         ELSE /\ t.lr[m][0] \in M /\ v.lo[t.lr[m][0]] = v.lo[m]
                              /\ v.hi[t.lr[m][0]] = v.pos[m] - 1
                      /\ IF t.lr[m][1] = NULL THEN v.hi[m] = v.pos[m]
                         ELSE /\ t.lr[m][1] \in M /\ v.lo[t.lr[m][1]] = v.pos[m] + 1
                              /\ v.hi[t.lr[m][1]] = v.hi[m]
    OBVIOUS
  <2> QED BY ChildIs
<1>9. Spanned(a, K, w, q)
  <2>1. ASSUME NEW m \in K
        PROVE  q.lo[m] <= q.pos[m] /\ q.pos[m] <= q.hi[m] /\ 1 <= q.lo[m] /\ q.hi[m] <= q.size
    <3>1. CASE m = n
      BY <1>1, <1>2, <1>3, <1>5, <3>1
    <3>2. CASE m = up
      BY <1>1, <1>2, <1>3, <1>5, <3>2
    <3>3. CASE m # n /\ m # up
      <4>1. m \in M /\ v.pos[m] # v.pos[up]
        BY <3>3, OrderedApart
      <4> QED BY <1>1, <1>2, <1>3, <1>5, <4>1
    <3> QED BY <3>1, <3>2, <3>3
  <2>2. ASSUME NEW m \in K
        PROVE  /\ IF a.lr[m][0] = NULL THEN q.lo[m] = q.pos[m]
                  ELSE q.lo[a.lr[m][0]] = q.lo[m] /\ q.hi[a.lr[m][0]] = q.pos[m] - 1
               /\ IF a.lr[m][1] = NULL THEN q.hi[m] = q.pos[m]
                  ELSE q.lo[a.lr[m][1]] = q.pos[m] + 1 /\ q.hi[a.lr[m][1]] = q.hi[m]
    <3>1. CASE m = n
      BY <1>5, <1>6, <3>1
    <3>2. CASE m # n /\ m # up
      <4>1. m \in M /\ v.pos[m] # v.pos[up]
        BY <3>2, OrderedApart
      <4>2. a.lr[m] = t.lr[m]
        BY <1>6, <3>2
      <4>3. IF t.lr[m][0] = NULL THEN q.lo[m] = q.pos[m]
            ELSE q.lo[t.lr[m][0]] = q.lo[m] /\ q.hi[t.lr[m][0]] = q.pos[m] - 1
        BY <1>1, <1>2, <1>3, <1>5, <1>8, <4>1
      <4>4. IF t.lr[m][1] = NULL THEN q.hi[m] = q.pos[m]
            ELSE q.lo[t.lr[m][1]] = q.pos[m] + 1 /\ q.hi[t.lr[m][1]] = q.hi[m]
        BY <1>1, <1>2, <1>3, <1>5, <1>8, <4>1
      <4> QED BY <4>2, <4>3, <4>4
    <3>3. CASE m = up /\ side = 0
      <4>1. a.lr[up][0] = n /\ a.lr[up][1] = t.lr[up][1] /\ i = v.pos[up] /\ t.lr[up][0] = NULL
        BY <1>3, <1>6, <3>3
      <4>2. q.lo[up] = i /\ q.pos[up] = i + 1 /\ q.hi[up] = v.hi[up] + 1 /\ n # NULL
        BY <1>2, <1>3, <1>5, <1>8, <4>1
      <4>3. q.lo[n] = q.lo[up] /\ q.hi[n] = q.pos[up] - 1
        BY <1>4, <1>5, <4>2
      <4>4. IF t.lr[up][1] = NULL THEN q.hi[up] = q.pos[up]
            ELSE q.lo[t.lr[up][1]] = q.pos[up] + 1 /\ q.hi[t.lr[up][1]] = q.hi[up]
        BY <1>3, <1>5, <1>8, <4>1, <4>2
      <4> QED BY <3>3, <4>1, <4>2, <4>3, <4>4
    <3>4. CASE m = up /\ side = 1
      <4>1. a.lr[up][1] = n /\ a.lr[up][0] = t.lr[up][0] /\ i = v.pos[up] + 1 /\ t.lr[up][1] = NULL
        BY <1>3, <1>6, <3>4
      <4>2. q.lo[up] = v.lo[up] /\ q.pos[up] = v.pos[up] /\ q.hi[up] = i /\ n # NULL
        BY <1>2, <1>3, <1>5, <1>8, <4>1
      <4>3. q.lo[n] = q.pos[up] + 1 /\ q.hi[n] = q.hi[up]
        BY <1>4, <1>5, <4>1, <4>2
      <4>4. IF t.lr[up][0] = NULL THEN q.lo[up] = q.pos[up]
            ELSE q.lo[t.lr[up][0]] = q.lo[up] /\ q.hi[t.lr[up][0]] = q.pos[up] - 1
        BY <1>3, <1>5, <1>8, <4>1, <4>2
      <4> QED BY <3>4, <4>1, <4>2, <4>3, <4>4
    <3> QED BY <1>1, <3>1, <3>2, <3>3, <3>4
  <2>3. w # NULL => q.lo[w] = 1 /\ q.hi[w] = q.size
    <3>1. v.lo[w] = 1 /\ v.hi[w] = v.size
      BY <1>2 DEF Spanned
    <3> QED BY <1>2, <1>3, <1>5, <3>1
  <2> HIDE DEF K
  <2> QED BY <2>1, <2>2, <2>3, Zenon DEF Spanned
<1>10. K \in SUBSET Node
  BY <1>2
<1> QED BY <1>2, <1>5, <1>6, <1>7, <1>9, <1>10, Zenon DEF Shape

(* One node more, and one node less.                                       *)
Spliced(S, o, i, n, c) ==
    /\ c \in Seq(S) /\ Len(c) = Len(o) + 1
    /\ \A k \in 1 .. Len(o) + 1 : c[k] = IF k < i THEN o[k] ELSE IF k = i THEN n ELSE o[k - 1]

LEMMA InsertAtIs ==
    ASSUME NEW S, NEW o, o \in Seq(S), NEW i, i \in 1 .. Len(o) + 1, NEW n, n \in S,
           NEW c, c = Sorted!InsertAt(o, i, n)
    PROVE  Spliced(S, o, i, n, c)
<1> DEFINE a == SubSeq(o, 1, i - 1)
           b == SubSeq(o, i, Len(o))
           d == a \o <<n>>
<1>1. i \in Int /\ Len(o) \in Nat
  OBVIOUS
<1>2. /\ a \in Seq(S) /\ Len(a) = i - 1 /\ \A k \in 1 .. i - 1 : a[k] = o[k]
  BY <1>1
<1>3. /\ b \in Seq(S) /\ Len(b) = Len(o) + 1 - i
      /\ \A k \in 1 .. Len(o) + 1 - i : b[k] = o[k + i - 1]
  BY <1>1
<1>4. c = d \o b
  BY DEF Sorted!InsertAt
<1> HIDE DEF a, b
<1>5. d \in Seq(S) /\ Len(d) = i /\ d[i] = n /\ \A k \in 1 .. i - 1 : d[k] = o[k]
  BY <1>1, <1>2
<1> HIDE DEF d
<1>6. c \in Seq(S) /\ Len(c) = Len(o) + 1
  <2>1. \A x, y \in Seq(S) : x \o y \in Seq(S) /\ Len(x \o y) = Len(x) + Len(y)
    OBVIOUS
  <2>2. c \in Seq(S) /\ Len(c) = Len(d) + Len(b)
    BY <1>3, <1>4, <1>5, <2>1, Zenon
  <2> QED BY <1>1, <1>3, <1>5, <2>2
<1>7. ASSUME NEW k \in 1 .. Len(o) + 1
      PROVE  c[k] = IF k < i THEN o[k] ELSE IF k = i THEN n ELSE o[k - 1]
  <2>1. CASE k <= i
    BY <1>1, <1>3, <1>4, <1>5, <2>1
  <2>2. CASE k > i
    <3>1. c[k] = b[k - i]
      BY <1>1, <1>3, <1>4, <1>5, <2>2
    <3>2. k - i \in 1 .. Len(o) + 1 - i /\ (k - i) + i - 1 = k - 1
      BY <1>1, <2>2
    <3> QED BY <1>3, <2>2, <3>1, <3>2
  <2> QED BY <1>1, <2>1, <2>2
<1> QED BY <1>6, <1>7 DEF Spliced

Cut(S, o, i, c) ==
    /\ c \in Seq(S) /\ Len(c) = Len(o) - 1
    /\ \A k \in 1 .. Len(o) - 1 : c[k] = IF k < i THEN o[k] ELSE o[k + 1]

LEMMA RemoveAtIs ==
    ASSUME NEW S, NEW o, o \in Seq(S), NEW i, i \in 1 .. Len(o), NEW c, c = Sorted!RemoveAt(o, i)
    PROVE  Cut(S, o, i, c)
<1> DEFINE a == SubSeq(o, 1, i - 1)
           b == SubSeq(o, i + 1, Len(o))
<1>1. i \in Int /\ Len(o) \in Nat
  OBVIOUS
<1>2. /\ a \in Seq(S) /\ Len(a) = i - 1 /\ \A k \in 1 .. i - 1 : a[k] = o[k]
  BY <1>1
<1>3. /\ b \in Seq(S) /\ Len(b) = Len(o) - i
      /\ \A k \in 1 .. Len(o) - i : b[k] = o[k + i]
  BY <1>1
<1>4. c = a \o b
  BY DEF Sorted!RemoveAt
<1> HIDE DEF a, b
<1>6. c \in Seq(S) /\ Len(c) = Len(o) - 1
  BY <1>1, <1>2, <1>3, <1>4
<1>7. ASSUME NEW k \in 1 .. Len(o) - 1
      PROVE  c[k] = IF k < i THEN o[k] ELSE o[k + 1]
  <2>1. CASE k < i
    BY <1>1, <1>2, <1>3, <1>4, <2>1
  <2>2. CASE k >= i
    <3>1. c[k] = b[k - (i - 1)]
      BY <1>1, <1>2, <1>3, <1>4, <2>2
    <3>2. k - (i - 1) \in 1 .. Len(o) - i /\ (k - (i - 1)) + i = k + 1
      BY <1>1, <2>2
    <3> QED BY <1>3, <2>2, <3>1, <3>2
  <2> QED BY <1>1, <2>1, <2>2
<1> QED BY <1>6, <1>7 DEF Cut

LEMMA HungHeights ==
    ASSUME NEW t, NEW M, NEW w, NEW v, Shape(t, M, w, v), NEW H, Heights(t, M, H, NULL),
           NEW n \in Node \ M, NEW up \in M, NEW side \in Side, t.lr[up][side] = NULL,
           NEW a, Hung(t, a, n, up, side)
    PROVE  \E G : Heights(a, M \cup {n}, G, up) /\ Due(a, G, up, side, 1)
<1> DEFINE G == [H EXCEPT ![n] = 1]
<1>1. H \in [Link -> Nat] /\ H[NULL] = 0 /\ \A m \in M : Level(t, H, m)
  <2>1. NULL \notin M
    BY ShapeIs
  <2> QED BY <2>1 DEF Heights
<1>2. NULL \notin Node /\ M \subseteq Node /\ n # up /\ n # NULL /\ n \in Link /\ NULL \in Link
  BY ShapeIs DEF Link
<1>3. G \in [Link -> Nat] /\ G[n] = 1 /\ G[NULL] = 0 /\ \A m \in Link \ {n} : G[m] = H[m]
  BY <1>1, <1>2
<1> HIDE DEF G
<1>4. /\ \A s \in Side : a.lr[n][s] = NULL
      /\ a.lr[up][side] = n /\ a.lr[up][1 - side] = t.lr[up][1 - side]
      /\ a.bf[n] = 0 /\ a.bf[up] = t.bf[up]
      /\ \A m \in M \ {up} : a.lr[m] = t.lr[m] /\ a.bf[m] = t.bf[m]
  <2>1. \A m \in M \ {up} : m \in Node \ {n, up} /\ m \in Node \ {n}
    BY <1>2
  <2>2. up \in Node \ {n}
    BY <1>2
  <2> QED BY <2>1, <2>2 DEF Hung
<1>5. ASSUME NEW m \in M, NEW s \in Side
      PROVE  t.lr[m][s] \in Link \ {n} /\ G[t.lr[m][s]] = H[t.lr[m][s]]
  <2>1. t.lr[m][s] \in M \cup {NULL} /\ t.lr[m][s] \in Link
    BY ApartFrom
  <2>2. t.lr[m][s] # n
    BY <1>2, <2>1
  <2> QED BY <1>3, <2>1, <2>2
<1>6. 0 \in Side /\ 1 \in Side /\ (side = 0 \/ side = 1)
  BY DEF Side
<1>7. Level(a, G, n)
  <2>1. G[a.lr[n][0]] = 0 /\ G[a.lr[n][1]] = 0
    BY <1>3, <1>4, <1>6
  <2>2. 1 = 1 + Higher(0, 0)
    BY DEF Higher
  <2> QED BY <1>3, <1>4, <2>1, <2>2 DEF Level
<1>8. ASSUME NEW m \in M \ {up} PROVE Level(a, G, m)
  <2>1. G[t.lr[m][0]] = H[t.lr[m][0]] /\ G[t.lr[m][1]] = H[t.lr[m][1]]
    BY <1>5, <1>6
  <2>2. G[m] = H[m]
    BY <1>2, <1>3 DEF Link
  <2> QED BY <1>1, <1>4, <2>1, <2>2 DEF Level
<1>9. Heights(a, M \cup {n}, G, up)
  BY <1>3, <1>7, <1>8 DEF Heights
<1>10. Due(a, G, up, side, 1)
  <2>1. G[up] = H[up] /\ Level(t, H, up)
    BY <1>1, <1>2, <1>3 DEF Link
  <2>2. CASE side = 0
    <3>1. Before(G, a.lr[up][0], side = 0, 1) = H[t.lr[up][0]]
      BY <1>1, <1>3, <1>4, <2>2 DEF Before
    <3>2. Before(G, a.lr[up][1], side = 1, 1) = H[t.lr[up][1]]
      BY <1>4, <1>5, <1>6, <2>2 DEF Before
    <3> QED BY <1>4, <2>1, <3>1, <3>2 DEF Due, Level
  <2>3. CASE side = 1
    <3>1. Before(G, a.lr[up][1], side = 1, 1) = H[t.lr[up][1]]
      BY <1>1, <1>3, <1>4, <2>3 DEF Before
    <3>2. Before(G, a.lr[up][0], side = 0, 1) = H[t.lr[up][0]]
      BY <1>4, <1>5, <1>6, <2>3 DEF Before
    <3> QED BY <1>4, <2>1, <3>1, <3>2 DEF Due, Level
  <2> QED BY <1>6, <2>2, <2>3
<1> QED BY <1>9, <1>10

LEMMA HungOrder ==
    ASSUME NEW M \in SUBSET Node, NEW v \in Views, NEW o, Ordered(o, M, v),
           NEW n \in Node \ M, NEW up, NEW i \in 1 .. v.size + 1,
           NEW q, Widened(v, q, up, i, n), NEW c, c = Sorted!InsertAt(o, i, n)
    PROVE  Ordered(c, M \cup {n}, q)
<1>1. /\ o \in Seq(Node) /\ Len(o) = v.size
      /\ \A k \in 1 .. v.size : o[k] \in M /\ v.pos[o[k]] = k
      /\ \A m \in M : v.pos[m] \in 1 .. v.size /\ o[v.pos[m]] = m
  BY DEF Ordered
<1>2. /\ q.size = v.size + 1 /\ q.pos[n] = i
      /\ \A m \in M : q.pos[m] = IF v.pos[m] >= i THEN v.pos[m] + 1 ELSE v.pos[m]
  BY DEF Widened
<1>3. /\ c \in Seq(Node) /\ Len(c) = v.size + 1
      /\ \A k \in 1 .. v.size + 1 : c[k] = IF k < i THEN o[k] ELSE IF k = i THEN n ELSE o[k - 1]
  <2>1. PICK S : S = Node
    OBVIOUS
  <2>2. o \in Seq(S) /\ i \in 1 .. Len(o) + 1 /\ n \in S
    BY <1>1, <2>1
  <2>3. Spliced(S, o, i, n, c)
    BY <2>2, InsertAtIs, Zenon
  <2> QED BY <1>1, <2>1, <2>3 DEF Spliced
<1>4. v.size \in Nat /\ i \in Int
  BY DEF Views
<1>5. ASSUME NEW k \in 1 .. q.size PROVE c[k] \in M \cup {n} /\ q.pos[c[k]] = k
  <2>1. k \in 1 .. v.size + 1
    BY <1>2
  <2>2. CASE k < i
    <3>1. k \in 1 .. v.size /\ c[k] = o[k]
      BY <1>3, <1>4, <2>1, <2>2
    <3> QED BY <1>1, <1>2, <1>4, <2>2, <3>1
  <2>3. CASE k = i
    BY <1>2, <1>3, <2>1, <2>3
  <2>4. CASE k > i
    <3>1. PICK j \in Int : j = k - 1
      BY <2>1
    <3>2. j \in 1 .. v.size /\ j >= i /\ ~(k < i) /\ k # i /\ j + 1 = k
      BY <1>4, <2>1, <2>4, <3>1
    <3>3. c[k] = o[j]
      BY <1>3, <2>1, <3>1, <3>2
    <3>4. o[j] \in M /\ v.pos[o[j]] = j
      BY <1>1, <3>2
    <3>5. q.pos[o[j]] = j + 1
      BY <1>2, <3>2, <3>4
    <3> QED BY <3>2, <3>3, <3>4, <3>5
  <2> QED BY <1>4, <2>1, <2>2, <2>3, <2>4
<1>6. ASSUME NEW m \in M \cup {n} PROVE q.pos[m] \in 1 .. q.size /\ c[q.pos[m]] = m
  <2>1. CASE m = n
    BY <1>2, <1>3, <1>4, <2>1
  <2>2. CASE m # n
    <3>1. v.pos[m] \in 1 .. v.size /\ o[v.pos[m]] = m
      BY <1>1, <2>2
    <3>2. PICK k \in 1 .. v.size : k = v.pos[m]
      BY <3>1
    <3>3. CASE k >= i
      <4>1. q.pos[m] = k + 1 /\ k + 1 \in 1 .. v.size + 1 /\ (k + 1) - 1 = k /\ ~(k + 1 < i) /\ k + 1 # i
        BY <1>2, <1>4, <2>2, <3>2, <3>3
      <4>2. c[k + 1] = o[(k + 1) - 1]
        BY <1>3, <4>1
      <4> QED BY <1>2, <3>1, <3>2, <4>1, <4>2
    <3>4. CASE k < i
      BY <1>2, <1>3, <1>4, <2>2, <3>1, <3>2, <3>4
    <3> QED BY <1>4, <3>2, <3>3, <3>4
  <2> QED BY <2>1, <2>2
<1>7. c \in Seq(Node) /\ Len(c) = q.size
  BY <1>2, <1>3
<1> QED BY <1>5, <1>6, <1>7 DEF Ordered

-----------------------------------------------------------------------------
(* A loop that stays in P, and comes closer to its end with every turn.    *)

Approaching(step, P, Q, W) ==
    /\ W \in [P -> Nat]
    /\ \A x \in P : x \in Q => step[x] = x
    /\ \A x \in P : x \notin Q => step[x] \in P /\ W[step[x]] < W[x]

(* Such a loop ends, within as many turns as there are nodes.              *)
LEMMA LoopHolds ==
    ASSUME NEW step, NEW P, NEW Q, NEW W, Approaching(step, P, Q, W),
           NEW start \in P, W[start] <= Cardinality(Node),
           NEW e, e = Repeated(step, start)
    PROVE  e \in P /\ e \in Q
<1>1. PICK f : /\ f[0] = start
               /\ \A k \in Nat : f[k + 1] = step[f[k]]
               /\ Repeated(step, start) = f[Cardinality(Node)]
  BY RepeatedIs
<1>2. /\ W \in [P -> Nat]
      /\ \A x \in P : x \in Q => step[x] = x
      /\ \A x \in P : x \notin Q => step[x] \in P /\ W[step[x]] < W[x]
  BY DEF Approaching
<1>3. Cardinality(Node) \in Nat
  BY CavlAssumption, FS_CardinalityType
<1> DEFINE R == {k \in Nat : f[k] \in P /\ (f[k] \in Q \/ W[f[k]] <= Cardinality(Node) - k)}
<1>4. 0 \in R
  BY <1>1, <1>3
<1>5. ASSUME NEW k \in R PROVE k + 1 \in R
  <2>1. k \in Nat /\ f[k] \in P /\ (f[k] \in Q \/ W[f[k]] <= Cardinality(Node) - k)
    OBVIOUS
  <2>2. f[k + 1] = step[f[k]]
    BY <1>1, <2>1
  <2>3. CASE f[k] \in Q
    BY <1>2, <2>1, <2>2, <2>3
  <2>4. CASE f[k] \notin Q
    <3>1. f[k + 1] \in P /\ W[f[k + 1]] < W[f[k]] /\ W[f[k]] \in Nat /\ W[f[k + 1]] \in Nat
      BY <1>2, <2>1, <2>2, <2>4
    <3>2. W[f[k + 1]] <= Cardinality(Node) - (k + 1)
      BY <1>3, <2>1, <2>4, <3>1
    <3> QED BY <2>1, <3>1, <3>2
  <2> QED BY <2>3, <2>4
<1>6. R \in SUBSET Nat
  OBVIOUS
<1> HIDE DEF R
<1>7. Cardinality(Node) \in R
  BY <1>3, <1>4, <1>5, <1>6, EveryNatural
<1>8. e \in P /\ (e \in Q \/ W[e] <= 0)
  BY <1>1, <1>3, <1>7 DEF R
<1>9. e \in P /\ e \notin Q => FALSE
  BY <1>2, <1>8
<1> QED BY <1>8, <1>9

(* The number of nodes of a subtree.                                       *)
Breadth(v, M) == [n \in M |-> v.hi[n] - v.lo[n] + 1]

LEMMA BreadthIs ==
    ASSUME NEW t, NEW M, NEW w, NEW v, Shape(t, M, w, v), NEW o, Ordered(o, M, v)
    PROVE  /\ Breadth(v, M) \in [M -> Nat]
           /\ \A n \in M : Breadth(v, M)[n] <= Cardinality(Node)
           /\ \A n \in M : \A s \in Side : t.lr[n][s] # NULL =>
                t.lr[n][s] \in M /\ Breadth(v, M)[t.lr[n][s]] < Breadth(v, M)[n]
<1>1. \A n \in M : /\ v.lo[n] \in Int /\ v.hi[n] \in Int /\ v.pos[n] \in Int
                   /\ v.lo[n] <= v.pos[n] /\ v.pos[n] <= v.hi[n]
                   /\ 1 <= v.lo[n] /\ v.hi[n] <= v.size
  BY ShapeIs
<1>2. v.size \in Nat /\ v.size <= Cardinality(Node) /\ Cardinality(Node) \in Nat
  BY OrderedSize, CavlAssumption, FS_CardinalityType
<1>3. ASSUME NEW n \in M
      PROVE  Breadth(v, M)[n] \in Nat /\ Breadth(v, M)[n] <= Cardinality(Node)
  BY <1>1, <1>2 DEF Breadth
<1>4. ASSUME NEW n \in M, NEW s \in Side, t.lr[n][s] # NULL
      PROVE  t.lr[n][s] \in M /\ Breadth(v, M)[t.lr[n][s]] < Breadth(v, M)[n]
  <2>1. CASE s = 0
    <3>1. /\ t.lr[n][0] \in M
          /\ v.lo[t.lr[n][0]] = v.lo[n] /\ v.hi[t.lr[n][0]] = v.pos[n] - 1
      BY <1>4, <2>1, ChildIs
    <3> QED BY <1>1, <2>1, <3>1 DEF Breadth
  <2>2. CASE s = 1
    <3>1. /\ t.lr[n][1] \in M
          /\ v.lo[t.lr[n][1]] = v.pos[n] + 1 /\ v.hi[t.lr[n][1]] = v.hi[n]
      BY <1>4, <2>2, ChildIs
    <3> QED BY <1>1, <2>2, <3>1 DEF Breadth
  <2> QED BY <2>1, <2>2 DEF Side
<1>5. Breadth(v, M) = [n \in M |-> Breadth(v, M)[n]]
  BY DEF Breadth
<1> QED BY <1>3, <1>4, <1>5

(* The nodes stand in the order of their keys.                             *)
Ascending(M, v) == \A m, n \in M : v.pos[m] <= v.pos[n] => KeyOf[m] <= KeyOf[n]

(* Down to where a node has to go: all that may not stand behind it stand  *)
(* before it, and no other.                                                *)
Belongs(t, M, v, n, up, side) ==
    /\ up \in M /\ side \in Side /\ t.lr[up][side] = NULL
    /\ \A m \in M : IF v.pos[m] < v.pos[up] + side THEN KeyOf[m] <= KeyOf[n]
                    ELSE KeyOf[n] < KeyOf[m]

(* The descent ends where the key of the new node belongs.                 *)
LEMMA DescendHolds ==
    ASSUME NEW t, NEW M, NEW w \in M, NEW v, Shape(t, M, w, v),
           NEW o, Ordered(o, M, v), Ascending(M, v),
           NEW n \in Node, NEW up, up = Descend(t, n, w),
           NEW side, side = Index(txAVLPredicate(n, up) > 0)
    PROVE  Belongs(t, M, v, n, up, side)
<1> DEFINE way(x) == IF KeyOf[n] >= KeyOf[x] THEN 1 ELSE 0
           step == [x \in Node |->
                      LET onward == t.lr[x][Index(txAVLPredicate(n, x) > 0)]
                      IN  IF onward = NULL THEN x ELSE onward]
           Q == {x \in M : t.lr[x][way(x)] = NULL}
           P == {x \in M : \A m \in M : /\ v.pos[m] < v.lo[x] => KeyOf[m] <= KeyOf[n]
                                        /\ v.pos[m] > v.hi[x] => KeyOf[n] < KeyOf[m]}
           W == [x \in P |-> Breadth(v, M)[x]]
<1>1. \A x : Index(txAVLPredicate(n, x) > 0) = way(x) /\ way(x) \in Side
  BY DEF Index, txAVLPredicate, Side
<1>2. /\ \A x \in M : /\ v.lo[x] \in Int /\ v.hi[x] \in Int /\ v.pos[x] \in Int
                      /\ v.lo[x] <= v.pos[x] /\ v.pos[x] <= v.hi[x]
                      /\ 1 <= v.lo[x] /\ v.hi[x] <= v.size
      /\ M \subseteq Node /\ \A x \in M : KeyOf[x] \in Nat
      /\ KeyOf[n] \in Nat
  BY ShapeIs, CavlAssumption
<1>3. \A a, b \in M : v.pos[a] <= v.pos[b] => KeyOf[a] <= KeyOf[b]
  BY DEF Ascending
<1>4. /\ Breadth(v, M) \in [M -> Nat]
      /\ \A x \in M : Breadth(v, M)[x] <= Cardinality(Node)
      /\ \A x \in M : \A s \in Side : t.lr[x][s] # NULL =>
           t.lr[x][s] \in M /\ Breadth(v, M)[t.lr[x][s]] < Breadth(v, M)[x]
  BY BreadthIs
<1>5. \A x \in M : step[x] = IF t.lr[x][way(x)] = NULL THEN x ELSE t.lr[x][way(x)]
  BY <1>1, <1>2
<1> HIDE DEF step
<1>6. ASSUME NEW x \in P, x \notin Q PROVE step[x] \in P /\ W[step[x]] < W[x]
  <2>1. x \in M /\ \A m \in M : /\ v.pos[m] < v.lo[x] => KeyOf[m] <= KeyOf[n]
                                /\ v.pos[m] > v.hi[x] => KeyOf[n] < KeyOf[m]
    OBVIOUS
  <2>2. t.lr[x][way(x)] # NULL /\ step[x] = t.lr[x][way(x)]
    BY <1>5, <1>6, <2>1
  <2>3. step[x] \in M /\ Breadth(v, M)[step[x]] < Breadth(v, M)[x]
    BY <1>1, <1>4, <2>1, <2>2
  <2>4. CASE KeyOf[n] >= KeyOf[x]
    <3>1. step[x] = t.lr[x][1] /\ t.lr[x][1] # NULL
      BY <2>2, <2>4
    <3>2. v.lo[step[x]] = v.pos[x] + 1 /\ v.hi[step[x]] = v.hi[x]
      BY <2>1, <3>1, ChildIs
    <3>3. ASSUME NEW m \in M
          PROVE  /\ v.pos[m] < v.lo[step[x]] => KeyOf[m] <= KeyOf[n]
                 /\ v.pos[m] > v.hi[step[x]] => KeyOf[n] < KeyOf[m]
      <4>1. v.pos[m] <= v.pos[x] => KeyOf[m] <= KeyOf[x]
        BY <1>3, <2>1
      <4> QED BY <1>2, <2>1, <2>4, <3>2, <4>1
    <3> QED BY <2>3, <3>3
  <2>5. CASE KeyOf[n] < KeyOf[x]
    <3>1. step[x] = t.lr[x][0] /\ t.lr[x][0] # NULL
      BY <1>2, <2>1, <2>2, <2>5
    <3>2. v.lo[step[x]] = v.lo[x] /\ v.hi[step[x]] = v.pos[x] - 1
      BY <2>1, <3>1, ChildIs
    <3>3. ASSUME NEW m \in M
          PROVE  /\ v.pos[m] < v.lo[step[x]] => KeyOf[m] <= KeyOf[n]
                 /\ v.pos[m] > v.hi[step[x]] => KeyOf[n] < KeyOf[m]
      <4>1. v.pos[x] <= v.pos[m] => KeyOf[x] <= KeyOf[m]
        BY <1>3, <2>1
      <4> QED BY <1>2, <2>1, <2>5, <3>2, <4>1
    <3> QED BY <2>3, <3>3
  <2> QED BY <1>2, <2>1, <2>4, <2>5
<1>7. \A x \in P : x \in Q => step[x] = x
  BY <1>5
<1>8. w \in P
  <2>1. v.lo[w] = 1 /\ v.hi[w] = v.size
    <3>1. w # NULL /\ Spanned(t, M, w, v)
      BY ShapeIs DEF Shape
    <3> QED BY <3>1, Zenon DEF Spanned
  <2>2. v.size \in Nat
    BY ShapeIs DEF Views
  <2> QED BY <1>2, <2>1, <2>2
<1>9. W \in [P -> Nat] /\ W[w] <= Cardinality(Node)
  BY <1>4, <1>8
<1>10. up = Repeated(step, w)
  BY DEF Descend, step
<1>11. up \in P /\ up \in Q
  <2>1. Approaching(step, P, Q, W)
    <3> HIDE DEF P, Q, W
    <3> QED BY <1>6, <1>7, <1>9 DEF Approaching
  <2> HIDE DEF P, Q, W
  <2> QED BY <1>8, <1>9, <1>10, <2>1, LoopHolds, Zenon
<1>12. /\ up \in M /\ t.lr[up][side] = NULL /\ side = way(up) /\ side \in Side
       /\ \A m \in M : /\ v.pos[m] < v.lo[up] => KeyOf[m] <= KeyOf[n]
                       /\ v.pos[m] > v.hi[up] => KeyOf[n] < KeyOf[m]
  BY <1>1, <1>11
<1>13. ASSUME NEW m \in M
       PROVE  IF v.pos[m] < v.pos[up] + side THEN KeyOf[m] <= KeyOf[n] ELSE KeyOf[n] < KeyOf[m]
  <2>1. /\ v.pos[m] <= v.pos[up] => KeyOf[m] <= KeyOf[up]
        /\ v.pos[up] <= v.pos[m] => KeyOf[up] <= KeyOf[m]
    BY <1>3, <1>12
  <2>2. CASE KeyOf[n] >= KeyOf[up]
    <3>1. side = 1 /\ t.lr[up][1] = NULL
      BY <1>12, <2>2
    <3>2. v.hi[up] = v.pos[up]
      BY <1>12, <3>1 DEF Shape, Spanned
    <3> QED BY <1>2, <1>12, <2>1, <2>2, <3>1, <3>2
  <2>3. CASE KeyOf[n] < KeyOf[up]
    <3>1. side = 0 /\ t.lr[up][0] = NULL
      BY <1>2, <1>12, <2>3
    <3>2. v.lo[up] = v.pos[up]
      BY <1>12, <3>1 DEF Shape, Spanned
    <3> QED BY <1>2, <1>12, <2>1, <2>3, <3>1, <3>2
  <2> QED BY <1>2, <1>12, <2>2, <2>3
<1> QED BY <1>12, <1>13 DEF Belongs

-----------------------------------------------------------------------------
(* The invariant: t is a tree of the nodes in M, and o is their order.     *)

Away(t, M) ==
    \A n \in Node \ M : t.up[n] = NULL /\ \A s \in Side : t.lr[n][s] = NULL

Sound(t, M, v, H, o) ==
    /\ Shape(t, M, t.root, v)
    /\ Heights(t, M, H, NULL)
    /\ Ordered(o, M, v)
    /\ Ascending(M, v)
    /\ Away(t, M)

LEMMA WidenedAscending ==
    ASSUME NEW M \in SUBSET Node, NEW v \in Views, Ascending(M, v),
           NEW n \in Node \ M, NEW up, NEW i \in Int, NEW q, Widened(v, q, up, i, n),
           \A m \in M : IF v.pos[m] < i THEN KeyOf[m] <= KeyOf[n] ELSE KeyOf[n] < KeyOf[m]
    PROVE  Ascending(M \cup {n}, q)
<1>1. /\ q.pos[n] = i
      /\ \A m \in M : q.pos[m] = IF v.pos[m] >= i THEN v.pos[m] + 1 ELSE v.pos[m]
  BY DEF Widened
<1>2. \A m \in M : v.pos[m] \in Int /\ KeyOf[m] \in Nat
  BY CavlAssumption DEF Views
<1>3. KeyOf[n] \in Nat
  BY CavlAssumption
<1>4. ASSUME NEW a \in M, NEW b \in M, q.pos[a] <= q.pos[b] PROVE KeyOf[a] <= KeyOf[b]
  <2>1. v.pos[a] <= v.pos[b]
    BY <1>1, <1>2, <1>4
  <2> QED BY <2>1 DEF Ascending
<1>5. ASSUME NEW a \in M
      PROVE  /\ q.pos[a] <= q.pos[n] => KeyOf[a] <= KeyOf[n]
             /\ q.pos[n] <= q.pos[a] => KeyOf[n] <= KeyOf[a]
  BY <1>1, <1>2, <1>3
<1>6. ASSUME NEW a \in M \cup {n}, NEW b \in M \cup {n}, q.pos[a] <= q.pos[b]
      PROVE  KeyOf[a] <= KeyOf[b]
  <2>1. CASE a \in M /\ b \in M
    BY <1>4, <1>6, <2>1
  <2>2. CASE a = n /\ b = n
    BY <1>3, <2>2
  <2>3. CASE a = n /\ b \in M
    BY <1>5, <1>6, <2>3
  <2>4. CASE a \in M /\ b = n
    BY <1>5, <1>6, <2>4
  <2> QED BY <2>1, <2>2, <2>3, <2>4
<1> QED BY <1>6 DEF Ascending

(* One node more, at a position where its key belongs.                     *)
Grown(u, M, v, n, o, i) ==
    /\ i \in 1 .. v.size + 1
    /\ \A m \in M : IF v.pos[m] < i THEN KeyOf[m] <= KeyOf[n] ELSE KeyOf[n] < KeyOf[m]
    /\ \E q, G : Sound(u, M \cup {n}, q, G, Sorted!InsertAt(o, i, n))

(* A node without children.                                                *)
Blanked(t, n) == [t EXCEPT !.lr[n] = [r \in Side |-> NULL], !.bf[n] = 0]

LEMMA BlankedIs ==
    ASSUME NEW t \in Trees, NEW n \in Node,
           NEW f, f = Blanked(t, n)
    PROVE  /\ f \in Trees /\ f.root = t.root /\ f.up = t.up /\ f.bf[n] = 0
           /\ \A s \in Side : f.lr[n][s] = NULL
           /\ \A m \in Node \ {n} : f.lr[m] = t.lr[m] /\ f.bf[m] = t.bf[m]
<1>1. PICK none : none = [r \in Side |-> NULL]
  OBVIOUS
<1>2. none \in [Side -> Link] /\ \A s \in Side : none[s] = NULL
  BY <1>1 DEF Link
<1>3. f = [t EXCEPT !.lr[n] = none, !.bf[n] = 0]
  BY <1>1, Zenon DEF Blanked
<1>4. /\ t.lr \in [Node -> [Side -> Link]] /\ t.bf \in [Node -> -1 .. 1]
      /\ t.root \in Link /\ t.up \in [Node -> Link]
      /\ t = [root |-> t.root, lr |-> t.lr, up |-> t.up, bf |-> t.bf]
  BY DEF Trees
<1>5. f = [root |-> t.root, lr |-> [t.lr EXCEPT ![n] = none], up |-> t.up,
           bf |-> [t.bf EXCEPT ![n] = 0]]
  BY <1>3, <1>4
<1>6. [t.lr EXCEPT ![n] = none] \in [Node -> [Side -> Link]]
  BY <1>2, <1>4
<1>7. [t.bf EXCEPT ![n] = 0] \in [Node -> -1 .. 1]
  BY <1>4
<1>8. f \in Trees
  BY <1>4, <1>5, <1>6, <1>7 DEF Trees
<1>9. f.root = t.root /\ f.up = t.up /\ f.lr = [t.lr EXCEPT ![n] = none] /\ f.bf = [t.bf EXCEPT ![n] = 0]
  BY <1>5
<1>10. f.bf[n] = 0 /\ \A m \in Node \ {n} : f.bf[m] = t.bf[m]
  BY <1>4, <1>9
<1>11. f.lr[n] = none /\ \A m \in Node \ {n} : f.lr[m] = t.lr[m]
  BY <1>4, <1>9
<1> QED BY <1>2, <1>8, <1>9, <1>10, <1>11

(* An insertion into an empty tree ...                                     *)
LEMMA FirstHolds ==
    ASSUME NEW t, NEW M, NEW v, NEW H, NEW o, Sound(t, M, v, H, o), t.root = NULL,
           NEW n \in Node \ M, NEW u, u = Inserted(t, n)
    PROVE  Grown(u, M, v, n, o, 1)
<1>1. /\ t \in Trees /\ v \in Views /\ M = {} /\ v.size = 0 /\ o \in Seq(Node) /\ Len(o) = 0
      /\ NULL \notin Node /\ H \in [Link -> Nat] /\ H[NULL] = 0
  <2>1. Shape(t, M, t.root, v) /\ Heights(t, M, H, NULL) /\ Ordered(o, M, v)
    BY Zenon DEF Sound
  <2>2. t \in Trees /\ v \in Views /\ M = {}
    BY <2>1, ShapeIs
  <2>3. v.size = 0
    <3>1. v.size \in Nat
      BY <2>2 DEF Views
    <3>2. \A i \in 1 .. v.size : o[i] \in M
      BY <2>1 DEF Ordered
    <3>3. v.size # 0 => 1 \in 1 .. v.size
      BY <3>1
    <3> QED BY <2>2, <3>2, <3>3
  <2> QED BY <2>1, <2>2, <2>3, CavlAssumption DEF Ordered, Heights
<1>2. /\ u.root = n /\ u.lr[n][0] = NULL /\ u.lr[n][1] = NULL /\ u.up[n] = NULL /\ u.bf[n] = 0
      /\ \A m \in Node \ {n} : u.lr[m] = t.lr[m] /\ u.up[m] = t.up[m] /\ u.bf[m] = t.bf[m]
      /\ u \in Trees
  <2>0. PICK f : f = Blanked(t, n)
    OBVIOUS
  <2> DEFINE a == [f EXCEPT !.up[n] = NULL]
  <2>1. u = cavlPrivateRetraceOnGrowth(a, n)
    BY <2>0, Zenon DEF Inserted, Blanked
  <2>4. /\ f \in Trees /\ f.root = t.root /\ f.up = t.up /\ f.bf[n] = 0
        /\ \A s \in Side : f.lr[n][s] = NULL
        /\ \A m \in Node \ {n} : f.lr[m] = t.lr[m] /\ f.bf[m] = t.bf[m]
    <3>1. t \in Trees /\ n \in Node
      BY <1>1
    <3> QED BY <2>0, <3>1, BlankedIs
  <2>2. /\ a \in Trees /\ a.up[n] = NULL /\ a.bf[n] = 0
        /\ a.lr[n][0] = NULL /\ a.lr[n][1] = NULL
        /\ \A m \in Node \ {n} : a.lr[m] = t.lr[m] /\ a.up[m] = t.up[m] /\ a.bf[m] = t.bf[m]
    BY <1>1, <2>4 DEF Trees, Side, Link
  <2> HIDE DEF a
  <2>3. u = [a EXCEPT !.root = n]
    BY <2>1, <2>2 DEF cavlPrivateRetraceOnGrowth
  <2> QED BY <2>2, <2>3 DEF Trees, Link
<1> DEFINE one == [m \in Node |-> 1]
           q == [size |-> 1, pos |-> one, lo |-> one, hi |-> one]
           G == [H EXCEPT ![n] = 1]
           c == Sorted!InsertAt(o, 1, n)
<1>3. Shape(u, {n}, n, q)
  <2>1. q \in Views
    BY DEF Views
  <2>2. n \in Link /\ n # NULL
    BY <1>1 DEF Link
  <2>3. Linked(u, {n}, n)
    BY <1>2 DEF Linked, Side
  <2>4. Spanned(u, {n}, n, q)
    BY <1>2 DEF Spanned
  <2> QED BY <1>2, <2>1, <2>2, <2>3, <2>4 DEF Shape
<1>4. Heights(u, {n}, G, NULL)
  <2>1. G \in [Link -> Nat] /\ G[NULL] = 0 /\ G[n] = 1
    BY <1>1 DEF Link
  <2>2. Higher(0, 0) = 0
    BY DEF Higher
  <2> HIDE DEF G
  <2> QED BY <1>2, <2>1, <2>2 DEF Heights, Level
<1>5. Ordered(c, {n}, q)
  <2>1. PICK S : S = Node
    OBVIOUS
  <2>2. Spliced(S, o, 1, n, c)
    <3>1. o \in Seq(S) /\ 1 \in 1 .. Len(o) + 1 /\ n \in S
      BY <1>1, <2>1
    <3>2. c = Sorted!InsertAt(o, 1, n)
      OBVIOUS
    <3> HIDE DEF c
    <3> QED BY <3>1, <3>2, InsertAtIs, Zenon
  <2> HIDE DEF c
  <2>3. c \in Seq(Node) /\ Len(c) = 1 /\ c[1] = n
    BY <1>1, <2>1, <2>2 DEF Spliced
  <2> QED BY <2>3 DEF Ordered
<1>6. Ascending({n}, q)
  BY CavlAssumption DEF Ascending
<1>7. Away(u, {n})
  BY <1>1, <1>2 DEF Away, Sound
<1> HIDE DEF c, q, G
<1>8. Sound(u, {n}, q, G, c)
  BY <1>2, <1>3, <1>4, <1>5, <1>6, <1>7 DEF Sound
<1>9. M \cup {n} = {n} /\ 1 \in 1 .. v.size + 1
  BY <1>1
<1> QED BY <1>1, <1>8, <1>9 DEF Grown, c

(* ... and into any other.                                                 *)
LEMMA NextHolds ==
    ASSUME NEW t, NEW M, NEW v, NEW H, NEW o, Sound(t, M, v, H, o), t.root # NULL,
           NEW n \in Node \ M, NEW u, u = Inserted(t, n)
    PROVE  \E i : Grown(u, M, v, n, o, i)
<1> DEFINE w == t.root
           K == M \cup {n}
<1>0. PICK up, side : up = Descend(t, n, w) /\ side = Index(txAVLPredicate(n, up) > 0)
  OBVIOUS
<1>00. PICK f : f = Blanked(t, n)
  OBVIOUS
<1> DEFINE i == v.pos[up] + side
           a == [f EXCEPT !.up[n] = up, !.lr[up][side] = n]
<1>1. /\ Shape(t, M, w, v) /\ Heights(t, M, H, NULL) /\ Ordered(o, M, v)
      /\ Ascending(M, v) /\ Away(t, M)
  BY Zenon DEF Sound
<1>2. /\ t \in Trees /\ v \in Views /\ w \in M /\ M \in SUBSET Node
      /\ NULL \notin Node /\ NULL = 0
  <2>1. M # {}
    BY <1>1 DEF Shape, Linked
  <2> QED BY <1>1, <2>1, ShapeIs
<1>3. /\ up \in M /\ side \in Side /\ t.lr[up][side] = NULL
      /\ \A m \in M : IF v.pos[m] < i THEN KeyOf[m] <= KeyOf[n] ELSE KeyOf[n] < KeyOf[m]
  <2>1. n \in Node
    OBVIOUS
  <2>2. Belongs(t, M, v, n, up, side)
    BY <1>0, <1>1, <1>2, <2>1, DescendHolds, Zenon
  <2> QED BY <2>2 DEF Belongs
<1>4. up # NULL /\ up \in Node /\ n # up /\ n # NULL /\ up \in Link
  BY <1>2, <1>3 DEF Link
<1>5. Hung(t, a, n, up, side)
  <2>1. /\ f \in Trees /\ f.root = t.root /\ f.up = t.up /\ f.bf[n] = 0
        /\ \A s \in Side : f.lr[n][s] = NULL
        /\ \A m \in Node \ {n} : f.lr[m] = t.lr[m] /\ f.bf[m] = t.bf[m]
    <3>1. t \in Trees /\ n \in Node
      BY <1>2
    <3> QED BY <1>00, <3>1, BlankedIs
  <2>2. /\ a \in Trees /\ a.root = f.root /\ a.up[n] = up /\ a.bf = f.bf
        /\ \A m \in Node \ {n} : a.up[m] = f.up[m]
        /\ \A m \in Node \ {up} : a.lr[m] = f.lr[m]
        /\ a.lr[up][side] = n /\ a.lr[up][1 - side] = f.lr[up][1 - side]
    <3>1. /\ f.lr \in [Node -> [Side -> Link]] /\ f.bf \in [Node -> -1 .. 1]
          /\ f.root \in Link /\ f.up \in [Node -> Link]
      BY <2>1 DEF Trees
    <3>2. a = [root |-> f.root, lr |-> [f.lr EXCEPT ![up][side] = n],
               up |-> [f.up EXCEPT ![n] = up], bf |-> f.bf]
      <4>1. f = [root |-> f.root, lr |-> f.lr, up |-> f.up, bf |-> f.bf]
        BY <2>1 DEF Trees
      <4>2. PICK g : g = [f EXCEPT !.up[n] = up]
        OBVIOUS
      <4>3. g = [root |-> f.root, lr |-> f.lr, up |-> [f.up EXCEPT ![n] = up], bf |-> f.bf]
        BY <4>1, <4>2
      <4>4. a = [g EXCEPT !.lr[up][side] = n]
        BY <4>2, Zenon
      <4>5. PICK l : l = [g.lr EXCEPT ![up][side] = n]
        OBVIOUS
      <4>6. a = [g EXCEPT !.lr = l]
        BY <4>4, <4>5, Zenon
      <4>7. g.lr = f.lr
        BY <4>3
      <4> HIDE DEF a
      <4> QED BY <4>3, <4>5, <4>6, <4>7
    <3> HIDE DEF a
    <3>3. n \in Link /\ side \in Side /\ (side = 0 \/ side = 1)
      BY <1>3 DEF Link, Side
    <3>4. [f.lr EXCEPT ![up][side] = n] \in [Node -> [Side -> Link]]
      BY <1>4, <3>1, <3>3
    <3>5. [f.up EXCEPT ![n] = up] \in [Node -> Link]
      BY <1>4, <3>1
    <3>6. a \in Trees
      BY <3>1, <3>2, <3>4, <3>5 DEF Trees
    <3>7. a.lr = [f.lr EXCEPT ![up][side] = n] /\ a.up = [f.up EXCEPT ![n] = up] /\ a.root = f.root /\ a.bf = f.bf
      BY <3>2
    <3>8. 1 - side \in Side /\ 1 - side # side
      BY <3>3 DEF Side
    <3>9. a.lr[up][side] = n /\ a.lr[up][1 - side] = f.lr[up][1 - side]
      BY <1>4, <3>1, <3>3, <3>7, <3>8
    <3> QED BY <1>4, <3>1, <3>6, <3>7, <3>9
  <2> HIDE DEF a
  <2> QED BY <1>4, <2>1, <2>2 DEF Hung
<1>17. u = Retrace(a, up, side, 1)
  <2>2. u = cavlPrivateRetraceOnGrowth(a, n)
    BY <1>0, <1>00, Zenon DEF Inserted, Blanked
  <2> HIDE DEF a
  <2>3. a.up[n] = up /\ (side = 1 => a.lr[up][1] = n) /\ (side = 0 => a.lr[up][1] = t.lr[up][1])
    BY <1>5 DEF Hung
  <2>4. t.lr[up][1] # n
    <3>1. t.lr[up][1] \in M \cup {NULL}
      BY <1>1, <1>3, ShapeIs
    <3> QED BY <1>4, <3>1
  <2>5. Index(a.lr[up][1] = n) = side
    BY <1>3, <2>3, <2>4 DEF Index, Side
  <2>6. u = Retrace(a, up, Index(a.lr[up][1] = n), 1)
    BY <1>4, <2>2, <2>3, Zenon DEF cavlPrivateRetraceOnGrowth
  <2> QED BY <2>5, <2>6
<1> HIDE DEF a
<1>6. PICK q : Widened(v, q, up, i, n)
  <2>1. i \in Int /\ up \in Node
    BY <1>2, <1>3 DEF Side, Views
  <2> QED BY <1>2, <2>1, WidenedExists
<1>7. Shape(a, K, w, q) /\ q.size = v.size + 1 /\ a.root = w
  <2>1. i = v.pos[up] + side
    OBVIOUS
  <2> HIDE DEF i
  <2>2. Shape(a, K, w, q)
    BY <1>1, <1>3, <1>5, <1>6, <2>1, HungShape
  <2> QED BY <1>5, <1>6, <2>2 DEF Widened, Hung
<1>8. PICK G : Heights(a, K, G, up) /\ Due(a, G, up, side, 1)
  BY <1>1, <1>3, <1>5, HungHeights
<1>9. i \in 1 .. v.size + 1
  <2>1. \A m \in M : /\ v.lo[m] \in Int /\ v.hi[m] \in Int /\ v.pos[m] \in Int
                     /\ v.lo[m] <= v.pos[m] /\ v.pos[m] <= v.hi[m]
                     /\ 1 <= v.lo[m] /\ v.hi[m] <= v.size
    BY <1>1, ShapeIs
  <2>2. v.size \in Nat
    BY <1>2 DEF Views
  <2> QED BY <1>3, <2>1, <2>2 DEF Side
<1>10. PICK c : c = Sorted!InsertAt(o, i, n)
  OBVIOUS
<1>11. Ordered(c, K, q) /\ Ascending(K, q)
  <2>1. Ascending(K, q)
    <3>1. i \in Int
      BY <1>9
    <3> HIDE DEF i
    <3> QED BY <1>1, <1>2, <1>3, <1>6, <3>1, WidenedAscending
  <2> HIDE DEF i
  <2>2. Ordered(c, K, q)
    BY <1>1, <1>2, <1>6, <1>9, <1>10, HungOrder
  <2> QED BY <2>1, <2>2
<1>12. PICK qq, GG : /\ Shape(u, K, u.root, qq) /\ Heights(u, K, GG, NULL)
                     /\ qq.size = q.size /\ qq.pos = q.pos
                     /\ SameOutside(a, u, K)
  <2>1. Retracing([tree |-> a, p |-> up, r |-> side], K, 1, q, G)
    <3>1. a \in Trees /\ up \in Link /\ side \in Side /\ up \in K
      BY <1>2, <1>3, <1>5 DEF Hung, Link
    <3> QED BY <1>7, <1>8, <3>1 DEF Retracing
  <2>2. q.size <= Cardinality(Node) /\ up # NULL
    BY <1>2, <1>3, <1>11, OrderedSize
  <2>3. PICK d \in {-1, 1} : d = 1
    OBVIOUS
  <2> HIDE DEF K
  <2> QED BY <1>17, <2>1, <2>2, <2>3, RetraceHolds
<1>13. Ordered(c, K, qq) /\ Ascending(K, qq)
  BY <1>11, <1>12 DEF Ordered, Ascending
<1>14. Away(u, K)
  <2>1. ASSUME NEW m \in Node \ K PROVE u.up[m] = NULL /\ \A s \in Side : u.lr[m][s] = NULL
    <3>1. m \in Node \ M /\ m \in Node \ {n} /\ m \in Node \ {n, up}
      BY <1>3
    <3>2. u.up[m] = a.up[m] /\ u.lr[m] = a.lr[m]
      BY <1>12 DEF SameOutside
    <3>3. a.up[m] = t.up[m] /\ a.lr[m] = t.lr[m]
      BY <1>5, <3>1 DEF Hung
    <3>4. t.up[m] = NULL /\ \A s \in Side : t.lr[m][s] = NULL
      BY <1>1, <3>1 DEF Away
    <3> QED BY <3>2, <3>3, <3>4
  <2> QED BY <2>1 DEF Away
<1>15. Sound(u, K, qq, GG, c)
  BY <1>12, <1>13, <1>14, Zenon DEF Sound
<1>16. Grown(u, M, v, n, o, i)
  <2>1. \E qqq, GGG : Sound(u, K, qqq, GGG, Sorted!InsertAt(o, i, n))
    BY <1>10, <1>15
  <2> HIDE DEF i
  <2> QED BY <1>3, <1>9, <2>1 DEF Grown
<1> QED BY <1>16

-----------------------------------------------------------------------------
(* The end of a branch is the first or the last of its nodes.              *)
LEMMA ExtremumHolds ==
    ASSUME NEW t, NEW M, NEW w, NEW v, Shape(t, M, w, v), NEW o, Ordered(o, M, v),
           NEW top \in M, NEW r \in Side, NEW e, e = cavlFindExtremum(t, top, r)
    PROVE  /\ e \in M /\ t.lr[e][r] = NULL
           /\ r = 0 => v.pos[e] = v.lo[top]
           /\ r = 1 => v.pos[e] = v.hi[top]
<1> DEFINE step == [n \in Link |-> IF n = NULL \/ t.lr[n][r] = NULL THEN n ELSE t.lr[n][r]]
           Q == {x \in M : t.lr[x][r] = NULL}
           P == {x \in M : (r = 0 => v.lo[x] = v.lo[top]) /\ (r = 1 => v.hi[x] = v.hi[top])}
           W == [x \in P |-> Breadth(v, M)[x]]
<1>1. r = 0 \/ r = 1
  BY DEF Side
<1>2. M \subseteq Link /\ NULL \notin M
  BY ShapeIs DEF Link
<1>3. /\ Breadth(v, M) \in [M -> Nat]
      /\ \A x \in M : Breadth(v, M)[x] <= Cardinality(Node)
      /\ \A x \in M : \A s \in Side : t.lr[x][s] # NULL =>
           t.lr[x][s] \in M /\ Breadth(v, M)[t.lr[x][s]] < Breadth(v, M)[x]
  BY BreadthIs
<1>4. \A x \in M : step[x] = IF t.lr[x][r] = NULL THEN x ELSE t.lr[x][r]
  BY <1>2
<1> HIDE DEF step
<1>5. ASSUME NEW x \in P, x \notin Q PROVE step[x] \in P /\ W[step[x]] < W[x]
  <2>1. x \in M /\ t.lr[x][r] # NULL /\ step[x] = t.lr[x][r]
    BY <1>4, <1>5
  <2>2. step[x] \in M /\ Breadth(v, M)[step[x]] < Breadth(v, M)[x]
    BY <1>3, <2>1
  <2>3. CASE r = 0
    <3>1. v.lo[step[x]] = v.lo[x]
      BY <2>1, <2>3, ChildIs
    <3> QED BY <1>5, <2>2, <2>3, <3>1
  <2>4. CASE r = 1
    <3>1. v.hi[step[x]] = v.hi[x]
      BY <2>1, <2>4, ChildIs
    <3> QED BY <1>5, <2>2, <2>4, <3>1
  <2> QED BY <1>1, <2>3, <2>4
<1>6. \A x \in P : x \in Q => step[x] = x
  BY <1>4
<1>7. top \in P /\ W \in [P -> Nat] /\ W[top] <= Cardinality(Node)
  BY <1>3
<1>8. e = Repeated(step, top)
  BY DEF cavlFindExtremum, step
<1>9. e \in P /\ e \in Q
  <2>1. Approaching(step, P, Q, W)
    <3> HIDE DEF P, Q, W
    <3> QED BY <1>5, <1>6, <1>7 DEF Approaching
  <2> HIDE DEF P, Q, W
  <2> QED BY <1>7, <1>8, <2>1, LoopHolds, Zenon
<1>10. /\ e \in M /\ t.lr[e][r] = NULL
       /\ r = 0 => v.lo[e] = v.lo[top]
       /\ r = 1 => v.hi[e] = v.hi[top]
  BY <1>9
<1>11. /\ t.lr[e][0] = NULL => v.lo[e] = v.pos[e]
       /\ t.lr[e][1] = NULL => v.hi[e] = v.pos[e]
  BY <1>10 DEF Shape, Spanned
<1> QED BY <1>1, <1>10, <1>11

-----------------------------------------------------------------------------
(* A node with one child at most is taken out: the child moves up.         *)

Excised(t, a, x, p, c) ==
    /\ a \in Trees /\ a.bf = t.bf
    /\ a.root = IF p = NULL THEN c ELSE t.root
    /\ \A m \in Node \ {c} : a.up[m] = t.up[m]
    /\ c # NULL => a.up[c] = p
    /\ \A m \in Node \ {p} : a.lr[m] = t.lr[m]
    /\ p # NULL => \A s \in Side : a.lr[p][s] = IF t.lr[p][s] = x THEN c ELSE t.lr[p][s]

(* Those behind it move by one.                                            *)
Narrowed(v, q, x) ==
    /\ q \in Views /\ q.size = v.size - 1
    /\ \A m \in Node :
         /\ q.pos[m] = IF v.pos[m] > v.pos[x] THEN v.pos[m] - 1 ELSE v.pos[m]
         /\ q.lo[m] = IF v.lo[m] > v.pos[x] THEN v.lo[m] - 1 ELSE v.lo[m]
         /\ q.hi[m] = IF v.hi[m] >= v.pos[x] THEN v.hi[m] - 1 ELSE v.hi[m]

LEMMA NarrowedExists ==
    ASSUME NEW v \in Views, v.size > 0, NEW x \in Node
    PROVE  \E q : Narrowed(v, q, x)
<1> DEFINE i == v.pos[x]
           q == [size |-> v.size - 1,
                 pos |-> [m \in Node |-> IF v.pos[m] > i THEN v.pos[m] - 1 ELSE v.pos[m]],
                 lo |-> [m \in Node |-> IF v.lo[m] > i THEN v.lo[m] - 1 ELSE v.lo[m]],
                 hi |-> [m \in Node |-> IF v.hi[m] >= i THEN v.hi[m] - 1 ELSE v.hi[m]]]
<1>1. /\ v.size \in Nat /\ v.pos \in [Node -> Int] /\ v.lo \in [Node -> Int]
      /\ v.hi \in [Node -> Int] /\ i \in Int
  BY DEF Views
<1>2. q \in Views
  <2>1. v.size - 1 \in Nat
    BY <1>1
  <2> HIDE DEF i
  <2> QED BY <1>1, <2>1 DEF Views
<1>3. Narrowed(v, q, x)
  BY <1>2 DEF Narrowed
<1> QED BY <1>3

(* A link down, and a link up.                                             *)
LinkedTo(t, b, p, s, c) ==
    /\ b \in Trees /\ b.root = t.root /\ b.up = t.up /\ b.bf = t.bf
    /\ b.lr[p][s] = c /\ b.lr[p][1 - s] = t.lr[p][1 - s]
    /\ \A m \in Node \ {p} : b.lr[m] = t.lr[m]

LEMMA LinkIs ==
    ASSUME NEW t \in Trees, NEW p \in Node, NEW s \in Side, NEW c \in Link,
           NEW b, b = [t EXCEPT !.lr[p][s] = c]
    PROVE  LinkedTo(t, b, p, s, c)
<1>1. t = [root |-> t.root, lr |-> t.lr, up |-> t.up, bf |-> t.bf]
  BY DEF Trees
<1>2. /\ t.lr \in [Node -> [Side -> Link]] /\ t.bf \in [Node -> -1 .. 1]
      /\ t.root \in Link /\ t.up \in [Node -> Link]
  BY DEF Trees
<1>3. b = [root |-> t.root, lr |-> [t.lr EXCEPT ![p][s] = c], up |-> t.up, bf |-> t.bf]
  BY <1>1
<1>4. [t.lr EXCEPT ![p][s] = c] \in [Node -> [Side -> Link]]
  BY <1>2
<1>5. b \in Trees
  BY <1>2, <1>3, <1>4 DEF Trees
<1>6. b.root = t.root /\ b.up = t.up /\ b.bf = t.bf /\ b.lr = [t.lr EXCEPT ![p][s] = c]
  BY <1>3
<1>7. 1 - s \in Side /\ 1 - s # s
  BY DEF Side
<1>8. b.lr[p][s] = c /\ b.lr[p][1 - s] = t.lr[p][1 - s]
  BY <1>2, <1>6, <1>7
<1>9. \A m \in Node \ {p} : b.lr[m] = t.lr[m]
  BY <1>2, <1>6
<1> QED BY <1>5, <1>6, <1>8, <1>9 DEF LinkedTo

Answered(t, b, c, p) ==
    /\ b \in Trees /\ b.root = t.root /\ b.lr = t.lr /\ b.bf = t.bf
    /\ c # NULL => b.up[c] = p
    /\ \A m \in Node \ {c} : b.up[m] = t.up[m]

LEMMA HangIs ==
    ASSUME NEW t \in Trees, NEW c \in Link, NEW p \in Link, NULL \notin Node,
           NEW b, b = Hang(t, c, p)
    PROVE  Answered(t, b, c, p)
<1>1. CASE c = NULL
  BY <1>1 DEF Hang, Answered
<1>2. CASE c # NULL
  <2>1. c \in Node /\ b = [t EXCEPT !.up[c] = p]
    BY <1>2 DEF Hang, Link
  <2> QED BY <1>2, <2>1, ZenonT(40) DEF Trees, Answered
<1> QED BY <1>1, <1>2

Replaced(t, b, x, p, c) ==
    /\ b \in Trees /\ b.root = t.root /\ b.up = t.up /\ b.bf = t.bf
    /\ \A m \in Node \ {p} : b.lr[m] = t.lr[m]
    /\ p # NULL => \A s \in Side : b.lr[p][s] = IF t.lr[p][s] = x THEN c ELSE t.lr[p][s]

LEMMA ReplaceIs ==
    ASSUME NEW t \in Trees, NEW x \in Node, NEW c \in Link, NEW p, p = t.up[x], NULL \notin Node,
           p # NULL => /\ t.lr[p][0] = x \/ t.lr[p][1] = x
                       /\ t.lr[p][0] # t.lr[p][1],
           NEW b, b = Replace(t, x, c)
    PROVE  Replaced(t, b, x, p, c)
<1>1. p \in Link
  BY DEF Trees
<1>2. CASE p = NULL
  BY <1>2 DEF Replace, Replaced
<1>3. CASE p # NULL
  <2>1. p \in Node
    BY <1>1, <1>3 DEF Link
  <2>2. PICK s \in Side : s = Index(t.lr[p][1] = x)
    BY DEF Index, Side
  <2>3. b = [t EXCEPT !.lr[p][s] = c]
    BY <1>3, <2>2, Zenon DEF Replace
  <2>4. /\ b \in Trees /\ b.root = t.root /\ b.up = t.up /\ b.bf = t.bf
        /\ b.lr[p][s] = c /\ b.lr[p][1 - s] = t.lr[p][1 - s]
        /\ \A m \in Node \ {p} : b.lr[m] = t.lr[m]
    <3>1. LinkedTo(t, b, p, s, c)
      BY <2>1, <2>3, LinkIs, Zenon
    <3> QED BY <3>1 DEF LinkedTo
  <2>5. CASE t.lr[p][1] = x
    <3>1. s = 1 /\ t.lr[p][0] # x
      BY <1>3, <2>2, <2>5 DEF Index
    <3> QED BY <2>4, <2>5, <3>1 DEF Side, Replaced
  <2>6. CASE t.lr[p][1] # x
    <3>1. s = 0 /\ t.lr[p][0] = x
      BY <1>3, <2>2, <2>6 DEF Index
    <3> QED BY <2>4, <2>6, <3>1 DEF Side, Replaced
  <2> QED BY <2>5, <2>6
<1> QED BY <1>2, <1>3

LEMMA WithOneIs ==
    ASSUME NEW t, NEW M, NEW w, NEW v, Shape(t, M, w, v), NEW x \in M,
           NEW p, p = t.up[x], NEW c, c = t.lr[x][Index(t.lr[x][1] # NULL)],
           NEW u, u = UnlinkWithOne(t, x)
    PROVE  Excised(t, u.tree, x, p, c) /\ u.p = p /\ u.r = Index(p # NULL /\ t.lr[p][1] = x)
<1>1. t \in Trees /\ M \in SUBSET Node /\ x \in Node /\ NULL \notin Node
  BY ShapeIs
<1>2. c \in M \cup {NULL} /\ c \in Link /\ (c # NULL => c # x /\ c # p /\ t.up[c] = x)
  <2>1. PICK s \in Side : c = t.lr[x][s]
    BY DEF Index, Side
  <2>2. c \in M \cup {NULL} /\ c # x /\ (c # NULL => t.up[c] = x)
    BY <2>1, ApartFrom
  <2>3. c # NULL => c # p
    <3>1. PICK r \in Side : 1 - r = s
      BY DEF Side
    <3>2. Child(t, x, 1 - r, c) /\ t.up[x] = p
      BY <2>1, <3>1 DEF Child
    <3> QED BY <3>2, RotationIs DEF Child
  <2> QED BY <1>1, <2>2, <2>3 DEF Link
<1>3. p \in M \cup {NULL} /\ p \in Link
  BY <1>1, ShapeIs DEF Link
<1>4. p # NULL => /\ t.lr[p][0] = x \/ t.lr[p][1] = x
                  /\ t.lr[p][0] # t.lr[p][1]
                  /\ p # x
  <2> SUFFICES ASSUME p # NULL PROVE (t.lr[p][0] = x \/ t.lr[p][1] = x) /\ t.lr[p][0] # t.lr[p][1] /\ p # x
    OBVIOUS
  <2>1. p \in M /\ x # NULL
    BY <1>1, <1>3
  <2>2. t.lr[p][0] = x \/ t.lr[p][1] = x
    <3>1. Linked(t, M, w)
      BY Zenon DEF Shape
    <3>2. IF x = w THEN t.up[x] = NULL
          ELSE t.up[x] \in M /\ (t.lr[t.up[x]][0] = x \/ t.lr[t.up[x]][1] = x)
      BY <3>1, Zenon DEF Linked
    <3> QED BY <2>1, <3>2
  <2>3. 0 \in Side /\ 1 \in Side
    BY DEF Side
  <2> QED BY <2>1, <2>2, <2>3, ApartFrom
<1>5. PICK b : b = Replace(t, x, c)
  OBVIOUS
<1>6. PICK h : h = Hang(b, c, p)
  OBVIOUS
<1>7. /\ b \in Trees /\ b.root = t.root /\ b.up = t.up /\ b.bf = t.bf
      /\ \A m \in Node \ {p} : b.lr[m] = t.lr[m]
      /\ p # NULL => \A s \in Side : b.lr[p][s] = IF t.lr[p][s] = x THEN c ELSE t.lr[p][s]
  <2>1. Replaced(t, b, x, p, c)
    BY <1>1, <1>2, <1>4, <1>5, ReplaceIs, Zenon
  <2> QED BY <2>1 DEF Replaced
<1>8. /\ h \in Trees /\ h.root = b.root /\ h.lr = b.lr /\ h.bf = b.bf
      /\ c # NULL => h.up[c] = p
      /\ \A m \in Node \ {c} : h.up[m] = b.up[m]
  <2>1. Answered(b, h, c, p)
    BY <1>1, <1>2, <1>3, <1>6, <1>7, HangIs, Zenon
  <2> QED BY <2>1 DEF Answered
<1>9. /\ u.tree = IF p = NULL THEN [h EXCEPT !.root = c] ELSE h
      /\ u.p = p /\ u.r = Index(p # NULL /\ t.lr[p][1] = x)
  BY <1>5, <1>6 DEF UnlinkWithOne
<1>10. CASE p = NULL
  <2>1. u.tree = [h EXCEPT !.root = c]
    BY <1>9, <1>10
  <2>2. /\ u.tree \in Trees /\ u.tree.root = c /\ u.tree.lr = h.lr /\ u.tree.up = h.up
        /\ u.tree.bf = h.bf
    BY <1>2, <1>8, <2>1 DEF Trees
  <2> QED BY <1>7, <1>8, <1>9, <1>10, <2>2 DEF Excised
<1>11. CASE p # NULL
  BY <1>7, <1>8, <1>9, <1>11 DEF Excised
<1> QED BY <1>10, <1>11

(* The links around a node with one child at most.                         *)
Lone(t, M, x, p, c) ==
    /\ \A s \in Side : t.lr[x][s] = c \/ t.lr[x][s] = NULL
    /\ p \in M \cup {NULL} /\ c \in M \cup {NULL} /\ p = t.up[x] /\ p # x
    /\ c # NULL => c # x /\ c # p /\ t.up[c] = x /\ (t.lr[x][0] = c \/ t.lr[x][1] = c)

LEMMA LoneIs ==
    ASSUME NEW t, NEW M, NEW w, NEW v, Shape(t, M, w, v), NEW x \in M,
           t.lr[x][0] = NULL \/ t.lr[x][1] = NULL,
           NEW p, p = t.up[x], NEW c, c = t.lr[x][Index(t.lr[x][1] # NULL)]
    PROVE  Lone(t, M, x, p, c)
<1>1. c = IF t.lr[x][1] # NULL THEN t.lr[x][1] ELSE t.lr[x][0]
  BY DEF Index
<1>2. PICK s \in Side : c = t.lr[x][s]
  BY <1>1 DEF Side
<1>3. c \in M \cup {NULL} /\ c # x /\ (c # NULL => t.up[c] = x)
  BY <1>2, ApartFrom
<1>4. c # NULL => c # p
  <2>1. PICK r \in Side : 1 - r = s
    BY DEF Side
  <2>2. Child(t, x, 1 - r, c) /\ t.up[x] = p
    BY <1>2, <2>1 DEF Child
  <2> QED BY <2>2, RotationIs DEF Child
<1>5. p \in M \cup {NULL}
  BY ShapeIs
<1>6. p # x
  <2>1. Linked(t, M, w) /\ NULL \notin M
    BY ShapeIs, Zenon DEF Shape
  <2>2. IF x = w THEN t.up[x] = NULL
        ELSE t.up[x] \in M /\ (t.lr[t.up[x]][0] = x \/ t.lr[t.up[x]][1] = x)
    BY <2>1, Zenon DEF Linked
  <2>3. 0 \in Side /\ 1 \in Side
    BY DEF Side
  <2>4. t.lr[x][0] # x /\ t.lr[x][1] # x
    BY <2>3, ApartFrom
  <2> QED BY <2>1, <2>2, <2>4
<1> QED BY <1>1, <1>3, <1>4, <1>5, <1>6 DEF Lone, Side

LEMMA ExcisedLinked ==
    ASSUME NEW t, NEW M, NEW v, Shape(t, M, t.root, v), NEW o, Ordered(o, M, v),
           NEW x \in M, NEW p, NEW c, Lone(t, M, x, p, c),
           NEW a, Excised(t, a, x, p, c)
    PROVE  Linked(a, M \ {x}, a.root)
<1> DEFINE w == t.root
           K == M \ {x}
<1>1. /\ t \in Trees /\ M \in SUBSET Node /\ w \in M
      /\ NULL \notin Node /\ NULL \notin M /\ Linked(t, M, w)
  <2>1. Linked(t, M, w)
    BY Zenon DEF Shape
  <2> QED BY <2>1, ShapeIs
<1>2. /\ \A s \in Side : t.lr[x][s] = c \/ t.lr[x][s] = NULL
      /\ p \in M \cup {NULL} /\ c \in M \cup {NULL} /\ p = t.up[x] /\ p # x
      /\ c # NULL => c # x /\ c # p /\ t.up[c] = x /\ (t.lr[x][0] = c \/ t.lr[x][1] = c)
  BY DEF Lone
<1>3. /\ a.root = IF p = NULL THEN c ELSE w
      /\ \A m \in M \ {c} : a.up[m] = t.up[m]
      /\ c # NULL => a.up[c] = p
      /\ \A m \in M \ {p} : a.lr[m] = t.lr[m]
      /\ p # NULL => \A s \in Side : a.lr[p][s] = IF t.lr[p][s] = x THEN c ELSE t.lr[p][s]
  <2>1. M \ {c} \subseteq Node \ {c} /\ M \ {p} \subseteq Node \ {p}
    BY <1>1
  <2> QED BY <2>1 DEF Excised
<1>4. \A m \in M : \A s \in Side : t.lr[m][s] # NULL => t.lr[m][s] \in M /\ t.up[t.lr[m][s]] = m
  BY <1>1, Zenon DEF Linked
<1>5. \A m \in M : IF m = w THEN t.up[m] = NULL
                   ELSE t.up[m] \in M /\ (t.lr[t.up[m]][0] = m \/ t.lr[t.up[m]][1] = m)
  BY <1>1, Zenon DEF Linked
<1>6. p = NULL <=> x = w
  BY <1>1, <1>2, <1>5
<1>7. ASSUME NEW m \in K, NEW s \in Side, a.lr[m][s] # NULL
      PROVE  a.lr[m][s] \in K /\ a.up[a.lr[m][s]] = m
  <2>1. t.lr[m][s] # NULL => t.lr[m][s] \in M /\ t.up[t.lr[m][s]] = m
    BY <1>4
  <2>2. CASE m = p /\ t.lr[m][s] = x
    <3>1. a.lr[m][s] = c /\ c # NULL
      BY <1>1, <1>3, <1>7, <2>2
    <3> QED BY <1>2, <1>3, <2>2, <3>1
  <2>3. CASE ~(m = p /\ t.lr[m][s] = x)
    <3>1. a.lr[m][s] = t.lr[m][s]
      BY <1>1, <1>3, <2>3
    <3>2. t.lr[m][s] # x
      BY <1>1, <1>2, <2>1, <2>3
    <3>3. t.lr[m][s] # c
      BY <1>2, <1>7, <2>1, <3>1
    <3> QED BY <1>3, <1>7, <2>1, <3>1, <3>2, <3>3
  <2> QED BY <2>2, <2>3
<1>8. ASSUME NEW m \in K
      PROVE  IF m = a.root THEN a.up[m] = NULL
             ELSE a.up[m] \in K /\ (a.lr[a.up[m]][0] = m \/ a.lr[a.up[m]][1] = m)
  <2>1. 0 \in Side /\ 1 \in Side
    BY DEF Side
  <2>2. CASE m = c
    <3>1. CASE p = NULL
      BY <1>1, <1>3, <2>2, <3>1
    <3>2. CASE p # NULL
      <4>1. p \in K /\ a.up[m] = p /\ a.root = w /\ w # m
        BY <1>1, <1>2, <1>3, <1>5, <2>2, <3>2
      <4>2. t.lr[p][0] = x \/ t.lr[p][1] = x
        BY <1>2, <1>5, <1>6, <3>2
      <4> QED BY <1>3, <2>1, <2>2, <3>2, <4>1, <4>2
    <3> QED BY <3>1, <3>2
  <2>3. CASE m # c
    <3>1. a.up[m] = t.up[m]
      BY <1>3, <2>3
    <3>2. IF m = w THEN t.up[m] = NULL
          ELSE t.up[m] \in M /\ (t.lr[t.up[m]][0] = m \/ t.lr[t.up[m]][1] = m)
      BY <1>5
    <3>3. CASE m = w
      BY <1>3, <1>6, <3>1, <3>2, <3>3
    <3>4. CASE m # w
      <4>1. m # a.root
        BY <1>3, <2>3, <3>4
      <4>2. t.up[m] # x
        BY <1>1, <1>2, <2>1, <2>3, <3>2, <3>4
      <4>3. CASE t.up[m] = p
        <5>1. p # NULL
          BY <1>1, <3>2, <3>4, <4>3
        <5>2. a.lr[p][0] = m \/ a.lr[p][1] = m
          BY <1>3, <2>1, <3>2, <3>4, <4>3, <5>1
        <5> QED BY <3>1, <3>2, <3>4, <4>1, <4>2, <4>3, <5>2
      <4>4. CASE t.up[m] # p
        <5>1. a.lr[t.up[m]] = t.lr[t.up[m]]
          BY <1>3, <3>2, <3>4, <4>4
        <5> QED BY <3>1, <3>2, <3>4, <4>1, <4>2, <5>1
      <4> QED BY <4>3, <4>4
    <3> QED BY <3>3, <3>4
  <2> QED BY <2>2, <2>3
<1>9. IF K = {} THEN a.root = NULL ELSE a.root \in K
  <2>1. CASE p # NULL
    <3>1. a.root = w /\ w \in K
      BY <1>1, <1>3, <1>6, <2>1
    <3> QED BY <3>1
  <2>2. CASE p = NULL /\ c # NULL
    <3>1. a.root = c /\ c \in K
      BY <1>2, <1>3, <2>2
    <3> QED BY <3>1
  <2>3. CASE p = NULL /\ c = NULL
    <3>1. a.root = NULL /\ x = w
      BY <1>3, <1>6, <2>3
    <3>2. t.lr[x][0] = NULL /\ t.lr[x][1] = NULL
      BY <1>2, <2>3 DEF Side
    <3>3. v.lo[x] = v.pos[x] /\ v.hi[x] = v.pos[x] /\ v.lo[x] = 1 /\ v.hi[x] = v.size
      <4>1. Spanned(t, M, w, v) /\ w # NULL
        BY <1>1, Zenon DEF Shape
      <4> QED BY <3>1, <3>2, <4>1 DEF Spanned
    <3>4. ASSUME NEW m \in K PROVE FALSE
      <4>1. v.pos[m] \in 1 .. v.size /\ v.pos[m] # v.pos[x] /\ v.pos[x] = 1 /\ v.size = 1
        <5>1. v.pos[m] # v.pos[x] /\ m \in M
          BY OrderedApart
        <5>2. v.pos[m] \in 1 .. v.size
          BY <5>1 DEF Ordered
        <5> QED BY <3>3, <5>1, <5>2
      <4> QED BY <4>1
    <3> QED BY <3>1, <3>4
  <2> QED BY <2>1, <2>2, <2>3
<1> HIDE DEF K
<1> QED BY <1>7, <1>8, <1>9, Zenon DEF Linked, K

LEMMA ExcisedSpanned ==
    ASSUME NEW t, NEW M, NEW v, NEW w, w = t.root, Shape(t, M, w, v),
           NEW o, Ordered(o, M, v), NEW x \in M, NEW p, NEW c, Lone(t, M, x, p, c),
           NEW a, Excised(t, a, x, p, c), NEW q, Narrowed(v, q, x)
    PROVE  Spanned(a, M \ {x}, a.root, q)
<1> DEFINE K == M \ {x}
           i == v.pos[x]
<1>1. /\ t \in Trees /\ M \in SUBSET Node /\ w \in M /\ v.size \in Nat
      /\ NULL \notin Node /\ NULL \notin M /\ Linked(t, M, w) /\ Spanned(t, M, w, v)
  <2>1. Linked(t, M, w) /\ Spanned(t, M, w, v)
    BY Zenon DEF Shape
  <2> QED BY <2>1, ShapeIs DEF Views
<1>2. /\ \A s \in Side : t.lr[x][s] = c \/ t.lr[x][s] = NULL
      /\ p \in M \cup {NULL} /\ c \in M \cup {NULL} /\ p = t.up[x] /\ p # x
      /\ c # NULL => c # x /\ c # p /\ t.up[c] = x /\ (t.lr[x][0] = c \/ t.lr[x][1] = c)
  BY DEF Lone
<1>3. /\ a.root = IF p = NULL THEN c ELSE w
      /\ \A m \in M \ {p} : a.lr[m] = t.lr[m]
      /\ p # NULL => \A s \in Side : a.lr[p][s] = IF t.lr[p][s] = x THEN c ELSE t.lr[p][s]
  <2>1. M \ {p} \subseteq Node \ {p}
    BY <1>1
  <2> QED BY <2>1 DEF Excised
<1>4. /\ q.size = v.size - 1
      /\ \A m \in M : /\ q.pos[m] = IF v.pos[m] > i THEN v.pos[m] - 1 ELSE v.pos[m]
                      /\ q.lo[m] = IF v.lo[m] > i THEN v.lo[m] - 1 ELSE v.lo[m]
                      /\ q.hi[m] = IF v.hi[m] >= i THEN v.hi[m] - 1 ELSE v.hi[m]
  BY <1>1 DEF Narrowed
<1>5. \A m \in M : /\ v.lo[m] \in Int /\ v.hi[m] \in Int /\ v.pos[m] \in Int
                   /\ v.lo[m] <= v.pos[m] /\ v.pos[m] <= v.hi[m]
                   /\ 1 <= v.lo[m] /\ v.hi[m] <= v.size
  BY ShapeIs
<1>6. i \in Int /\ 1 <= i /\ i <= v.size /\ v.lo[x] <= i /\ i <= v.hi[x]
  BY <1>1, <1>5
<1>7. \A m \in K : v.pos[m] # i
  BY OrderedApart
<1>8. \A m \in M :
        /\ IF t.lr[m][0] = NULL THEN v.lo[m] = v.pos[m]
           ELSE t.lr[m][0] \in M /\ v.lo[t.lr[m][0]] = v.lo[m] /\ v.hi[t.lr[m][0]] = v.pos[m] - 1
        /\ IF t.lr[m][1] = NULL THEN v.hi[m] = v.pos[m]
           ELSE t.lr[m][1] \in M /\ v.lo[t.lr[m][1]] = v.pos[m] + 1 /\ v.hi[t.lr[m][1]] = v.hi[m]
  <2> SUFFICES ASSUME NEW m \in M
               PROVE  /\ IF t.lr[m][0] = NULL THEN v.lo[m] = v.pos[m]
                         ELSE /\ t.lr[m][0] \in M /\ v.lo[t.lr[m][0]] = v.lo[m]
                              /\ v.hi[t.lr[m][0]] = v.pos[m] - 1
                      /\ IF t.lr[m][1] = NULL THEN v.hi[m] = v.pos[m]
                         ELSE /\ t.lr[m][1] \in M /\ v.lo[t.lr[m][1]] = v.pos[m] + 1
                              /\ v.hi[t.lr[m][1]] = v.hi[m]
    OBVIOUS
  <2>1. Spanned(t, M, w, v)
    BY Zenon DEF Shape
  <2>2. /\ IF t.lr[m][0] = NULL THEN v.lo[m] = v.pos[m]
           ELSE v.lo[t.lr[m][0]] = v.lo[m] /\ v.hi[t.lr[m][0]] = v.pos[m] - 1
        /\ IF t.lr[m][1] = NULL THEN v.hi[m] = v.pos[m]
           ELSE v.lo[t.lr[m][1]] = v.pos[m] + 1 /\ v.hi[t.lr[m][1]] = v.hi[m]
    BY <2>1, Zenon DEF Spanned
  <2>3. t.lr[m][0] \in M \cup {NULL} /\ t.lr[m][1] \in M \cup {NULL}
    BY ShapeIs
  <2> QED BY <2>2, <2>3
<1> HIDE DEF i
<1>9. ASSUME NEW m \in K
      PROVE  q.lo[m] <= q.pos[m] /\ q.pos[m] <= q.hi[m] /\ 1 <= q.lo[m] /\ q.hi[m] <= q.size
  BY <1>1, <1>4, <1>5, <1>6, <1>7
(* What x and its child cover, before and after.                           *)
<1>11. /\ c # NULL => q.lo[c] = v.lo[x] /\ q.hi[c] = v.hi[x] - 1
       /\ c = NULL => v.lo[x] = i /\ v.hi[x] = i
  <2>1. CASE c = NULL
    BY <1>2, <1>8, <2>1 DEF Side, i
  <2>2. CASE c # NULL /\ t.lr[x][0] = c /\ t.lr[x][1] = NULL
    <3>1. v.lo[c] = v.lo[x] /\ v.hi[c] = i - 1 /\ v.hi[x] = i /\ c \in M
      BY <1>8, <2>2 DEF i
    <3> QED BY <1>4, <1>5, <1>6, <2>2, <3>1
  <2>3. CASE c # NULL /\ t.lr[x][1] = c /\ t.lr[x][0] = NULL
    <3>1. v.lo[c] = i + 1 /\ v.hi[c] = v.hi[x] /\ v.lo[x] = i /\ c \in M
      BY <1>8, <2>3 DEF i
    <3> QED BY <1>4, <1>5, <1>6, <2>3, <3>1
  <2>4. c # NULL => t.lr[x][0] # t.lr[x][1]
    <3>1. 0 \in Side /\ 1 \in Side /\ 1 - 0 = 1
      BY DEF Side
    <3> QED BY <1>2, <3>1, ApartFrom
  <2>5. (t.lr[x][0] = c \/ t.lr[x][0] = NULL) /\ (t.lr[x][1] = c \/ t.lr[x][1] = NULL)
    BY <1>2 DEF Side
  <2> QED BY <1>2, <2>1, <2>2, <2>3, <2>4, <2>5
<1>12. ASSUME NEW m \in K
       PROVE  /\ IF a.lr[m][0] = NULL THEN q.lo[m] = q.pos[m]
                 ELSE q.lo[a.lr[m][0]] = q.lo[m] /\ q.hi[a.lr[m][0]] = q.pos[m] - 1
              /\ IF a.lr[m][1] = NULL THEN q.hi[m] = q.pos[m]
                 ELSE q.lo[a.lr[m][1]] = q.pos[m] + 1 /\ q.hi[a.lr[m][1]] = q.hi[m]
  <2>1. m \in M /\ v.pos[m] # i
    BY <1>7
  <2>2. 0 \in Side /\ 1 \in Side
    BY DEF Side
  <2>3. m = p /\ m # NULL => /\ a.lr[m][0] = IF t.lr[m][0] = x THEN c ELSE t.lr[m][0]
                            /\ a.lr[m][1] = IF t.lr[m][1] = x THEN c ELSE t.lr[m][1]
    BY <1>3, <2>2
  <2>4. ~(m = p /\ t.lr[m][0] = x) => a.lr[m][0] = t.lr[m][0]
    BY <1>1, <1>3, <2>1, <2>3
  <2>5. ~(m = p /\ t.lr[m][1] = x) => a.lr[m][1] = t.lr[m][1]
    BY <1>1, <1>3, <2>1, <2>3
  <2>6. IF a.lr[m][0] = NULL THEN q.lo[m] = q.pos[m]
        ELSE q.lo[a.lr[m][0]] = q.lo[m] /\ q.hi[a.lr[m][0]] = q.pos[m] - 1
    <3>1. CASE m = p /\ t.lr[m][0] = x
      <4>1. v.lo[x] = v.lo[m] /\ v.hi[x] = v.pos[m] - 1 /\ a.lr[m][0] = c
        BY <1>1, <1>8, <2>1, <2>3, <3>1
      <4>2. q.pos[m] = v.pos[m] - 1 /\ q.lo[m] = v.lo[m]
        BY <1>4, <1>5, <1>6, <2>1, <4>1
      <4> QED BY <1>5, <1>6, <1>11, <2>1, <4>1, <4>2
    <3>2. CASE ~(m = p /\ t.lr[m][0] = x)
      BY <1>4, <1>5, <1>6, <1>8, <2>1, <2>4, <3>2
    <3> QED BY <3>1, <3>2
  <2>7. IF a.lr[m][1] = NULL THEN q.hi[m] = q.pos[m]
        ELSE q.lo[a.lr[m][1]] = q.pos[m] + 1 /\ q.hi[a.lr[m][1]] = q.hi[m]
    <3>1. CASE m = p /\ t.lr[m][1] = x
      <4>1. v.lo[x] = v.pos[m] + 1 /\ v.hi[x] = v.hi[m] /\ a.lr[m][1] = c
        BY <1>1, <1>8, <2>1, <2>3, <3>1
      <4>2. q.pos[m] = v.pos[m] /\ q.hi[m] = v.hi[m] - 1
        BY <1>4, <1>5, <1>6, <2>1, <4>1
      <4> QED BY <1>5, <1>6, <1>11, <2>1, <4>1, <4>2
    <3>2. CASE ~(m = p /\ t.lr[m][1] = x)
      <4>1. a.lr[m][1] = t.lr[m][1]
        BY <2>5, <3>2
      <4>2. CASE t.lr[m][1] = NULL
        BY <1>4, <1>5, <1>6, <1>8, <2>1, <4>1, <4>2
      <4>3. CASE t.lr[m][1] # NULL
        <5>1. /\ t.lr[m][1] \in M /\ v.lo[t.lr[m][1]] = v.pos[m] + 1
              /\ v.hi[t.lr[m][1]] = v.hi[m]
          BY <1>8, <2>1, <4>3
        <5> QED BY <1>4, <1>5, <1>6, <2>1, <4>1, <4>3, <5>1
      <4> QED BY <4>2, <4>3
    <3> QED BY <3>1, <3>2
  <2> QED BY <2>6, <2>7
<1>13. a.root # NULL => q.lo[a.root] = 1 /\ q.hi[a.root] = q.size
  <2>1. v.lo[w] = 1 /\ v.hi[w] = v.size
    BY <1>1 DEF Spanned
  <2>2. CASE p # NULL
    <3>1. a.root = w
      BY <1>3, <2>2
    <3> QED BY <1>1, <1>4, <1>5, <1>6, <2>1, <3>1
  <2>3. CASE p = NULL
    <3>1. a.root = c /\ x = w
      <4>1. Linked(t, M, w)
        BY <1>1
      <4> QED BY <1>1, <1>2, <1>3, <2>3, ZenonT(40) DEF Linked
    <3> QED BY <1>1, <1>4, <1>11, <2>1, <3>1
  <2> QED BY <2>2, <2>3
<1> HIDE DEF K
<1> QED BY <1>9, <1>12, <1>13, Zenon DEF Spanned, K

(* The tree without the node is sound.                                     *)
LEMMA ExcisedShape ==
    ASSUME NEW t, NEW M, NEW v, NEW w, w = t.root, Shape(t, M, w, v),
           NEW o, Ordered(o, M, v), NEW x \in M, NEW p, NEW c, Lone(t, M, x, p, c),
           NEW a, Excised(t, a, x, p, c), NEW q, Narrowed(v, q, x)
    PROVE  Shape(a, M \ {x}, a.root, q)
<1>1. Linked(a, M \ {x}, a.root)
  BY ExcisedLinked
<1>2. Spanned(a, M \ {x}, a.root, q)
  BY ExcisedSpanned
<1>3. a \in Trees /\ q \in Views /\ M \ {x} \in SUBSET Node
  BY ShapeIs DEF Excised, Narrowed
<1>4. a.root \in Link
  BY <1>3 DEF Trees
<1> QED BY <1>1, <1>2, <1>3, <1>4, Zenon DEF Shape

(* What lost the node is one lower than its parent accounts for.           *)
LEMMA ExcisedHeights ==
    ASSUME NEW t, NEW M, NEW v, NEW w, Shape(t, M, w, v), NEW H, Heights(t, M, H, NULL),
           NEW x \in M, NEW p, NEW c, Lone(t, M, x, p, c),
           NEW a, Excised(t, a, x, p, c),
           NEW r, r = Index(p # NULL /\ t.lr[p][1] = x)
    PROVE  Heights(a, M \ {x}, H, p) /\ (p # NULL => Due(a, H, p, r, -1))
<1>1. H \in [Link -> Nat] /\ H[NULL] = 0 /\ \A m \in M : Level(t, H, m)
  <2>1. NULL \notin M
    BY ShapeIs
  <2> QED BY <2>1 DEF Heights
<1>2. /\ \A s \in Side : t.lr[x][s] = c \/ t.lr[x][s] = NULL
      /\ p \in M \cup {NULL} /\ c \in M \cup {NULL} /\ p = t.up[x] /\ p # x
      /\ c # NULL => c # x /\ c # p /\ t.up[c] = x /\ (t.lr[x][0] = c \/ t.lr[x][1] = c)
  BY DEF Lone
<1>3. /\ a.bf = t.bf /\ \A m \in M \ {p} : a.lr[m] = t.lr[m]
      /\ p # NULL => \A s \in Side : a.lr[p][s] = IF t.lr[p][s] = x THEN c ELSE t.lr[p][s]
  <2>1. M \ {p} \subseteq Node \ {p}
    BY ShapeIs
  <2> QED BY <2>1 DEF Excised
<1>4. Heights(a, M \ {x}, H, p)
  BY <1>1, <1>3 DEF Heights, Level
<1>5. ASSUME p # NULL PROVE Due(a, H, p, r, -1)
  <2>1. 0 \in Side /\ 1 \in Side
    BY DEF Side
  <2>2. H[x] = H[c] + 1
    <3>1. t.lr[x][0] # t.lr[x][1] \/ c = NULL
      BY <1>2, <2>1, ApartFrom
    <3>2. (t.lr[x][0] = c \/ t.lr[x][0] = NULL) /\ (t.lr[x][1] = c \/ t.lr[x][1] = NULL)
      BY <1>2, <2>1
    <3>3. H[x] = 1 + Higher(H[t.lr[x][0]], H[t.lr[x][1]])
      BY <1>1 DEF Level
    <3>4. H[c] \in Nat /\ H[NULL] = 0
      BY <1>1, <1>2, ShapeIs DEF Link
    <3> QED BY <1>2, <3>1, <3>2, <3>3, <3>4 DEF Higher
  <2>3. /\ p \in M /\ t.bf[p] = H[t.lr[p][1]] - H[t.lr[p][0]]
        /\ H[p] = 1 + Higher(H[t.lr[p][0]], H[t.lr[p][1]])
    BY <1>1, <1>2, <1>5, ZenonT(30) DEF Level
  <2>4. (t.lr[p][0] = x \/ t.lr[p][1] = x) /\ t.lr[p][0] # t.lr[p][1]
    <3>1. Linked(t, M, w) /\ NULL \notin M
      BY ShapeIs, Zenon DEF Shape
    <3>2. IF x = w THEN t.up[x] = NULL
          ELSE t.up[x] \in M /\ (t.lr[t.up[x]][0] = x \/ t.lr[t.up[x]][1] = x)
      BY <3>1, Zenon DEF Linked
    <3>3. t.lr[p][0] = x \/ t.lr[p][1] = x
      BY <1>2, <1>5, <3>2
    <3> QED BY <2>1, <2>3, <3>1, <3>3, ApartFrom
  <2>5. /\ a.bf[p] = t.bf[p]
        /\ a.lr[p][0] = IF t.lr[p][0] = x THEN c ELSE t.lr[p][0]
        /\ a.lr[p][1] = IF t.lr[p][1] = x THEN c ELSE t.lr[p][1]
    BY <1>3, <1>5, <2>1
  <2>6. H[c] \in Nat
    BY <1>1, <1>2, ShapeIs DEF Link
  <2>7. CASE t.lr[p][1] = x
    <3>1. r = 1 /\ a.lr[p][1] = c /\ a.lr[p][0] = t.lr[p][0]
      BY <1>5, <2>4, <2>5, <2>7 DEF Index
    <3>2. /\ Before(H, a.lr[p][1], r = 1, -1) = H[t.lr[p][1]]
          /\ Before(H, a.lr[p][0], r = 0, -1) = H[t.lr[p][0]]
      BY <2>2, <2>6, <2>7, <3>1 DEF Before
    <3> QED BY <2>3, <2>5, <3>2 DEF Due
  <2>8. CASE t.lr[p][0] = x
    <3>1. r = 0 /\ a.lr[p][0] = c /\ a.lr[p][1] = t.lr[p][1]
      BY <1>5, <2>4, <2>5, <2>8 DEF Index
    <3>2. /\ Before(H, a.lr[p][0], r = 0, -1) = H[t.lr[p][0]]
          /\ Before(H, a.lr[p][1], r = 1, -1) = H[t.lr[p][1]]
      BY <2>2, <2>6, <2>8, <3>1 DEF Before
    <3> QED BY <2>3, <2>5, <3>2 DEF Due
  <2> QED BY <2>4, <2>7, <2>8
<1> QED BY <1>4, <1>5

(* The order without one of the nodes.                                     *)
Closed(M, v, q, x) ==
    /\ q \in Views /\ q.size = v.size - 1
    /\ \A m \in M \ {x} : q.pos[m] = IF v.pos[m] > v.pos[x] THEN v.pos[m] - 1 ELSE v.pos[m]

LEMMA ClosedAscending ==
    ASSUME NEW M \in SUBSET Node, NEW v \in Views, NEW o, Ordered(o, M, v), Ascending(M, v),
           NEW x \in M, NEW q, Closed(M, v, q, x)
    PROVE  Ascending(M \ {x}, q)
<1>1. \A m \in M : v.pos[m] \in Int
  BY DEF Views
<1>2. \A m \in M \ {x} : v.pos[m] # v.pos[x]
  BY OrderedApart
<1>3. ASSUME NEW m \in M \ {x}, NEW n \in M \ {x}, q.pos[m] <= q.pos[n]
      PROVE  KeyOf[m] <= KeyOf[n]
  <2>1. v.pos[m] <= v.pos[n]
    BY <1>1, <1>2, <1>3 DEF Closed
  <2> QED BY <2>1 DEF Ascending
<1> QED BY <1>3 DEF Ascending

LEMMA ClosedOrder ==
    ASSUME NEW M \in SUBSET Node, NEW v \in Views, NEW o, Ordered(o, M, v),
           NEW x \in M, NEW q, Closed(M, v, q, x),
           NEW i, i = v.pos[x], NEW c, c = Sorted!RemoveAt(o, i)
    PROVE  Ordered(c, M \ {x}, q)
<1>1. /\ o \in Seq(Node) /\ Len(o) = v.size
      /\ \A k \in 1 .. v.size : o[k] \in M /\ v.pos[o[k]] = k
      /\ \A m \in M : v.pos[m] \in 1 .. v.size /\ o[v.pos[m]] = m
  BY DEF Ordered
<1>2. /\ q.size = v.size - 1
      /\ \A m \in M \ {x} : q.pos[m] = IF v.pos[m] > i THEN v.pos[m] - 1 ELSE v.pos[m]
  BY DEF Closed
<1>3. i \in 1 .. v.size /\ o[i] = x /\ v.size \in Nat /\ i \in Int
  BY <1>1 DEF Views
<1>4. /\ c \in Seq(Node) /\ Len(c) = v.size - 1
      /\ \A k \in 1 .. v.size - 1 : c[k] = IF k < i THEN o[k] ELSE o[k + 1]
  <2>1. PICK S : S = Node
    OBVIOUS
  <2>2. o \in Seq(S) /\ i \in 1 .. Len(o)
    BY <1>1, <1>3, <2>1
  <2>3. Cut(S, o, i, c)
    BY <2>2, RemoveAtIs, Zenon
  <2> QED BY <1>1, <2>1, <2>3 DEF Cut
<1>5. ASSUME NEW k \in 1 .. q.size PROVE c[k] \in M \ {x} /\ q.pos[c[k]] = k
  <2>1. k \in 1 .. v.size - 1 /\ k \in Int
    BY <1>2
  <2>2. CASE k < i
    <3>1. c[k] = o[k] /\ k \in 1 .. v.size
      BY <1>3, <1>4, <2>1, <2>2
    <3>2. o[k] \in M /\ v.pos[o[k]] = k
      BY <1>1, <3>1
    <3>3. o[k] # x
      BY <1>3, <2>1, <2>2, <3>2
    <3>4. q.pos[o[k]] = k
      BY <1>2, <1>3, <2>1, <2>2, <3>2, <3>3
    <3> QED BY <3>1, <3>2, <3>3, <3>4
  <2>3. CASE ~(k < i)
    <3>1. PICK j \in Int : j = k + 1
      BY <2>1
    <3>2. j \in 1 .. v.size /\ j > i /\ j - 1 = k
      BY <1>3, <2>1, <2>3, <3>1
    <3>3. c[k] = o[j]
      BY <1>4, <2>1, <2>3, <3>1
    <3>4. o[j] \in M /\ v.pos[o[j]] = j
      BY <1>1, <3>2
    <3>5. o[j] # x
      BY <1>3, <3>1, <3>2, <3>4
    <3>6. q.pos[o[j]] = j - 1
      BY <1>2, <3>2, <3>4, <3>5
    <3> QED BY <3>2, <3>3, <3>4, <3>5, <3>6
  <2> QED BY <2>2, <2>3
<1>6. ASSUME NEW m \in M \ {x} PROVE q.pos[m] \in 1 .. q.size /\ c[q.pos[m]] = m
  <2>1. v.pos[m] \in 1 .. v.size /\ o[v.pos[m]] = m
    BY <1>1
  <2>2. PICK k \in 1 .. v.size : k = v.pos[m]
    BY <2>1
  <2>3. k # i /\ o[k] = m
    BY <1>3, <2>1, <2>2
  <2>4. CASE k < i
    <3>1. q.pos[m] = k /\ k \in 1 .. v.size - 1
      BY <1>2, <1>3, <2>2, <2>4
    <3>2. c[k] = o[k]
      BY <1>4, <2>4, <3>1
    <3> QED BY <1>2, <2>3, <3>1, <3>2
  <2>5. CASE k > i
    <3>1. PICK j \in Int : j = k - 1
      BY <2>2
    <3>2. j \in 1 .. v.size - 1 /\ ~(j < i) /\ j + 1 = k
      BY <1>3, <2>5, <3>1
    <3>3. q.pos[m] = j
      BY <1>2, <2>2, <2>5, <3>1
    <3>4. c[j] = o[j + 1]
      BY <1>4, <3>2
    <3> QED BY <1>2, <2>3, <3>2, <3>3, <3>4
  <2> QED BY <1>3, <2>3, <2>4, <2>5
<1>7. c \in Seq(Node) /\ Len(c) = q.size
  BY <1>2, <1>4
<1> QED BY <1>5, <1>6, <1>7 DEF Ordered

-----------------------------------------------------------------------------
(* Another node takes the place of a node.                                 *)

Substituted(a, b, K, n, re) ==
    /\ b \in Trees /\ b.root = IF a.root = n THEN re ELSE a.root
    /\ b.up[re] = a.up[n] /\ b.bf[re] = a.bf[n]
    /\ \A s \in Side : b.lr[re][s] = a.lr[n][s]
    /\ \A m \in K \ {n} :
         /\ b.bf[m] = a.bf[m]
         /\ b.up[m] = IF a.up[m] = n THEN re ELSE a.up[m]
         /\ \A s \in Side : b.lr[m][s] = IF a.lr[m][s] = n THEN re ELSE a.lr[m][s]

Renamed(v, q, n, re) ==
    /\ q \in Views /\ q.size = v.size
    /\ q.pos[re] = v.pos[n] /\ q.lo[re] = v.lo[n] /\ q.hi[re] = v.hi[n]
    /\ \A m \in Node \ {re} : q.pos[m] = v.pos[m] /\ q.lo[m] = v.lo[m] /\ q.hi[m] = v.hi[m]

LEMMA RenamedExists ==
    ASSUME NEW v \in Views, NEW n \in Node, NEW re \in Node
    PROVE  \E q : Renamed(v, q, n, re)
<1> DEFINE q == [size |-> v.size, pos |-> [v.pos EXCEPT ![re] = v.pos[n]],
                 lo |-> [v.lo EXCEPT ![re] = v.lo[n]], hi |-> [v.hi EXCEPT ![re] = v.hi[n]]]
<1>1. Renamed(v, q, n, re)
  BY DEF Renamed, Views
<1> QED BY <1>1

(* The tree with the other node in its place is sound.                     *)
LEMMA SubstitutedShape ==
    ASSUME NEW a, NEW K, NEW v, NEW w, w = a.root, Shape(a, K, w, v), NEW n \in K,
           NEW re \in Node \ K, NEW b, Substituted(a, b, K, n, re), NEW q, Renamed(v, q, n, re)
    PROVE  Shape(b, (K \ {n}) \cup {re}, b.root, q)
<1> DEFINE L == (K \ {n}) \cup {re}
<1>1. /\ a \in Trees /\ K \in SUBSET Node /\ w \in K /\ NULL \notin Node /\ NULL \notin K
      /\ re # n /\ re # NULL /\ Linked(a, K, w) /\ Spanned(a, K, w, v)
  <2>1. Linked(a, K, w) /\ Spanned(a, K, w, v)
    BY Zenon DEF Shape
  <2> QED BY <2>1, ShapeIs
<1>2. /\ b \in Trees /\ b.root = IF w = n THEN re ELSE w
      /\ b.up[re] = a.up[n] /\ b.lr[re][0] = a.lr[n][0] /\ b.lr[re][1] = a.lr[n][1]
      /\ \A m \in K \ {n} :
           /\ b.up[m] = IF a.up[m] = n THEN re ELSE a.up[m]
           /\ b.lr[m][0] = IF a.lr[m][0] = n THEN re ELSE a.lr[m][0]
           /\ b.lr[m][1] = IF a.lr[m][1] = n THEN re ELSE a.lr[m][1]
  BY DEF Substituted, Side
<1>3. \A m \in K : /\ a.lr[m][0] \in K \cup {NULL} /\ a.lr[m][1] \in K \cup {NULL}
                   /\ a.up[m] \in K \cup {NULL}
  BY ShapeIs
<1>4. \A m \in K : /\ a.lr[m][0] # m /\ a.lr[m][1] # m
                   /\ a.lr[m][0] # NULL => a.up[a.lr[m][0]] = m
                   /\ a.lr[m][1] # NULL => a.up[a.lr[m][1]] = m
  <2>1. 0 \in Side /\ 1 \in Side
    BY DEF Side
  <2> QED BY <2>1, ApartFrom
<1>5. \A m \in K : IF m = w THEN a.up[m] = NULL
                   ELSE a.up[m] \in K /\ (a.lr[a.up[m]][0] = m \/ a.lr[a.up[m]][1] = m)
  BY <1>1, Zenon DEF Linked
<1>6. Linked(b, L, b.root)
  <2>1. ASSUME NEW m \in L
        PROVE  /\ b.lr[m][0] # NULL => b.lr[m][0] \in L /\ b.up[b.lr[m][0]] = m
               /\ b.lr[m][1] # NULL => b.lr[m][1] \in L /\ b.up[b.lr[m][1]] = m
    <3>1. CASE m = re
      BY <1>1, <1>2, <1>3, <1>4, <3>1
    <3>2. CASE m # re
      BY <1>1, <1>2, <1>3, <1>4, <3>2
    <3> QED BY <3>1, <3>2
  <2>2. ASSUME NEW m \in L
        PROVE  IF m = b.root THEN b.up[m] = NULL
               ELSE b.up[m] \in L /\ (b.lr[b.up[m]][0] = m \/ b.lr[b.up[m]][1] = m)
    <3>1. CASE m = re
      <4>1. CASE n = w
        BY <1>1, <1>2, <1>5, <3>1, <4>1
      <4>2. CASE n # w
        <5>1. a.up[n] \in K /\ a.up[n] # n /\ (a.lr[a.up[n]][0] = n \/ a.lr[a.up[n]][1] = n)
          BY <1>1, <1>4, <1>5, <4>2
        <5> QED BY <1>1, <1>2, <3>1, <4>2, <5>1
      <4> QED BY <4>1, <4>2
    <3>2. CASE m # re /\ m = w
      BY <1>1, <1>2, <1>5, <3>2
    <3>3. CASE m # re /\ m # w
      <4>1. a.up[m] \in K /\ (a.lr[a.up[m]][0] = m \/ a.lr[a.up[m]][1] = m) /\ m \in K /\ m # n
        BY <1>5, <3>3
      <4>2. m # b.root
        BY <1>2, <3>3
      <4>3. CASE a.up[m] = n
        BY <1>2, <4>1, <4>2, <4>3
      <4>4. CASE a.up[m] # n
        <5>1. b.up[m] = a.up[m] /\ a.up[m] \in K \ {n}
          BY <1>2, <4>1, <4>4
        <5> QED BY <1>2, <4>1, <4>2, <5>1
      <4> QED BY <4>3, <4>4
    <3> QED BY <3>1, <3>2, <3>3
  <2>3. L # {} /\ b.root \in L
    BY <1>1, <1>2
  <2>4. ASSUME NEW m \in L, NEW s \in Side, b.lr[m][s] # NULL
        PROVE  b.lr[m][s] \in L /\ b.up[b.lr[m][s]] = m
    <3> HIDE DEF L
    <3>1. s = 0 \/ s = 1
      BY DEF Side
    <3> QED BY <2>1, <2>4, <3>1
  <2> HIDE DEF L
  <2> QED BY <2>2, <2>3, <2>4, Zenon DEF Linked
<1>7. \A m \in K :
        /\ v.lo[m] <= v.pos[m] /\ v.pos[m] <= v.hi[m] /\ 1 <= v.lo[m] /\ v.hi[m] <= v.size
        /\ IF a.lr[m][0] = NULL THEN v.lo[m] = v.pos[m]
           ELSE v.lo[a.lr[m][0]] = v.lo[m] /\ v.hi[a.lr[m][0]] = v.pos[m] - 1
        /\ IF a.lr[m][1] = NULL THEN v.hi[m] = v.pos[m]
           ELSE v.lo[a.lr[m][1]] = v.pos[m] + 1 /\ v.hi[a.lr[m][1]] = v.hi[m]
  BY <1>1, Zenon DEF Spanned
<1>8. /\ q.size = v.size
      /\ q.pos[re] = v.pos[n] /\ q.lo[re] = v.lo[n] /\ q.hi[re] = v.hi[n]
      /\ \A m \in K : q.pos[m] = v.pos[m] /\ q.lo[m] = v.lo[m] /\ q.hi[m] = v.hi[m]
  <2>1. \A m \in K : m \in Node \ {re}
    BY <1>1
  <2> QED BY <2>1 DEF Renamed
<1>9. Spanned(b, L, b.root, q)
  <2>1. ASSUME NEW m \in L
        PROVE  q.lo[m] <= q.pos[m] /\ q.pos[m] <= q.hi[m] /\ 1 <= q.lo[m] /\ q.hi[m] <= q.size
    BY <1>7, <1>8
  <2>2. ASSUME NEW m \in L
        PROVE  /\ IF b.lr[m][0] = NULL THEN q.lo[m] = q.pos[m]
                  ELSE q.lo[b.lr[m][0]] = q.lo[m] /\ q.hi[b.lr[m][0]] = q.pos[m] - 1
               /\ IF b.lr[m][1] = NULL THEN q.hi[m] = q.pos[m]
                  ELSE q.lo[b.lr[m][1]] = q.pos[m] + 1 /\ q.hi[b.lr[m][1]] = q.hi[m]
    <3>1. CASE m = re
      BY <1>1, <1>2, <1>3, <1>7, <1>8, <3>1, SMTT(30)
    <3>2. CASE m # re
      <4>1. m \in K \ {n} /\ a.lr[m][0] \in K \cup {NULL} /\ a.lr[m][1] \in K \cup {NULL}
        BY <1>3, <3>2
      <4>2. /\ q.lo[m] = v.lo[m] /\ q.pos[m] = v.pos[m] /\ q.hi[m] = v.hi[m]
            /\ IF a.lr[m][0] = NULL THEN v.lo[m] = v.pos[m]
               ELSE v.lo[a.lr[m][0]] = v.lo[m] /\ v.hi[a.lr[m][0]] = v.pos[m] - 1
            /\ IF a.lr[m][1] = NULL THEN v.hi[m] = v.pos[m]
               ELSE v.lo[a.lr[m][1]] = v.pos[m] + 1 /\ v.hi[a.lr[m][1]] = v.hi[m]
        BY <1>7, <1>8, <4>1
      <4>3. /\ q.lo[b.lr[m][0]] = v.lo[a.lr[m][0]] \/ a.lr[m][0] = NULL
            /\ q.hi[b.lr[m][0]] = v.hi[a.lr[m][0]] \/ a.lr[m][0] = NULL
            /\ q.lo[b.lr[m][1]] = v.lo[a.lr[m][1]] \/ a.lr[m][1] = NULL
            /\ q.hi[b.lr[m][1]] = v.hi[a.lr[m][1]] \/ a.lr[m][1] = NULL
        BY <1>2, <1>8, <4>1, ZenonT(30)
      <4>4. (b.lr[m][0] = NULL <=> a.lr[m][0] = NULL) /\ (b.lr[m][1] = NULL <=> a.lr[m][1] = NULL)
        BY <1>1, <1>2, <4>1
      <4> QED BY <4>2, <4>3, <4>4
    <3> QED BY <3>1, <3>2
  <2>3. q.lo[b.root] = 1 /\ q.hi[b.root] = q.size
    <3>1. v.lo[w] = 1 /\ v.hi[w] = v.size
      BY <1>1 DEF Spanned
    <3> QED BY <1>1, <1>2, <1>8, <3>1
  <2> HIDE DEF L
  <2> QED BY <2>1, <2>2, <2>3, Zenon DEF Spanned
<1>10. L \in SUBSET Node /\ b.root \in Link /\ b \in Trees /\ q \in Views
  BY <1>1, <1>2 DEF Trees, Renamed
<1> HIDE DEF L
<1> QED BY <1>6, <1>9, <1>10, Zenon DEF Shape, L

LEMMA SubstitutedHeights ==
    ASSUME NEW a, NEW K, NEW v, NEW w, Shape(a, K, w, v), NEW n \in K,
           NEW re \in Node \ K, NEW b, Substituted(a, b, K, n, re),
           NEW H, NEW e, Heights(a, K, H, e),
           NEW ee, ee = IF e = n THEN re ELSE e, NEW r
    PROVE  \E G : /\ Heights(b, (K \ {n}) \cup {re}, G, ee)
                  /\ e \in K /\ Due(a, H, e, r, -1) => Due(b, G, ee, r, -1)
<1> DEFINE G == [H EXCEPT ![re] = H[n]]
<1>1. H \in [Link -> Nat] /\ H[NULL] = 0 /\ \A m \in K \ {e} : Level(a, H, m)
  BY DEF Heights
<1>2. /\ K \in SUBSET Node /\ NULL \notin Node /\ NULL \notin K /\ K \subseteq Link /\ re \in Link
      /\ re # n /\ re # NULL /\ NULL \in Link
  BY ShapeIs DEF Link
<1>3. /\ G \in [Link -> Nat] /\ G[NULL] = 0 /\ G[re] = H[n]
      /\ \A m \in K \cup {NULL} : G[m] = H[m]
  BY <1>1, <1>2
<1> HIDE DEF G
<1>4. /\ b.bf[re] = a.bf[n] /\ b.lr[re][0] = a.lr[n][0] /\ b.lr[re][1] = a.lr[n][1]
      /\ \A m \in K \ {n} :
           /\ b.bf[m] = a.bf[m]
           /\ b.lr[m][0] = IF a.lr[m][0] = n THEN re ELSE a.lr[m][0]
           /\ b.lr[m][1] = IF a.lr[m][1] = n THEN re ELSE a.lr[m][1]
  BY DEF Substituted, Side
<1>5. \A m \in K : a.lr[m][0] \in K \cup {NULL} /\ a.lr[m][1] \in K \cup {NULL}
  BY ShapeIs
<1>6. /\ G[b.lr[re][0]] = H[a.lr[n][0]] /\ G[b.lr[re][1]] = H[a.lr[n][1]]
      /\ \A m \in K \ {n} : G[b.lr[m][0]] = H[a.lr[m][0]] /\ G[b.lr[m][1]] = H[a.lr[m][1]]
  BY <1>3, <1>4, <1>5
<1>7. ASSUME NEW m \in ((K \ {n}) \cup {re}) \ {ee} PROVE Level(b, G, m)
  <2>1. CASE m = re
    <3>1. Level(a, H, n)
      BY <1>1, <2>1
    <3> QED BY <1>3, <1>4, <1>6, <2>1, <3>1 DEF Level
  <2>2. CASE m # re
    <3>1. m \in K \ {n} /\ Level(a, H, m)
      BY <1>1, <1>7, <2>2
    <3> QED BY <1>3, <1>4, <1>6, <3>1 DEF Level
  <2> QED BY <2>1, <2>2
<1>8. ASSUME e \in K, Due(a, H, e, r, -1) PROVE Due(b, G, ee, r, -1)
  <2>1. /\ b.bf[ee] = a.bf[e] /\ G[ee] = H[e]
        /\ G[b.lr[ee][0]] = H[a.lr[e][0]] /\ G[b.lr[ee][1]] = H[a.lr[e][1]]
    BY <1>3, <1>4, <1>6, <1>8
  <2> QED BY <1>8, <2>1 DEF Due, Before
<1>9. Heights(b, (K \ {n}) \cup {re}, G, ee)
  BY <1>3, <1>7 DEF Heights
<1> QED BY <1>8, <1>9

-----------------------------------------------------------------------------
(* A node with two children, and the one that follows it in the order.     *)

Heir(t, M, node, re, P, p, L, R, rest) ==
    /\ M \subseteq Node /\ NULL \notin M /\ t \in Trees
    /\ node \in M /\ re \in M /\ node # re /\ p \in M /\ L \in M /\ R \in M
    /\ P \in M \cup {NULL} /\ rest \in M \cup {NULL}
    /\ t.lr[node][0] = L /\ t.lr[node][1] = R /\ t.lr[re][0] = NULL /\ t.lr[re][1] = rest
    /\ t.up[re] = p /\ t.up[node] = P /\ t.up[L] = node /\ t.up[R] = node
    /\ rest # NULL => t.up[rest] = re
    /\ L # R /\ L # re /\ L # node /\ R # node /\ P # node /\ P # re /\ P # p /\ p # re /\ rest # re
    /\ rest # node
    /\ IF p = node THEN R = re ELSE R # re /\ t.lr[p][0] = re /\ t.lr[p][1] # re
    /\ P # NULL => (t.lr[P][0] = node \/ t.lr[P][1] = node) /\ t.lr[P][0] # t.lr[P][1]
    /\ \A m \in M : \A s \in Side : t.lr[m][s] = node => m = P
    /\ \A m \in M : \A s \in Side : t.lr[m][s] = re => m = p
    /\ \A m \in M : (t.up[m] = node => m = L \/ m = R) /\ (t.up[m] = re => m = rest)
    /\ t.root = node <=> P = NULL
    /\ t.root # re

(* ... which comes right after it.                                         *)
HeirNext(t, M, v, node, re, P, p, L, R, rest) ==
    Heir(t, M, node, re, P, p, L, R, rest) /\ v.pos[re] = v.pos[node] + 1

(* The leftmost node on the right is the next one in order.                *)
LEMMA HeirHolds ==
    ASSUME NEW t, NEW M, NEW v, NEW w, w = t.root, Shape(t, M, w, v), NEW o, Ordered(o, M, v),
           NEW node \in M, t.lr[node][0] # NULL, t.lr[node][1] # NULL,
           NEW R, R = t.lr[node][1], NEW re, re = cavlFindExtremum(t, R, 0),
           NEW P, P = t.up[node], NEW p, p = t.up[re], NEW L, L = t.lr[node][0],
           NEW rest, rest = t.lr[re][1]
    PROVE  HeirNext(t, M, v, node, re, P, p, L, R, rest)
<1>1. 0 \in Side /\ 1 \in Side
  BY DEF Side
<1>2. /\ t \in Trees /\ M \subseteq Node /\ w \in M /\ NULL \notin Node /\ NULL \notin M
      /\ Linked(t, M, w) /\ Spanned(t, M, w, v)
  <2>1. Linked(t, M, w) /\ Spanned(t, M, w, v)
    BY Zenon DEF Shape
  <2> QED BY <2>1, ShapeIs
<1>3. /\ L \in M /\ t.up[L] = node /\ L # node /\ L # R
      /\ v.lo[L] = v.lo[node] /\ v.hi[L] = v.pos[node] - 1
      /\ R \in M /\ t.up[R] = node /\ R # node
      /\ v.lo[R] = v.pos[node] + 1 /\ v.hi[R] = v.hi[node]
  BY ChildIs
<1>4. re \in M /\ t.lr[re][0] = NULL /\ v.pos[re] = v.lo[R]
  BY <1>1, <1>3, ExtremumHolds
<1>5. \A m \in M : /\ v.lo[m] \in Int /\ v.hi[m] \in Int /\ v.pos[m] \in Int
                   /\ v.lo[m] <= v.pos[m] /\ v.pos[m] <= v.hi[m] /\ 1 <= v.lo[m]
  BY ShapeIs
<1>6. v.pos[re] = v.pos[node] + 1 /\ v.lo[re] = v.pos[re] /\ re # node /\ L # re
  <2>1. v.lo[re] = v.pos[re]
    BY <1>2, <1>4 DEF Spanned
  <2> QED BY <1>3, <1>4, <1>5, <2>1
<1>7. \A m \in M : IF m = w THEN t.up[m] = NULL
                   ELSE t.up[m] \in M /\ (t.lr[t.up[m]][0] = m \/ t.lr[t.up[m]][1] = m)
  BY <1>2, Zenon DEF Linked
<1>8. \A m \in M : \A s \in Side : t.lr[m][s] # NULL => t.lr[m][s] \in M /\ t.up[t.lr[m][s]] = m
  BY <1>2, Zenon DEF Linked
<1>9. re # w
  <2>1. v.lo[w] = 1
    BY <1>2 DEF Spanned
  <2> QED BY <1>3, <1>4, <1>5, <1>6, <2>1
<1>10. p \in M /\ (t.lr[p][0] = re \/ t.lr[p][1] = re)
  BY <1>4, <1>7, <1>9, ZenonT(30)
<1>11. /\ t.lr[p][0] = re => v.hi[re] = v.pos[p] - 1
       /\ t.lr[p][1] = re => v.lo[re] = v.pos[p] + 1
       /\ t.lr[p][0] # t.lr[p][1] /\ t.lr[p][0] # p /\ t.lr[p][1] # p
  <2>1. re # NULL
    BY <1>2, <1>4, ZenonT(30)
  <2>2. t.lr[p][0] # t.lr[p][1]
    BY <1>1, <1>10, <2>1, ApartFrom, SMTT(30)
  <2>3. t.lr[p][0] # p /\ t.lr[p][1] # p
    BY <1>1, <1>10, ApartFrom, SMTT(30)
  <2>4. t.lr[p][0] = re => v.hi[re] = v.pos[p] - 1
    BY <1>10, <2>1, ChildIs, SMTT(30)
  <2>5. t.lr[p][1] = re => v.lo[re] = v.pos[p] + 1
    BY <1>10, <2>1, ChildIs, SMTT(30)
  <2> QED BY <2>2, <2>3, <2>4, <2>5, ZenonT(30)
<1>12. IF p = node THEN R = re ELSE R # re /\ t.lr[p][0] = re /\ t.lr[p][1] # re
  <2>1. CASE t.lr[p][1] = re
    <3>1. v.pos[p] = v.pos[node]
      BY <1>5, <1>6, <1>10, <1>11, <2>1
    <3>2. p = node
      BY <1>10, <3>1, OrderedApart
    <3> QED BY <2>1, <3>2, ZenonT(30)
  <2>2. CASE t.lr[p][0] = re
    <3>1. p # node
      BY <1>6, <2>2
    <3>2. R # re
      BY <1>3, <3>1
    <3> QED BY <1>11, <2>2, <3>1, <3>2, ZenonT(30)
  <2> QED BY <1>10, <2>1, <2>2, ZenonT(30)
<1>13. \A m \in M : \A s \in Side : (t.lr[m][s] = node => m = P) /\ (t.lr[m][s] = re => m = p)
  BY <1>2, <1>4, <1>8
<1>14. \A m \in M : (t.up[m] = node => m = L \/ m = R) /\ (t.up[m] = re => m = rest)
  BY <1>2, <1>4, <1>7
<1>15. rest \in M \cup {NULL} /\ (rest # NULL => t.up[rest] = re) /\ rest # re
  BY <1>1, <1>4, ApartFrom
<1>16. P \in M \cup {NULL} /\ (w = node <=> P = NULL)
  BY <1>2, <1>7, ZenonT(30)
<1>17. P # NULL => /\ t.lr[P][0] = node \/ t.lr[P][1] = node
                   /\ t.lr[P][0] # t.lr[P][1] /\ t.lr[P][0] # P /\ t.lr[P][1] # P
                   /\ t.lr[P][0] = node => v.hi[node] = v.pos[P] - 1
                   /\ t.lr[P][1] = node => v.lo[node] = v.pos[P] + 1
  <2> SUFFICES ASSUME P # NULL
               PROVE  /\ t.lr[P][0] = node \/ t.lr[P][1] = node
                      /\ t.lr[P][0] # t.lr[P][1] /\ t.lr[P][0] # P /\ t.lr[P][1] # P
                      /\ t.lr[P][0] = node => v.hi[node] = v.pos[P] - 1
                      /\ t.lr[P][1] = node => v.lo[node] = v.pos[P] + 1
    OBVIOUS
  <2>1. P \in M /\ node # NULL
    BY <1>2, <1>16
  <2>2. t.lr[P][0] = node \/ t.lr[P][1] = node
    BY <1>7, <1>16
  <2>3. t.lr[P][0] # t.lr[P][1]
    BY <1>1, <2>1, <2>2, ApartFrom
  <2> QED BY <1>1, <2>1, <2>2, <2>3, ChildIs, ApartFrom, SMTT(30)
<1>18. P # node
  BY <1>2, <1>16, <1>17
<1>19. P # re
  <2>1. CASE P = NULL
    BY <1>2, <1>4, <2>1
  <2>2. CASE P # NULL
    <3>1. P = re => v.pos[P] = v.pos[node] + 1 /\ t.lr[P][1] = node
      BY <1>2, <1>4, <1>6, <1>17, <2>2
    <3>2. P = re => v.lo[node] = v.pos[node] + 2
      BY <1>5, <1>17, <2>2, <3>1
    <3> QED BY <1>5, <3>2
  <2> QED BY <2>1, <2>2
<1>20. P # p
  <2>1. CASE P = NULL
    BY <1>2, <1>10, <2>1
  <2>2. CASE P # NULL /\ P = p
    <3>1. p # node
      BY <1>18, <2>2, ZenonT(30)
    <3>2. t.lr[p][0] = re /\ t.lr[p][1] = node
      BY <1>6, <1>12, <1>17, <2>2, <3>1, ZenonT(30)
    <3>3. v.hi[re] = v.pos[p] - 1 /\ v.lo[node] = v.pos[p] + 1
      BY <1>11, <1>17, <2>2, <3>2, ZenonT(30)
    <3> QED BY <1>4, <1>5, <1>6, <1>10, <3>3
  <2> QED BY <2>1, <2>2
<1>21. rest # node /\ p # re
  BY <1>2, <1>10, <1>11, <1>15, <1>19, ZenonT(30)
<1>22. Heir(t, M, node, re, P, p, L, R, rest)
  BY <1>2, <1>3, <1>4, <1>6, <1>9, <1>10, <1>12, <1>13, <1>14, <1>15, <1>16, <1>17, <1>18, <1>19,
     <1>20, <1>21, Zenon DEF Heir
<1> QED BY <1>6, <1>22 DEF HeirNext

Succeeded(y, b, node, re, P, L) ==
    /\ b \in Trees /\ b.root = IF P = NULL THEN re ELSE y.root
    /\ b.bf[re] = y.bf[node] /\ b.up[re] = P /\ b.up[L] = re
    /\ b.lr[re][0] = L /\ b.lr[re][1] = y.lr[re][1]
    /\ P # NULL => \A s \in Side : b.lr[P][s] = IF y.lr[P][s] = node THEN re ELSE y.lr[P][s]
    /\ \A m \in Node \ {re} : b.bf[m] = y.bf[m]
    /\ \A m \in Node \ {re, L} : b.up[m] = y.up[m]
    /\ \A m \in Node \ {re, P} : b.lr[m] = y.lr[m]

LEMMA SucceedIs ==
    ASSUME NEW y \in Trees, NEW node \in Node, NEW re \in Node, NULL \notin Node,
           NEW P, P = y.up[node], NEW L \in Node, L = y.lr[node][0],
           L # re, P # re, node # re,
           P # NULL => (y.lr[P][0] = node \/ y.lr[P][1] = node) /\ y.lr[P][0] # y.lr[P][1],
           NEW b, b = Succeed(y, node, re)
    PROVE  Succeeded(y, b, node, re, P, L)
<1>1. re \in Link /\ L \in Link /\ P \in Link /\ L # NULL
  BY DEF Trees, Link
<1>2. PICK g : g = Replace(y, node, re)
  OBVIOUS
<1>3. /\ g \in Trees /\ g.root = y.root /\ g.up = y.up /\ g.bf = y.bf
      /\ \A m \in Node \ {P} : g.lr[m] = y.lr[m]
      /\ P # NULL => \A s \in Side : g.lr[P][s] = IF y.lr[P][s] = node THEN re ELSE y.lr[P][s]
  <2>1. Replaced(y, g, node, P, re)
    BY <1>1, <1>2, ReplaceIs, Zenon
  <2> QED BY <2>1 DEF Replaced
<1>4. PICK k : k = [g EXCEPT !.lr[re][0] = L]
  OBVIOUS
<1>5. /\ k \in Trees /\ k.root = g.root /\ k.up = g.up /\ k.bf = g.bf
      /\ k.lr[re][0] = L /\ k.lr[re][1] = g.lr[re][1]
      /\ \A m \in Node \ {re} : k.lr[m] = g.lr[m]
  <2>1. PICK s \in Side : s = 0
    BY DEF Side
  <2>2. LinkedTo(g, k, re, s, L)
    BY <1>1, <1>3, <1>4, <2>1, LinkIs
  <2> QED BY <2>1, <2>2 DEF LinkedTo
<1>6. PICK h : h = [k EXCEPT !.bf[re] = y.bf[node], !.up[re] = P]
  OBVIOUS
<1>7. y.bf[node] \in -1 .. 1
  BY DEF Trees
<1>8. /\ h \in Trees /\ h.root = k.root /\ h.lr = k.lr
      /\ h.bf[re] = y.bf[node] /\ h.up[re] = P
      /\ \A m \in Node \ {re} : h.bf[m] = k.bf[m] /\ h.up[m] = k.up[m]
  BY <1>1, <1>5, <1>6, <1>7 DEF Trees
<1>9. PICK d : d = IF P = NULL THEN [h EXCEPT !.root = re] ELSE h
  OBVIOUS
<1>10. /\ d \in Trees /\ d.root = (IF P = NULL THEN re ELSE h.root)
       /\ d.lr = h.lr /\ d.bf = h.bf /\ d.up = h.up
  BY <1>1, <1>8, <1>9 DEF Trees
<1>11. b = Hang(d, L, re)
  <2>1. h = [g EXCEPT !.bf[re] = y.bf[node], !.lr[re][0] = y.lr[node][0], !.up[re] = y.up[node]]
    <3>1. g = [root |-> g.root, lr |-> g.lr, up |-> g.up, bf |-> g.bf]
      BY <1>3 DEF Trees
    <3> QED BY <1>4, <1>6, <3>1
  <2> QED BY <1>2, <1>9, <2>1, Zenon DEF Succeed
<1>12. /\ b \in Trees /\ b.root = d.root /\ b.lr = d.lr /\ b.bf = d.bf
       /\ b.up[L] = re /\ \A m \in Node \ {L} : b.up[m] = d.up[m]
  <2>1. Answered(d, b, L, re)
    BY <1>1, <1>10, <1>11, HangIs, Zenon
  <2> QED BY <1>1, <2>1 DEF Answered
<1>13. b.bf[re] = y.bf[node] /\ \A m \in Node \ {re} : b.bf[m] = y.bf[m]
  BY <1>3, <1>5, <1>8, <1>10, <1>12
<1>14. b.up[re] = P /\ \A m \in Node \ {re, L} : b.up[m] = y.up[m]
  BY <1>3, <1>5, <1>8, <1>10, <1>12
<1>15. b.lr[re][0] = L /\ b.lr[re][1] = y.lr[re][1] /\ \A m \in Node \ {re, P} : b.lr[m] = y.lr[m]
  BY <1>3, <1>5, <1>8, <1>10, <1>12
<1>16. P # NULL => \A s \in Side : b.lr[P][s] = IF y.lr[P][s] = node THEN re ELSE y.lr[P][s]
  <2>1. P # NULL => P \in Node \ {re}
    BY <1>1 DEF Link
  <2> QED BY <1>3, <1>5, <1>8, <1>10, <1>12, <2>1
<1> QED BY <1>3, <1>5, <1>8, <1>10, <1>12, <1>13, <1>14, <1>15, <1>16, ZenonT(30) DEF Succeeded

Moved(t, a, b, M, node, re) ==
    /\ Substituted(a, b, M \ {re}, node, re)
    /\ \A m \in Node \ M : b.up[m] = t.up[m] /\ b.lr[m] = t.lr[m]

(* To take out the heir and to put it in the place of the node is what the *)
(* code does in one go.                                                    *)
LEMMA ChildSubstituted ==
    ASSUME NEW t, NEW M, NEW node, NEW re, NEW P, NEW p, NEW L, NEW R, NEW rest,
           Heir(t, M, node, re, P, p, L, R, rest), p = node, NULL \notin Node,
           NEW a, Excised(t, a, re, p, rest),
           NEW b, b = UnlinkBeforeChild(t, node, re).tree
    PROVE  Moved(t, a, b, M, node, re)
<1>1. /\ M \subseteq Node /\ NULL \notin M /\ t \in Trees
      /\ node \in M /\ re \in M /\ node # re /\ L \in M
      /\ P \in M \cup {NULL} /\ rest \in M \cup {NULL}
      /\ t.lr[node][0] = L /\ t.lr[node][1] = re /\ t.lr[re][0] = NULL /\ t.lr[re][1] = rest
      /\ t.up[re] = node /\ t.up[node] = P /\ t.up[L] = node
      /\ rest # NULL => t.up[rest] = re
      /\ L # re /\ L # node /\ P # node /\ P # re /\ rest # re /\ rest # node
      /\ P # NULL => (t.lr[P][0] = node \/ t.lr[P][1] = node) /\ t.lr[P][0] # t.lr[P][1]
      /\ \A m \in M : \A s \in Side : t.lr[m][s] = node => m = P
      /\ \A m \in M : \A s \in Side : t.lr[m][s] = re => m = p
      /\ \A m \in M : (t.up[m] = node => m = L \/ m = re) /\ (t.up[m] = re => m = rest)
      /\ t.root = node <=> P = NULL
      /\ t.root # re
  BY DEF Heir
<1>2. /\ a.bf = t.bf /\ a.root = t.root
      /\ \A m \in M \ {rest} : a.up[m] = t.up[m]
      /\ rest # NULL => a.up[rest] = node
      /\ \A m \in M \ {node} : a.lr[m] = t.lr[m]
      /\ a.lr[node][0] = L /\ a.lr[node][1] = rest
  <2>1. M \ {rest} \subseteq Node \ {rest} /\ M \ {node} \subseteq Node \ {node} /\ p # NULL
    BY <1>1
  <2>2. 0 \in Side /\ 1 \in Side
    BY DEF Side
  <2> QED BY <1>1, <2>1, <2>2 DEF Excised
<1>3. Succeeded(t, b, node, re, P, L)
  <2>1. b = Succeed(t, node, re)
    BY DEF UnlinkBeforeChild
  <2>2. node \in Node /\ re \in Node /\ L \in Node
    BY <1>1
  <2> QED BY <1>1, <2>1, <2>2, SucceedIs, Zenon
<1>4. /\ b \in Trees /\ b.root = IF P = NULL THEN re ELSE t.root
      /\ b.bf[re] = t.bf[node] /\ b.up[re] = P /\ b.up[L] = re
      /\ b.lr[re][0] = L /\ b.lr[re][1] = t.lr[re][1]
      /\ P # NULL => \A s \in Side : b.lr[P][s] = IF t.lr[P][s] = node THEN re ELSE t.lr[P][s]
      /\ \A m \in Node \ {re} : b.bf[m] = t.bf[m]
      /\ \A m \in Node \ {re, L} : b.up[m] = t.up[m]
      /\ \A m \in Node \ {re, P} : b.lr[m] = t.lr[m]
  BY <1>3 DEF Succeeded
<1>5. ASSUME NEW m \in M \ {re, node}
      PROVE  /\ b.bf[m] = a.bf[m]
             /\ b.up[m] = IF a.up[m] = node THEN re ELSE a.up[m]
             /\ \A s \in Side : b.lr[m][s] = IF a.lr[m][s] = node THEN re ELSE a.lr[m][s]
  <2>1. b.bf[m] = a.bf[m]
    BY <1>1, <1>2, <1>4
  <2>2. b.up[m] = IF a.up[m] = node THEN re ELSE a.up[m]
    <3>1. CASE m = L
      BY <1>1, <1>2, <1>4, <3>1
    <3>2. CASE m # L /\ m = rest
      BY <1>1, <1>2, <1>4, <3>2
    <3>3. CASE m # L /\ m # rest
      BY <1>1, <1>2, <1>4, <3>3
    <3> QED BY <3>1, <3>2, <3>3
  <2>3. ASSUME NEW s \in Side PROVE b.lr[m][s] = IF a.lr[m][s] = node THEN re ELSE a.lr[m][s]
    <3>1. a.lr[m] = t.lr[m]
      BY <1>2
    <3>2. CASE m = P
      BY <1>1, <1>4, <3>1, <3>2
    <3>3. CASE m # P
      <4>1. b.lr[m] = t.lr[m] /\ t.lr[m][s] # node
        BY <1>1, <1>4, <3>3
      <4> QED BY <3>1, <4>1
    <3> QED BY <3>2, <3>3
  <2> QED BY <2>1, <2>2, <2>3
<1>6. /\ b.root = IF a.root = node THEN re ELSE a.root
      /\ b.up[re] = a.up[node] /\ b.bf[re] = a.bf[node]
      /\ \A s \in Side : b.lr[re][s] = a.lr[node][s]
  BY <1>1, <1>2, <1>4 DEF Side
<1>7. Substituted(a, b, M \ {re}, node, re)
  BY <1>4, <1>5, <1>6 DEF Substituted
<1>8. ASSUME NEW m \in Node \ M PROVE b.up[m] = t.up[m] /\ b.lr[m] = t.lr[m]
  <2>1. m # re /\ m # L /\ m # P
    BY <1>1
  <2> QED BY <1>4, <2>1
<1> QED BY <1>7, <1>8 DEF Moved

LEMMA DistantSubstituted ==
    ASSUME NEW t, NEW M, NEW node, NEW re, NEW P, NEW p, NEW L, NEW R, NEW rest,
           Heir(t, M, node, re, P, p, L, R, rest), p # node, NULL \notin Node,
           NEW a, Excised(t, a, re, p, rest),
           NEW b, b = UnlinkBeforeDistant(t, node, re).tree
    PROVE  Moved(t, a, b, M, node, re)
<1>1. /\ M \subseteq Node /\ NULL \notin M /\ t \in Trees
      /\ node \in M /\ re \in M /\ node # re /\ p \in M /\ L \in M /\ R \in M
      /\ P \in M \cup {NULL} /\ rest \in M \cup {NULL}
      /\ t.lr[node][0] = L /\ t.lr[node][1] = R /\ t.lr[re][0] = NULL /\ t.lr[re][1] = rest
      /\ t.up[re] = p /\ t.up[node] = P /\ t.up[L] = node /\ t.up[R] = node
      /\ rest # NULL => t.up[rest] = re
      /\ L # R /\ L # re /\ L # node /\ R # node /\ P # node /\ P # re /\ P # p /\ p # re /\ rest # re
      /\ rest # node /\ R # re /\ t.lr[p][0] = re /\ t.lr[p][1] # re
      /\ P # NULL => (t.lr[P][0] = node \/ t.lr[P][1] = node) /\ t.lr[P][0] # t.lr[P][1]
      /\ \A m \in M : \A s \in Side : t.lr[m][s] = node => m = P
      /\ \A m \in M : (t.up[m] = node => m = L \/ m = R) /\ (t.up[m] = re => m = rest)
      /\ t.root = node <=> P = NULL
      /\ t.root # re
  BY DEF Heir
<1>2. rest # L /\ rest # R
  BY <1>1
<1>3. 0 \in Side /\ 1 \in Side /\ 1 - 0 = 1 /\ 1 - 1 = 0
  BY DEF Side
<1>4. /\ a.bf = t.bf /\ a.root = t.root
      /\ \A m \in M \ {rest} : a.up[m] = t.up[m]
      /\ rest # NULL => a.up[rest] = p
      /\ \A m \in M \ {p} : a.lr[m] = t.lr[m]
      /\ a.lr[p][0] = rest /\ a.lr[p][1] = t.lr[p][1]
  <2>1. M \ {rest} \subseteq Node \ {rest} /\ M \ {p} \subseteq Node \ {p} /\ p # NULL
    BY <1>1
  <2> QED BY <1>1, <1>3, <2>1 DEF Excised
<1>5. /\ p \in Node /\ rest \in Link /\ p \in Link /\ R \in Link /\ re \in Link /\ re \in Node
      /\ node \in Node /\ L \in Node /\ R # NULL /\ R \in Node
  BY <1>1 DEF Link
<1>6. PICK k : k = [t EXCEPT !.lr[p][0] = rest]
  OBVIOUS
<1>7. /\ k \in Trees /\ k.root = t.root /\ k.up = t.up /\ k.bf = t.bf
      /\ k.lr[p][0] = rest /\ k.lr[p][1] = t.lr[p][1]
      /\ \A m \in Node \ {p} : k.lr[m] = t.lr[m]
  <2>1. PICK s \in Side : s = 0
    BY <1>3
  <2>2. LinkedTo(t, k, p, s, rest)
    BY <1>1, <1>5, <1>6, <2>1, LinkIs
  <2> QED BY <1>3, <2>1, <2>2 DEF LinkedTo
<1>8. PICK taken : taken = Hang(k, rest, p)
  OBVIOUS
<1>9. /\ taken \in Trees /\ taken.root = k.root /\ taken.lr = k.lr /\ taken.bf = k.bf
      /\ rest # NULL => taken.up[rest] = p
      /\ \A m \in Node \ {rest} : taken.up[m] = k.up[m]
  <2>1. Answered(k, taken, rest, p)
    BY <1>5, <1>7, <1>8, HangIs, Zenon
  <2> QED BY <2>1 DEF Answered
<1>10. taken.lr[node][1] = R
  BY <1>1, <1>5, <1>7, <1>9
<1>11. PICK heir : heir = [taken EXCEPT !.lr[re][1] = R]
  OBVIOUS
<1>12. /\ heir \in Trees /\ heir.root = taken.root /\ heir.up = taken.up /\ heir.bf = taken.bf
       /\ heir.lr[re][1] = R /\ heir.lr[re][0] = taken.lr[re][0]
       /\ \A m \in Node \ {re} : heir.lr[m] = taken.lr[m]
  <2>1. PICK s \in Side : s = 1
    BY <1>3
  <2>2. LinkedTo(taken, heir, re, s, R)
    BY <1>5, <1>9, <1>11, <2>1, LinkIs
  <2> QED BY <1>3, <2>1, <2>2 DEF LinkedTo
<1>13. PICK y : y = Hang(heir, R, re)
  OBVIOUS
<1>14. /\ y \in Trees /\ y.root = heir.root /\ y.lr = heir.lr /\ y.bf = heir.bf
       /\ y.up[R] = re /\ \A m \in Node \ {R} : y.up[m] = heir.up[m]
  <2>1. Answered(heir, y, R, re)
    BY <1>5, <1>12, <1>13, HangIs, Zenon
  <2> QED BY <1>5, <2>1 DEF Answered
<1>15. /\ y \in Trees /\ y.root = t.root /\ y.bf = t.bf
       /\ y.lr[re][1] = R /\ y.lr[p][0] = rest /\ y.lr[p][1] = t.lr[p][1]
       /\ \A m \in Node \ {p, re} : y.lr[m] = t.lr[m]
       /\ y.up[R] = re /\ (rest # NULL => y.up[rest] = p)
       /\ \A m \in Node \ {R, rest} : y.up[m] = t.up[m]
  <2>1. rest # NULL => rest \in Node \ {R}
    BY <1>1, <1>2
  <2>2. p \in Node \ {re}
    BY <1>1
  <2> QED BY <1>7, <1>9, <1>12, <1>14, <2>1, <2>2
<1>16. Succeeded(y, b, node, re, P, L)
  <2>1. b = Succeed(y, node, re)
    BY <1>1, <1>6, <1>8, <1>10, <1>11, <1>13, Zenon DEF UnlinkBeforeDistant
  <2>2. P = y.up[node] /\ L = y.lr[node][0]
    BY <1>1, <1>5, <1>15
  <2>3. P # NULL => y.lr[P] = t.lr[P]
    BY <1>1, <1>15
  <2>4. P # NULL => (y.lr[P][0] = node \/ y.lr[P][1] = node) /\ y.lr[P][0] # y.lr[P][1]
    BY <1>1, <2>3
  <2> QED BY <1>1, <1>5, <1>15, <2>1, <2>2, <2>4, SucceedIs, Zenon
<1>17. /\ b \in Trees /\ b.root = IF P = NULL THEN re ELSE y.root
       /\ b.bf[re] = y.bf[node] /\ b.up[re] = P /\ b.up[L] = re
       /\ b.lr[re][0] = L /\ b.lr[re][1] = y.lr[re][1]
       /\ P # NULL => \A s \in Side : b.lr[P][s] = IF y.lr[P][s] = node THEN re ELSE y.lr[P][s]
       /\ \A m \in Node \ {re} : b.bf[m] = y.bf[m]
       /\ \A m \in Node \ {re, L} : b.up[m] = y.up[m]
       /\ \A m \in Node \ {re, P} : b.lr[m] = y.lr[m]
  BY <1>16 DEF Succeeded
<1>18. ASSUME NEW m \in M \ {re, node}
       PROVE  /\ b.bf[m] = a.bf[m]
              /\ b.up[m] = IF a.up[m] = node THEN re ELSE a.up[m]
              /\ \A s \in Side : b.lr[m][s] = IF a.lr[m][s] = node THEN re ELSE a.lr[m][s]
  <2>0. m \in Node \ {re} /\ m \in M
    BY <1>1
  <2>1. b.bf[m] = a.bf[m]
    BY <1>4, <1>15, <1>17, <2>0
  <2>2. b.up[m] = IF a.up[m] = node THEN re ELSE a.up[m]
    <3>1. CASE m = L
      BY <1>1, <1>2, <1>4, <1>17, <3>1
    <3>2. CASE m # L /\ m = rest
      BY <1>1, <1>4, <1>15, <1>17, <2>0, <3>2
    <3>3. CASE m # L /\ m = R
      BY <1>1, <1>2, <1>4, <1>15, <1>17, <2>0, <3>3
    <3>4. CASE m # L /\ m # rest /\ m # R
      BY <1>1, <1>4, <1>15, <1>17, <2>0, <3>4
    <3> QED BY <3>1, <3>2, <3>3, <3>4
  <2>3. ASSUME NEW s \in Side PROVE b.lr[m][s] = IF a.lr[m][s] = node THEN re ELSE a.lr[m][s]
    <3>1. CASE m = p
      <4>2. b.lr[p][s] = a.lr[p][s]
        BY <1>1, <1>4, <1>15, <1>17, <2>0, <3>1 DEF Side
      <4>3. a.lr[p][s] # node
        BY <1>1, <1>3, <1>4 DEF Side
      <4> QED BY <3>1, <4>2, <4>3
    <3>2. CASE m = P
      <4>1. a.lr[m] = t.lr[m] /\ y.lr[m] = t.lr[m] /\ P # NULL
        BY <1>1, <1>4, <1>15, <2>0, <3>2
      <4> QED BY <1>17, <3>2, <4>1
    <3>3. CASE m # P /\ m # p
      <4>1. b.lr[m] = y.lr[m] /\ y.lr[m] = t.lr[m] /\ a.lr[m] = t.lr[m]
        BY <1>4, <1>15, <1>17, <2>0, <3>3
      <4>2. t.lr[m][s] # node
        BY <1>1, <2>0, <3>3
      <4> QED BY <4>1, <4>2
    <3> QED BY <3>1, <3>2, <3>3
  <2> QED BY <2>1, <2>2, <2>3
<1>19. /\ b.root = IF a.root = node THEN re ELSE a.root
       /\ b.up[re] = a.up[node] /\ b.bf[re] = a.bf[node]
       /\ \A s \in Side : b.lr[re][s] = a.lr[node][s]
  <2>1. a.lr[node] = t.lr[node] /\ a.up[node] = t.up[node]
    BY <1>1, <1>4
  <2> QED BY <1>1, <1>4, <1>15, <1>17, <2>1 DEF Side
<1>20. Substituted(a, b, M \ {re}, node, re)
  BY <1>17, <1>18, <1>19 DEF Substituted
<1>21. ASSUME NEW m \in Node \ M PROVE b.up[m] = t.up[m] /\ b.lr[m] = t.lr[m]
  <2>1. m # re /\ m # L /\ m # P /\ m # R /\ m # rest /\ m # p
    BY <1>1
  <2> QED BY <1>15, <1>17, <2>1
<1> QED BY <1>20, <1>21 DEF Moved

-----------------------------------------------------------------------------
(* Whichever way the node was taken out: a tree of the others, where one   *)
(* side of p is lower than p accounts for.                                 *)
Lowered(t, M, v, node, un, q, G) ==
    /\ Shape(un.tree, M \ {node}, un.tree.root, q)
    /\ Closed(M, v, q, node)
    /\ un.p \in (M \ {node}) \cup {NULL} /\ un.r \in Side
    /\ Heights(un.tree, M \ {node}, G, un.p)
    /\ un.p # NULL => Due(un.tree, G, un.p, un.r, -1)
    /\ \A m \in Node \ M : un.tree.up[m] = t.up[m] /\ un.tree.lr[m] = t.lr[m]

(* A node with one child at most ...                                       *)
LEMMA WithOneHolds ==
    ASSUME NEW t, NEW M, NEW v, NEW H, NEW w, w = t.root, Shape(t, M, w, v),
           NEW o, Ordered(o, M, v), Heights(t, M, H, NULL),
           NEW node \in M, t.lr[node][0] = NULL \/ t.lr[node][1] = NULL,
           NEW un, un = UnlinkWithOne(t, node)
    PROVE  \E q, G : Lowered(t, M, v, node, un, q, G)
<1>1. PICK p, c : p = t.up[node] /\ c = t.lr[node][Index(t.lr[node][1] # NULL)]
  OBVIOUS
<1>2. Lone(t, M, node, p, c)
  BY <1>1, LoneIs
<1>3. Excised(t, un.tree, node, p, c) /\ un.p = p /\ un.r = Index(p # NULL /\ t.lr[p][1] = node)
  BY <1>1, WithOneIs
<1>4. t \in Trees /\ v \in Views /\ M \subseteq Node /\ NULL \notin Node
  BY ShapeIs
<1>5. PICK q : Narrowed(v, q, node)
  <2>1. v.size > 0
    <3>1. v.pos[node] \in 1 .. v.size
      BY DEF Ordered
    <3>2. v.size \in Nat
      BY <1>4 DEF Views
    <3> QED BY <3>1, <3>2
  <2>2. node \in Node
    BY <1>4
  <2> QED BY <1>4, <2>1, <2>2, NarrowedExists
<1>6. Shape(un.tree, M \ {node}, un.tree.root, q)
  BY <1>2, <1>3, <1>5, ExcisedShape
<1>7. Closed(M, v, q, node)
  BY <1>4, <1>5 DEF Narrowed, Closed
<1>8. /\ Heights(un.tree, M \ {node}, H, p)
      /\ p # NULL => Due(un.tree, H, p, un.r, -1)
  BY <1>2, <1>3, ExcisedHeights
<1>9. p \in (M \ {node}) \cup {NULL} /\ c \in M \cup {NULL}
  BY <1>2 DEF Lone
<1>10. un.r \in Side
  BY <1>3 DEF Index, Side
<1>11. ASSUME NEW m \in Node \ M
       PROVE  un.tree.up[m] = t.up[m] /\ un.tree.lr[m] = t.lr[m]
  <2>1. m \in Node \ {c} /\ m \in Node \ {p}
    BY <1>4, <1>9
  <2> QED BY <1>3, <2>1 DEF Excised
<1> QED BY <1>3, <1>6, <1>7, <1>8, <1>9, <1>10, <1>11 DEF Lowered

(* ... and one with two.                                                   *)
LEMMA WithHeirHolds ==
    ASSUME NEW t, NEW M, NEW v, NEW H, NEW w, w = t.root, Shape(t, M, w, v),
           NEW o, Ordered(o, M, v), Heights(t, M, H, NULL),
           NEW node \in M, t.lr[node][0] # NULL, t.lr[node][1] # NULL,
           NEW un, un = Unlinked(t, node)
    PROVE  \E q, G : Lowered(t, M, v, node, un, q, G)
<1>1. PICK R, re : R = t.lr[node][1] /\ re = cavlFindExtremum(t, R, 0)
  OBVIOUS
<1>2. PICK P, p, L, rest : /\ P = t.up[node] /\ p = t.up[re] /\ L = t.lr[node][0]
                           /\ rest = t.lr[re][1]
  OBVIOUS
<1>3. Heir(t, M, node, re, P, p, L, R, rest) /\ v.pos[re] = v.pos[node] + 1
  <2>1. /\ R = t.lr[node][1] /\ re = cavlFindExtremum(t, R, 0)
        /\ P = t.up[node] /\ p = t.up[re] /\ L = t.lr[node][0] /\ rest = t.lr[re][1]
    BY <1>1, <1>2
  <2>2. HeirNext(t, M, v, node, re, P, p, L, R, rest)
    BY <2>1, HeirHolds
  <2> QED BY <2>2 DEF HeirNext
<1>4. /\ t \in Trees /\ v \in Views /\ M \in SUBSET Node /\ NULL \notin Node /\ NULL \notin M
      /\ node # re /\ re \in M /\ p \in M /\ t.lr[re][0] = NULL /\ rest \in M \cup {NULL}
      /\ IF p = node THEN R = re ELSE R # re /\ t.lr[p][0] = re /\ t.lr[p][1] # re
      /\ t.up[re] = p /\ t.lr[node][1] = R
  BY <1>3, ShapeIs DEF Heir
<1>5. rest = t.lr[re][Index(t.lr[re][1] # NULL)]
  BY <1>2, <1>4 DEF Index
<1>6. Lone(t, M, re, p, rest)
  BY <1>2, <1>4, <1>5, LoneIs
<1>7. PICK a : Excised(t, a, re, p, rest)
  <2>1. PICK u : u = UnlinkWithOne(t, re)
    OBVIOUS
  <2>2. Excised(t, u.tree, re, p, rest)
    BY <1>2, <1>4, <1>5, <2>1, WithOneIs
  <2> QED BY <2>2
<1>8. PICK q1 : Narrowed(v, q1, re)
  <2>1. v.size > 0
    <3>1. v.pos[node] \in 1 .. v.size
      BY DEF Ordered
    <3>2. v.size \in Nat
      BY <1>4 DEF Views
    <3> QED BY <3>1, <3>2
  <2> QED BY <1>4, <2>1, NarrowedExists
<1> DEFINE K == M \ {re}
<1>9. Shape(a, K, a.root, q1)
  BY <1>4, <1>6, <1>7, <1>8, ExcisedShape
<1>10. PICK r : r = Index(p # NULL /\ t.lr[p][1] = re)
  OBVIOUS
<1>11. Heights(a, K, H, p) /\ Due(a, H, p, r, -1)
  <2>1. p # NULL
    BY <1>4
  <2> QED BY <1>4, <1>6, <1>7, <1>10, <2>1, ExcisedHeights
<1>12. /\ un.p = IF p = node THEN re ELSE p
       /\ un.r = r /\ r \in Side
       /\ Substituted(a, un.tree, K, node, re)
       /\ \A m \in Node \ M : un.tree.up[m] = t.up[m] /\ un.tree.lr[m] = t.lr[m]
  <2>1. CASE p = node
    <3>1. un = UnlinkBeforeChild(t, node, re)
      BY <1>1, <1>4, <2>1, Zenon DEF Unlinked
    <3>2. un.p = re /\ un.r = 1
      BY <3>1 DEF UnlinkBeforeChild
    <3>3. r = 1
      BY <1>4, <1>10, <2>1 DEF Index
    <3>4. /\ Substituted(a, un.tree, K, node, re)
          /\ \A m \in Node \ M : un.tree.up[m] = t.up[m] /\ un.tree.lr[m] = t.lr[m]
      <4>1. Heir(t, M, node, re, P, p, L, R, rest)
        BY <1>3
      <4>2. NULL \notin Node
        BY <1>4
      <4>3. PICK b : b = UnlinkBeforeChild(t, node, re).tree
        OBVIOUS
      <4>4. Moved(t, a, b, M, node, re)
        BY <1>7, <2>1, <4>1, <4>2, <4>3, ChildSubstituted
      <4>5. un.tree = b
        BY <3>1, <4>3
      <4> QED BY <4>4, <4>5 DEF Moved
    <3> QED BY <2>1, <3>2, <3>3, <3>4 DEF Side
  <2>2. CASE p # node
    <3>1. un = UnlinkBeforeDistant(t, node, re)
      BY <1>1, <1>4, <2>2, Zenon DEF Unlinked
    <3>2. un.p = p /\ un.r = 0
      BY <1>4, <3>1, SMTT(30) DEF UnlinkBeforeDistant
    <3>3. r = 0
      BY <1>4, <1>10, <2>2 DEF Index
    <3>4. /\ Substituted(a, un.tree, K, node, re)
          /\ \A m \in Node \ M : un.tree.up[m] = t.up[m] /\ un.tree.lr[m] = t.lr[m]
      <4>1. Heir(t, M, node, re, P, p, L, R, rest)
        BY <1>3
      <4>2. NULL \notin Node
        BY <1>4
      <4>3. PICK b : b = UnlinkBeforeDistant(t, node, re).tree
        OBVIOUS
      <4>4. Moved(t, a, b, M, node, re)
        BY <1>7, <2>2, <4>1, <4>2, <4>3, DistantSubstituted
      <4>5. un.tree = b
        BY <3>1, <4>3
      <4> QED BY <4>4, <4>5 DEF Moved
    <3> QED BY <2>2, <3>2, <3>3, <3>4 DEF Side
  <2> QED BY <2>1, <2>2
<1>13. PICK q : Renamed(q1, q, node, re)
  <2>1. q1 \in Views /\ node \in Node /\ re \in Node
    BY <1>4, <1>8 DEF Narrowed
  <2> QED BY <2>1, RenamedExists
<1>14. node \in K /\ re \in Node \ K /\ (K \ {node}) \cup {re} = M \ {node} /\ p \in K
  BY <1>4, <1>6 DEF Lone
<1>15. Shape(un.tree, M \ {node}, un.tree.root, q)
  <2>1. Shape(un.tree, (K \ {node}) \cup {re}, un.tree.root, q)
    <3> HIDE DEF K
    <3> QED BY <1>9, <1>12, <1>13, <1>14, SubstitutedShape
  <2> QED BY <1>14, <2>1
<1>16. PICK G : Heights(un.tree, M \ {node}, G, un.p) /\ Due(un.tree, G, un.p, un.r, -1)
  <2>1. \E G : /\ Heights(un.tree, (K \ {node}) \cup {re}, G, un.p)
               /\ p \in K /\ Due(a, H, p, r, -1) => Due(un.tree, G, un.p, r, -1)
    <3> HIDE DEF K
    <3> QED BY <1>9, <1>11, <1>12, <1>14, SubstitutedHeights
  <2> QED BY <1>11, <1>12, <1>14, <2>1
<1>17. Closed(M, v, q, node)
  <2>1. /\ q \in Views /\ q.size = q1.size /\ q1.size = v.size - 1 /\ q.pos[re] = q1.pos[node]
        /\ \A m \in Node \ {re} : q.pos[m] = q1.pos[m]
        /\ \A m \in Node : q1.pos[m] = IF v.pos[m] > v.pos[re] THEN v.pos[m] - 1 ELSE v.pos[m]
    BY <1>8, <1>13 DEF Renamed, Narrowed
  <2>2. \A m \in Node : v.pos[m] \in Int
    BY <1>4 DEF Views
  <2>3. ASSUME NEW m \in M \ {node}
        PROVE  q.pos[m] = IF v.pos[m] > v.pos[node] THEN v.pos[m] - 1 ELSE v.pos[m]
    <3>1. CASE m = re
      BY <1>3, <1>4, <2>1, <2>2, <3>1
    <3>2. CASE m # re
      <4>1. v.pos[m] # v.pos[re] /\ m \in Node
        BY <1>4, <3>2, OrderedApart
      <4> QED BY <1>3, <1>4, <2>1, <2>2, <3>2, <4>1
    <3> QED BY <3>1, <3>2
  <2> QED BY <2>1, <2>3 DEF Closed
<1>18. un.p \in (M \ {node}) \cup {NULL}
  BY <1>4, <1>12
<1> QED BY <1>12, <1>15, <1>16, <1>17, <1>18 DEF Lowered

(* A removal leaves a sound tree of the others, in the order they had.     *)
LEMMA RemoveHolds ==
    ASSUME NEW t, NEW M, NEW v, NEW H, NEW o, Sound(t, M, v, H, o), NEW node \in M,
           NEW i, i = v.pos[node], NEW u, u = Removed(t, node)
    PROVE  \E q, G : Sound(u, M \ {node}, q, G, Sorted!RemoveAt(o, i))
<1>1. /\ Shape(t, M, t.root, v) /\ Heights(t, M, H, NULL) /\ Ordered(o, M, v)
      /\ Ascending(M, v) /\ Away(t, M)
  BY Zenon DEF Sound
<1>2. v \in Views /\ M \in SUBSET Node /\ NULL \notin Node /\ NULL \notin M
  BY <1>1, ShapeIs
<1>3. PICK un : un = Unlinked(t, node)
  OBVIOUS
<1> DEFINE K == M \ {node}
<1>4. PICK q, G : Lowered(t, M, v, node, un, q, G)
  <2>1. CASE t.lr[node][0] = NULL \/ t.lr[node][1] = NULL
    <3>1. un = UnlinkWithOne(t, node)
      BY <1>3, <2>1, Zenon DEF Unlinked
    <3> QED BY <1>1, <2>1, <3>1, WithOneHolds
  <2>2. CASE t.lr[node][0] # NULL /\ t.lr[node][1] # NULL
    BY <1>1, <1>3, <2>2, WithHeirHolds
  <2> QED BY <2>1, <2>2
<1>5. /\ Shape(un.tree, K, un.tree.root, q) /\ Closed(M, v, q, node)
      /\ un.p \in K \cup {NULL} /\ un.r \in Side
      /\ Heights(un.tree, K, G, un.p)
      /\ un.p # NULL => Due(un.tree, G, un.p, un.r, -1)
      /\ \A m \in Node \ M : un.tree.up[m] = t.up[m] /\ un.tree.lr[m] = t.lr[m]
  BY <1>4 DEF Lowered
<1>6. PICK c : c = Sorted!RemoveAt(o, i)
  OBVIOUS
<1>7. Ordered(c, K, q) /\ Ascending(K, q)
  <2>1. Ascending(K, q)
    BY <1>1, <1>2, <1>5, ClosedAscending
  <2>2. Ordered(c, K, q)
    BY <1>1, <1>2, <1>5, <1>6, ClosedOrder
  <2> QED BY <2>1, <2>2
<1>8. PICK a : a = IF un.p = NULL THEN un.tree ELSE Retrace(un.tree, un.p, un.r, -1)
  OBVIOUS
<1>9. PICK qq, GG : /\ Shape(a, K, a.root, qq) /\ Heights(a, K, GG, NULL)
                    /\ qq.size = q.size /\ qq.pos = q.pos
                    /\ SameOutside(un.tree, a, K)
  <2>1. CASE un.p = NULL
    BY <1>5, <1>8, <2>1 DEF SameOutside
  <2>2. CASE un.p # NULL
    <3>1. a = Retrace(un.tree, un.p, un.r, -1)
      BY <1>8, <2>2
    <3>2. PICK d \in {-1, 1} : d = -1
      OBVIOUS
    <3>3. Retracing([tree |-> un.tree, p |-> un.p, r |-> un.r], K, d, q, G)
      <4>1. un.tree \in Trees /\ un.p \in Link
        BY <1>2, <1>5 DEF Shape, Link
      <4> HIDE DEF K
      <4> QED BY <1>5, <3>2, <4>1 DEF Retracing
    <3>4. q.size <= Cardinality(Node)
      BY <1>7, OrderedSize
    <3> HIDE DEF K
    <3> QED BY <2>2, <3>1, <3>2, <3>3, <3>4, RetraceHolds
  <2> QED BY <2>1, <2>2
<1>10. u = Forgotten(a, node)
  BY <1>3, <1>8, Zenon DEF Removed
<1>11. a \in Trees /\ node \in Node
  BY <1>2, <1>9 DEF Shape
<1>12. /\ u \in Trees /\ u.root = a.root /\ u.up[node] = NULL
       /\ \A s \in Side : u.lr[node][s] = NULL
       /\ \A m \in Node \ {node} : u.lr[m] = a.lr[m] /\ u.up[m] = a.up[m] /\ u.bf[m] = a.bf[m]
  <2>1. PICK f : f = Blanked(a, node)
    OBVIOUS
  <2>2. /\ f \in Trees /\ f.root = a.root /\ f.up = a.up /\ f.bf[node] = 0
        /\ \A s \in Side : f.lr[node][s] = NULL
        /\ \A m \in Node \ {node} : f.lr[m] = a.lr[m] /\ f.bf[m] = a.bf[m]
    BY <1>11, <2>1, BlankedIs
  <2>3. u = [f EXCEPT !.up[node] = NULL]
    <3>1. PICK none : none = [r \in Side |-> NULL]
      OBVIOUS
    <3>2. f = [a EXCEPT !.lr[node] = none, !.bf[node] = 0]
      BY <2>1, <3>1, Zenon DEF Blanked
    <3>3. u = [a EXCEPT !.lr[node] = none, !.up[node] = NULL, !.bf[node] = 0]
      BY <1>10, <3>1, Zenon DEF Forgotten
    <3>4. a = [root |-> a.root, lr |-> a.lr, up |-> a.up, bf |-> a.bf]
      BY <1>11 DEF Trees
    <3> QED BY <3>2, <3>3, <3>4
  <2>4. /\ f.lr \in [Node -> [Side -> Link]] /\ f.up \in [Node -> Link]
        /\ f.bf \in [Node -> -1 .. 1] /\ f.root \in Link
        /\ f = [root |-> f.root, lr |-> f.lr, up |-> f.up, bf |-> f.bf]
    BY <2>2 DEF Trees
  <2>5. PICK up : up = [f.up EXCEPT ![node] = NULL]
    OBVIOUS
  <2>6. u.root = f.root /\ u.lr = f.lr /\ u.up = up /\ u.bf = f.bf
    BY <2>3, <2>4, <2>5
  <2>7. u = [root |-> f.root, lr |-> f.lr, up |-> up, bf |-> f.bf]
    BY <2>3, <2>4, <2>5
  <2>8. /\ up \in [Node -> Link] /\ up[node] = NULL
        /\ \A m \in Node \ {node} : up[m] = f.up[m]
    BY <1>11, <2>4, <2>5 DEF Link
  <2>9. u \in Trees
    BY <2>4, <2>7, <2>8 DEF Trees
  <2> QED BY <2>2, <2>6, <2>8, <2>9
<1>13. Away(u, K)
  <2>1. ASSUME NEW m \in Node \ K PROVE u.up[m] = NULL /\ \A s \in Side : u.lr[m][s] = NULL
    <3>1. CASE m = node
      BY <1>12, <3>1
    <3>2. CASE m # node
      <4>1. m \in Node \ M
        BY <3>2
      <4>2. u.lr[m] = a.lr[m] /\ u.up[m] = a.up[m]
        BY <1>12, <3>2
      <4>3. a.lr[m] = un.tree.lr[m] /\ a.up[m] = un.tree.up[m]
        BY <1>9 DEF SameOutside
      <4> QED BY <1>1, <1>5, <4>1, <4>2, <4>3 DEF Away
    <3> QED BY <3>1, <3>2
  <2> QED BY <2>1 DEF Away
<1>14. \A m \in K : u.lr[m] = a.lr[m] /\ u.up[m] = a.up[m] /\ u.bf[m] = a.bf[m]
  BY <1>2, <1>12
<1>15. Shape(u, K, u.root, qq)
  <2>1. Linked(a, K, a.root) /\ Spanned(a, K, a.root, qq)
    BY <1>9, Zenon DEF Shape
  <2> HIDE DEF K
  <2>2. Linked(u, K, u.root)
    BY <1>12, <1>14, <2>1 DEF Linked
  <2>3. Spanned(u, K, u.root, qq)
    BY <1>12, <1>14, <2>1 DEF Spanned
  <2> QED BY <1>9, <1>12, <2>2, <2>3 DEF Shape
<1>16. Heights(u, K, GG, NULL)
  BY <1>9, <1>14 DEF Heights, Level
<1>17. Ordered(c, K, qq) /\ Ascending(K, qq)
  BY <1>7, <1>9 DEF Ordered, Ascending
<1>18. Sound(u, K, qq, GG, c)
  BY <1>13, <1>15, <1>16, <1>17, Zenon DEF Sound
<1> QED BY <1>6, <1>18

-----------------------------------------------------------------------------
(* What holds of a subtree when it holds of both its sides holds of all.   *)
LEMMA BottomUp ==
    ASSUME NEW t, NEW M, NEW v, NEW H, NEW o, Sound(t, M, v, H, o), NEW S, NULL \in S,
           \A n \in M : t.lr[n][0] \in S /\ t.lr[n][1] \in S => n \in S
    PROVE  M \subseteq S
<1>1. /\ Shape(t, M, t.root, v) /\ Heights(t, M, H, NULL)
  BY Zenon DEF Sound
<1>2. /\ M \subseteq Link /\ NULL \notin M /\ H \in [Link -> Nat] /\ H[NULL] = 0
      /\ \A n \in M : t.lr[n][0] \in M \cup {NULL} /\ t.lr[n][1] \in M \cup {NULL}
  BY <1>1, ShapeIs DEF Heights, Link
<1>3. \A n \in M : H[n] = 1 + Higher(H[t.lr[n][0]], H[t.lr[n][1]])
  BY <1>1, <1>2 DEF Heights, Level
<1> DEFINE T == {H[n] : n \in M \ S}
<1>4. SUFFICES ASSUME T # {} PROVE FALSE
  OBVIOUS
<1>5. PICK x \in T : \A y \in T : x <= y
  <2>1. T \in SUBSET Nat
    BY <1>2
  <2> HIDE DEF T
  <2> QED BY <1>4, <2>1, LeastNatural
<1>6. PICK n \in M \ S : x = H[n]
  OBVIOUS
<1>7. ASSUME NEW c \in M \cup {NULL}, H[c] < H[n] PROVE c \in S
  <2>1. SUFFICES ASSUME c \in M \ S PROVE FALSE
    OBVIOUS
  <2>2. H[c] \in T
    BY <2>1
  <2>3. H[n] <= H[c]
    BY <1>5, <1>6, <2>2
  <2>4. H[c] \in Nat /\ H[n] \in Nat
    BY <1>2
  <2> QED BY <1>7, <2>3, <2>4
<1>8. PICK l, r : l = t.lr[n][0] /\ r = t.lr[n][1]
  OBVIOUS
<1>9. l \in M \cup {NULL} /\ r \in M \cup {NULL} /\ H[n] = 1 + Higher(H[l], H[r])
  BY <1>2, <1>3, <1>6, <1>8
<1>10. H[l] \in Nat /\ H[r] \in Nat
  BY <1>2, <1>9 DEF Link
<1>11. H[l] < H[n] /\ H[r] < H[n]
  BY <1>9, <1>10 DEF Higher
<1>12. l \in S /\ r \in S
  BY <1>7, <1>9, <1>11
<1> QED BY <1>6, <1>8, <1>12

(* The height of the model and of the proof.                               *)
HeightStep(t, h) ==
    [n \in Link |-> IF n = NULL THEN 0
                    ELSE LET left  == h[t.lr[n][0]]
                             right == h[t.lr[n][1]]
                         IN  1 + (IF left > right THEN left ELSE right)]

(* The heights of the model are those of the proof.                        *)
LEMMA HeightIs ==
    ASSUME NEW t, NEW M, NEW v, NEW H, NEW o, Sound(t, M, v, H, o), NEW h, h = Height(t)
    PROVE  h[NULL] = 0 /\ \A n \in M : h[n] = H[n]
<1>1. /\ Shape(t, M, t.root, v) /\ Heights(t, M, H, NULL) /\ Away(t, M)
  BY Zenon DEF Sound
<1>2. /\ M \subseteq Node /\ NULL \notin Node /\ H \in [Link -> Nat] /\ H[NULL] = 0
      /\ \A n \in M : t.lr[n][0] \in M \cup {NULL} /\ t.lr[n][1] \in M \cup {NULL}
  BY <1>1, ShapeIs DEF Heights
<1>3. \A n \in M : H[n] = 1 + Higher(H[t.lr[n][0]], H[t.lr[n][1]])
  BY <1>1, <1>2 DEF Heights, Level
<1>4. \A n \in Node \ M : t.lr[n][0] = NULL /\ t.lr[n][1] = NULL
  BY <1>1 DEF Away, Side
<1> DEFINE g == [n \in Link |-> IF n \in M \cup {NULL} THEN H[n] ELSE 1]
<1>5. g = HeightStep(t, g)
  <2>1. ASSUME NEW n \in Link PROVE g[n] = HeightStep(t, g)[n]
    <3>1. CASE n = NULL
      BY <1>2, <3>1 DEF HeightStep, Link
    <3>2. CASE n \in M
      <4>1. n # NULL /\ g[t.lr[n][0]] = H[t.lr[n][0]] /\ g[t.lr[n][1]] = H[t.lr[n][1]]
        BY <1>2, <3>2 DEF Link
      <4> QED BY <1>3, <3>2, <4>1 DEF HeightStep, Higher
    <3>3. CASE n \in Node \ M
      <4>1. t.lr[n][0] = NULL /\ t.lr[n][1] = NULL /\ g[NULL] = 0 /\ n # NULL
        BY <1>2, <1>4, <3>3 DEF Link
      <4> QED BY <3>3, <4>1 DEF HeightStep
    <3> QED BY <3>1, <3>2, <3>3 DEF Link
  <2> QED BY <2>1 DEF HeightStep
<1>6. h = HeightStep(t, h)
  <2>1. \E k : k = HeightStep(t, k)
    BY <1>5
  <2>2. h = CHOOSE k : k = HeightStep(t, k)
    BY Zenon DEF Height, HeightStep
  <2> QED BY <2>1, <2>2, Zenon
<1>7. h[NULL] = 0
  BY <1>6 DEF HeightStep, Link
<1> DEFINE S == {n \in M \cup {NULL} : h[n] = H[n]}
<1>8. ASSUME NEW n \in M, t.lr[n][0] \in S, t.lr[n][1] \in S PROVE n \in S
  <2>1. h[t.lr[n][0]] = H[t.lr[n][0]] /\ h[t.lr[n][1]] = H[t.lr[n][1]] /\ n # NULL /\ n \in Link
    BY <1>2, <1>8 DEF Link
  <2>2. h[n] = 1 + (IF h[t.lr[n][0]] > h[t.lr[n][1]] THEN h[t.lr[n][0]] ELSE h[t.lr[n][1]])
    BY <1>6, <2>1, Zenon DEF HeightStep
  <2> QED BY <1>3, <2>1, <2>2 DEF Higher
<1>9. M \subseteq S
  <2>1. NULL \in S
    BY <1>2, <1>7
  <2> HIDE DEF S
  <2> QED BY <1>8, <2>1, BottomUp
<1> QED BY <1>7, <1>9

(* The order of the model and of the proof.                                *)
Stretch(o, i, j) == SubSeq(o, i, j)

Taken(S, o, i, j, x) ==
    x \in Seq(S) /\ Len(x) = j - i + 1 /\ \A k \in 1 .. j - i + 1 : x[k] = o[i + k - 1]

LEMMA TakenIs ==
    ASSUME NEW S, NEW o, o \in Seq(S), NEW i \in Int, NEW j \in Int,
           1 <= i, i <= j + 1, j <= Len(o), NEW x, x = Stretch(o, i, j)
    PROVE  Taken(S, o, i, j, x)
<1>1. Len(o) \in Nat /\ \A k \in 1 .. Len(o) : o[k] \in S
  OBVIOUS
<1>2. \A k \in i .. j : o[k] \in S
  BY <1>1
<1>3. /\ x \in Seq(S) /\ Len(x) = (IF i <= j THEN j - i + 1 ELSE 0)
      /\ \A k \in 1 .. j - i + 1 : x[k] = o[i + k - 1]
  BY <1>2, SubSeqProperties DEF Stretch
<1>4. Len(x) = j - i + 1
  BY <1>3
<1> QED BY <1>3, <1>4 DEF Taken

Adjoined(S, x, y, p, q, c) ==
    c \in Seq(S) /\ Len(c) = p + q /\ \A k \in 1 .. p + q : c[k] = IF k <= p THEN x[k] ELSE y[k - p]

LEMMA AdjoinedIs ==
    ASSUME NEW S, NEW x, x \in Seq(S), NEW y, y \in Seq(S), NEW p, p = Len(x), NEW q, q = Len(y),
           NEW c, c = x \o y
    PROVE  Adjoined(S, x, y, p, q, c)
BY ConcatProperties, Zenon DEF Adjoined

(* The part of o from lo to hi, around the node n in place i.              *)
Around(o, lo, a, i, b, hi, n) ==
    Stretch(o, lo, a) \o <<n>> \o Stretch(o, b, hi) = Stretch(o, lo, hi)

LEMMA AroundIs ==
    ASSUME NEW o, o \in Seq(Node), NEW i \in Int, NEW a, a = i - 1, NEW b, b = i + 1,
           NEW lo \in Int, NEW hi \in Int, 1 <= lo, lo <= i, i <= hi, hi <= Len(o),
           NEW n, n = o[i]
    PROVE  Around(o, lo, a, i, b, hi, n)
<1>1. PICK x, y, z : x = Stretch(o, lo, a) /\ y = Stretch(o, b, hi) /\ z = Stretch(o, lo, hi)
  OBVIOUS
<1>2. a \in Int /\ b \in Int /\ Len(o) \in Nat /\ n \in Node
  OBVIOUS
<1>3. PICK S : S = Node
  OBVIOUS
<1>4. Taken(S, o, lo, a, x)
  BY <1>1, <1>2, <1>3, TakenIs
<1>5. Taken(S, o, b, hi, y)
  BY <1>1, <1>2, <1>3, TakenIs
<1>6. Taken(S, o, lo, hi, z)
  BY <1>1, <1>2, <1>3, TakenIs
<1>7. PICK p, q, r : p = i - lo /\ q = hi - i /\ r = hi - lo + 1
  OBVIOUS
<1>8. p \in Nat /\ q \in Nat /\ r \in Nat /\ r = p + 1 + q
  BY <1>2, <1>7
<1>9. /\ x \in Seq(S) /\ Len(x) = p /\ \A k \in 1 .. p : x[k] = o[lo + k - 1]
      /\ y \in Seq(S) /\ Len(y) = q /\ \A k \in 1 .. q : y[k] = o[i + k]
      /\ z \in Seq(S) /\ Len(z) = r /\ \A k \in 1 .. r : z[k] = o[lo + k - 1]
  <2>1. a - lo + 1 = p /\ hi - b + 1 = q /\ hi - lo + 1 = r
    BY <1>2, <1>7
  <2>2. ASSUME NEW k \in 1 .. q PROVE y[k] = o[i + k]
    <3>1. b + k - 1 = i + k
      BY <1>8
    <3> QED BY <1>5, <2>1, <3>1 DEF Taken
  <2> QED BY <1>4, <1>5, <1>6, <2>1, <2>2 DEF Taken
<1>10. PICK d : d = x \o <<n>>
  OBVIOUS
<1>11. d \in Seq(S) /\ Len(d) = p + 1 /\ d[p + 1] = n /\ \A k \in 1 .. p : d[k] = x[k]
  <2>1. PICK e, j : e = <<n>> /\ j = 1
    OBVIOUS
  <2>2. e \in Seq(S) /\ j = Len(e) /\ e[1] = n /\ d = x \o e /\ p = Len(x)
    BY <1>2, <1>3, <1>9, <1>10, <2>1
  <2>3. Adjoined(S, x, e, p, j, d)
    BY <1>9, <2>2, AdjoinedIs
  <2>4. /\ d \in Seq(S) /\ Len(d) = p + 1
        /\ \A k \in 1 .. p + 1 : d[k] = IF k <= p THEN x[k] ELSE e[k - p]
    BY <2>1, <2>3 DEF Adjoined
  <2>5. p + 1 \in 1 .. p + 1 /\ ~(p + 1 <= p) /\ (p + 1) - p = 1
    BY <1>8
  <2> QED BY <1>8, <2>2, <2>4, <2>5
<1>12. PICK c : c = d \o y
  OBVIOUS
<1>13. /\ c \in Seq(S) /\ Len(c) = p + 1 + q
       /\ \A k \in 1 .. p + 1 + q : c[k] = IF k <= p + 1 THEN d[k] ELSE y[k - (p + 1)]
  <2>1. PICK j : j = p + 1
    OBVIOUS
  <2>2. Adjoined(S, d, y, j, q, c)
    BY <1>9, <1>11, <1>12, <2>1, AdjoinedIs
  <2> QED BY <2>1, <2>2 DEF Adjoined
<1>14. ASSUME NEW k \in 1 .. r PROVE c[k] = z[k]
  <2>1. z[k] = o[lo + k - 1]
    BY <1>9
  <2>2. CASE k <= p
    <3>0. k \in 1 .. p /\ k \in 1 .. p + 1 + q /\ k <= p + 1
      BY <1>8, <2>2
    <3>1. c[k] = x[k] /\ x[k] = o[lo + k - 1]
      BY <1>9, <1>11, <1>13, <3>0
    <3> QED BY <2>1, <3>1
  <2>3. CASE k = p + 1
    <3>1. c[k] = n
      BY <1>8, <1>11, <1>13, <2>3
    <3>2. lo + k - 1 = i
      BY <1>7, <2>3
    <3> QED BY <2>1, <3>1, <3>2
  <2>4. CASE k > p + 1
    <3>1. PICK m : m = k - (p + 1)
      OBVIOUS
    <3>2. m \in 1 .. q /\ i + m = lo + k - 1
      BY <1>7, <1>8, <2>4, <3>1
    <3>3. c[k] = y[m]
      BY <1>8, <1>13, <2>4, <3>1
    <3>4. y[m] = o[i + m]
      BY <1>9, <3>2
    <3> QED BY <2>1, <3>2, <3>3, <3>4
  <2> QED BY <1>8, <2>2, <2>3, <2>4
<1>15. c = z
  BY <1>8, <1>9, <1>13, <1>14, SeqEqual
<1> QED BY <1>1, <1>10, <1>12, <1>15 DEF Around

WalkStep(t, walk) ==
    [n \in Link |-> IF n = NULL THEN <<>>
                    ELSE walk[t.lr[n][0]] \o <<n>> \o walk[t.lr[n][1]]]

(* The order of the model is that of the proof.                            *)
LEMMA InOrderIs ==
    ASSUME NEW t, NEW M, NEW v, NEW H, NEW o, Sound(t, M, v, H, o)
    PROVE  InOrder(t) = o
<1>1. Shape(t, M, t.root, v) /\ Ordered(o, M, v) /\ Away(t, M)
  BY Zenon DEF Sound
<1>2. /\ M \subseteq Node /\ NULL \notin Node /\ v \in Views
      /\ \A n \in M : /\ t.lr[n][0] \in M \cup {NULL} /\ t.lr[n][1] \in M \cup {NULL}
                      /\ v.lo[n] \in Int /\ v.hi[n] \in Int /\ v.pos[n] \in Int
                      /\ v.lo[n] <= v.pos[n] /\ v.pos[n] <= v.hi[n]
                      /\ 1 <= v.lo[n] /\ v.hi[n] <= v.size
      /\ t.root \in M \cup {NULL} /\ (M # {} => t.root \in M)
  <2>1. t.root \in M \cup {NULL}
    <3>1. Linked(t, M, t.root)
      BY <1>1 DEF Shape
    <3> QED BY <3>1 DEF Linked
  <2> QED BY <1>1, <2>1, ShapeIs
<1>3. \A n \in Node \ M : t.lr[n][0] = NULL /\ t.lr[n][1] = NULL
  BY <1>1 DEF Away, Side
<1> DEFINE Part(n) == Stretch(o, v.lo[n], v.hi[n])
           Piece(n) == IF n = NULL THEN <<>> ELSE Part(n)
<1>4. ASSUME NEW n \in M, NEW l, l = t.lr[n][0], NEW r, r = t.lr[n][1]
      PROVE  Piece(l) \o <<n>> \o Piece(r) = Part(n)
  <2>1. PICK i, a, b, x, y : i = v.pos[n] /\ a = i - 1 /\ b = i + 1 /\ x = v.lo[n] /\ y = v.hi[n]
    OBVIOUS
  <2>2. /\ o \in Seq(Node) /\ i \in 1 .. Len(o) /\ n = o[i] /\ Len(o) = v.size
    BY <1>1, <2>1 DEF Ordered
  <2>3. i \in Int /\ x \in Int /\ y \in Int /\ 1 <= x /\ x <= i /\ i <= y /\ y <= Len(o)
    BY <1>2, <2>1, <2>2
  <2>4. Around(o, x, a, i, b, y, n)
    <3> HIDE DEF Part, Piece
    <3> QED BY <2>1, <2>2, <2>3, AroundIs
  <2>5. /\ IF l = NULL THEN x = i ELSE v.lo[l] = x /\ v.hi[l] = a
        /\ IF r = NULL THEN y = i ELSE v.lo[r] = b /\ v.hi[r] = y
    <3>1. Spanned(t, M, t.root, v)
      BY <1>1, Zenon DEF Shape
    <3> HIDE DEF Part, Piece
    <3> QED BY <1>4, <2>1, <3>1 DEF Spanned
  <2>6. Piece(l) = Stretch(o, x, a)
    <3>1. CASE l = NULL
      <4>1. Stretch(o, x, a) = <<>>
        BY <2>1, <2>3, <2>5, <3>1, SubSeqEmpty, SMTT(30) DEF Stretch
      <4> QED BY <3>1, <4>1
    <3>2. CASE l # NULL
      BY <2>5, <3>2
    <3> QED BY <3>1, <3>2
  <2>7. Piece(r) = Stretch(o, b, y)
    <3>1. CASE r = NULL
      <4>1. Stretch(o, b, y) = <<>>
        BY <2>1, <2>3, <2>5, <3>1, SubSeqEmpty, SMTT(30) DEF Stretch
      <4> QED BY <3>1, <4>1
    <3>2. CASE r # NULL
      BY <2>5, <3>2
    <3> QED BY <3>1, <3>2
  <2> QED BY <2>1, <2>4, <2>6, <2>7, Zenon DEF Around
<1>5. Piece(NULL) = <<>> /\ \A n \in M : Piece(n) = Part(n)
  BY <1>2
<1> HIDE DEF Part, Piece
<1> DEFINE g == [n \in Link |-> IF n \in M \cup {NULL} THEN Piece(n) ELSE <<n>>]
<1>6. g = WalkStep(t, g)
  <2>1. ASSUME NEW n \in Link PROVE g[n] = WalkStep(t, g)[n]
    <3>0. PICK l, r : l = t.lr[n][0] /\ r = t.lr[n][1]
      OBVIOUS
    <3>1. CASE n = NULL
      BY <1>5, <3>1 DEF WalkStep
    <3>2. CASE n \in M
      <4>1. n # NULL /\ g[n] = Piece(n) /\ g[l] = Piece(l) /\ g[r] = Piece(r)
        BY <1>2, <3>0, <3>2, ZenonT(30) DEF Link
      <4>2. WalkStep(t, g)[n] = g[l] \o <<n>> \o g[r]
        <5> HIDE DEF g
        <5> QED BY <3>0, <4>1, ZenonT(40) DEF WalkStep
      <4> HIDE DEF g
      <4>3. Piece(l) \o <<n>> \o Piece(r) = Part(n)
        BY <1>4, <3>0, <3>2
      <4> QED BY <1>5, <3>2, <4>1, <4>2, <4>3
    <3>3. CASE n \in Node \ M
      <4>1. l = NULL /\ r = NULL /\ g[NULL] = <<>> /\ n # NULL /\ g[n] = <<n>>
        BY <1>2, <1>3, <1>5, <3>0, <3>3 DEF Link
      <4>2. WalkStep(t, g)[n] = g[l] \o <<n>> \o g[r]
        <5> HIDE DEF g
        <5> QED BY <3>0, <4>1 DEF WalkStep
      <4> HIDE DEF g
      <4> QED BY <4>1, <4>2
    <3> QED BY <3>1, <3>2, <3>3 DEF Link
  <2>2. g = [n \in Link |-> g[n]]
    OBVIOUS
  <2> HIDE DEF g
  <2> QED BY <2>1, <2>2, ZenonT(40) DEF WalkStep
<1> HIDE DEF g
<1>7. PICK h : h = CHOOSE k : k = WalkStep(t, k)
  OBVIOUS
<1>8. h = WalkStep(t, h)
  BY <1>6, <1>7, Zenon
<1>9. InOrder(t) = h[t.root]
  BY <1>7, Zenon DEF InOrder, WalkStep
<1>10. h[NULL] = <<>>
  BY <1>8 DEF WalkStep, Link
<1> DEFINE S == {n \in M \cup {NULL} : h[n] = Piece(n)}
<1>11. ASSUME NEW n \in M, t.lr[n][0] \in S, t.lr[n][1] \in S PROVE n \in S
  <2>1. PICK l, r : l = t.lr[n][0] /\ r = t.lr[n][1]
    OBVIOUS
  <2>2. h[l] = Piece(l) /\ h[r] = Piece(r) /\ n # NULL /\ n \in Link
    BY <1>2, <1>11, <2>1 DEF Link
  <2>3. h[n] = h[l] \o <<n>> \o h[r]
    BY <1>8, <2>1, <2>2, Zenon DEF WalkStep
  <2>4. Piece(l) \o <<n>> \o Piece(r) = Part(n)
    BY <1>4, <2>1
  <2> QED BY <1>5, <2>2, <2>3, <2>4
<1>12. M \subseteq S
  <2>1. NULL \in S
    BY <1>5, <1>10
  <2> HIDE DEF S
  <2> QED BY <1>11, <2>1, BottomUp
<1>13. o \in Seq(Node) /\ Len(o) = v.size
  BY <1>1 DEF Ordered
<1>14. CASE t.root = NULL
  <2>1. M = {}
    BY <1>2, <1>14
  <2>2. v.size = 0
    <3>1. v.size \in Nat
      BY <1>2 DEF Views
    <3>2. \A i \in 1 .. v.size : o[i] \in M
      BY <1>1 DEF Ordered
    <3>3. v.size # 0 => 1 \in 1 .. v.size
      BY <3>1
    <3> QED BY <2>1, <3>2, <3>3
  <2> QED BY <1>9, <1>10, <1>13, <1>14, <2>2
<1>15. CASE t.root # NULL
  <2>1. t.root \in M
    BY <1>2, <1>15
  <2>2. v.lo[t.root] = 1 /\ v.hi[t.root] = v.size
    <3>1. Spanned(t, M, t.root, v)
      BY <1>1, Zenon DEF Shape
    <3> QED BY <1>15, <3>1, Zenon DEF Spanned
  <2>3. h[t.root] = Stretch(o, 1, v.size)
    BY <1>5, <1>12, <2>1, <2>2 DEF Part
  <2>4. Stretch(o, 1, v.size) = o
    BY <1>13 DEF Stretch
  <2> QED BY <1>9, <2>3, <2>4
<1> QED BY <1>14, <1>15

-----------------------------------------------------------------------------
(* The answers.                                                            *)

Located(M, k, f) ==
    IF \E m \in M : KeyOf[m] = k THEN f \in M /\ KeyOf[f] = k ELSE f = NULL

(* The search looks where the key must be, if a node has it.               *)
LEMMA FoundHolds ==
    ASSUME NEW t, NEW M, NEW v, NEW H, NEW o, Sound(t, M, v, H, o), NEW k \in Nat,
           NEW f, f = Found(t, k, t.root)
    PROVE  Located(M, k, f)
<1>1. /\ Shape(t, M, t.root, v) /\ Ordered(o, M, v) /\ Ascending(M, v)
  BY Zenon DEF Sound
<1>2. PICK w : w = t.root
  OBVIOUS
<1>3. /\ M \subseteq Node /\ NULL \notin Node /\ v.size \in Nat /\ w \in M \cup {NULL}
      /\ M # {} => w \in M
      /\ \A n \in M : /\ v.lo[n] \in Int /\ v.hi[n] \in Int /\ v.pos[n] \in Int
                      /\ v.lo[n] <= v.pos[n] /\ v.pos[n] <= v.hi[n]
                      /\ KeyOf[n] \in Nat
  <2>1. v.size \in Nat
    BY <1>1, ShapeIs DEF Views
  <2>2. w \in M \cup {NULL}
    <3>1. Linked(t, M, t.root)
      BY <1>1 DEF Shape
    <3> QED BY <1>2, <3>1 DEF Linked
  <2> QED BY <1>1, <1>2, <2>1, <2>2, ShapeIs, CavlAssumption
<1>4. /\ Breadth(v, M) \in [M -> Nat]
      /\ \A x \in M : Breadth(v, M)[x] <= Cardinality(Node)
      /\ \A x \in M : \A s \in Side : t.lr[x][s] # NULL =>
           t.lr[x][s] \in M /\ Breadth(v, M)[t.lr[x][s]] < Breadth(v, M)[x]
  BY <1>1, BreadthIs
<1>5. \A x \in M : Breadth(v, M)[x] > 0
  BY <1>3 DEF Breadth
<1>6. \A a, b \in M : v.pos[a] <= v.pos[b] => KeyOf[a] <= KeyOf[b]
  BY <1>1 DEF Ascending
<1> DEFINE way(x) == IF k > KeyOf[x] THEN 1 ELSE 0
           step == [n \in Link |->
                 IF n = NULL \/ rxSubscriptionPredicateOnPortID(k, n) = 0 THEN n
                 ELSE t.lr[n][Index(rxSubscriptionPredicateOnPortID(k, n) > 0)]]
           Within(x, m) == x # NULL /\ v.lo[x] <= v.pos[m] /\ v.pos[m] <= v.hi[x]
           P == {x \in M \cup {NULL} : \A m \in M : KeyOf[m] = k => Within(x, m)}
           Q == {x \in M \cup {NULL} : x = NULL \/ KeyOf[x] = k}
           W == [x \in P |-> IF x = NULL THEN 0 ELSE Breadth(v, M)[x]]
<1>7. /\ step[NULL] = NULL
      /\ \A x \in M : step[x] = IF KeyOf[x] = k THEN x ELSE t.lr[x][way(x)]
  <2>1. step[NULL] = NULL
    BY DEF Link
  <2>2. ASSUME NEW x \in M PROVE step[x] = IF KeyOf[x] = k THEN x ELSE t.lr[x][way(x)]
    <3>1. x \in Link /\ x # NULL /\ KeyOf[x] \in Nat
      BY <1>3 DEF Link
    <3>2. CASE KeyOf[x] = k
      <4>1. rxSubscriptionPredicateOnPortID(k, x) = 0
        BY <3>1, <3>2 DEF rxSubscriptionPredicateOnPortID
      <4> QED BY <3>1, <3>2, <4>1
    <3>3. CASE KeyOf[x] # k
      <4>1. rxSubscriptionPredicateOnPortID(k, x) = IF k > KeyOf[x] THEN 1 ELSE -1
        BY <3>1, <3>3 DEF rxSubscriptionPredicateOnPortID
      <4>2. Index(rxSubscriptionPredicateOnPortID(k, x) > 0) = way(x)
        BY <4>1 DEF Index
      <4> HIDE DEF way
      <4>3. rxSubscriptionPredicateOnPortID(k, x) # 0
        BY <4>1
      <4>4. step[x] = t.lr[x][Index(rxSubscriptionPredicateOnPortID(k, x) > 0)]
        BY <3>1, <4>3
      <4> QED BY <3>3, <4>2, <4>4
    <3> QED BY <3>2, <3>3
  <2> QED BY <2>1, <2>2
<1> HIDE DEF step
<1>8. ASSUME NEW x \in P, x \notin Q PROVE step[x] \in P /\ W[step[x]] < W[x]
  <2>1. x \in M /\ KeyOf[x] # k /\ x # NULL
    BY <1>3, <1>8
  <2>2. PICK c : c = t.lr[x][way(x)]
    OBVIOUS
  <2>3. step[x] = c
    BY <1>7, <2>1, <2>2
  <2>4. c # NULL => c \in M /\ Breadth(v, M)[c] < Breadth(v, M)[x]
    BY <1>4, <2>1, <2>2 DEF Side
  <2>5. ASSUME NEW m \in M, KeyOf[m] = k PROVE Within(c, m)
    <3>1. v.lo[x] <= v.pos[m] /\ v.pos[m] <= v.hi[x]
      BY <1>8, <2>5
    <3>2. /\ v.pos[m] <= v.pos[x] => k <= KeyOf[x]
          /\ v.pos[x] <= v.pos[m] => KeyOf[x] <= k
      BY <1>6, <2>1, <2>5
    <3>3. Spanned(t, M, w, v)
      BY <1>1, <1>2, Zenon DEF Shape
    <3>4. CASE k > KeyOf[x]
      <4>1. c = t.lr[x][1]
        BY <2>2, <3>4
      <4>2. IF c = NULL THEN v.hi[x] = v.pos[x]
            ELSE v.lo[c] = v.pos[x] + 1 /\ v.hi[c] = v.hi[x]
        BY <2>1, <3>3, <4>1 DEF Spanned
      <4>3. v.pos[m] > v.pos[x]
        BY <1>3, <2>1, <3>2, <3>4
      <4> QED BY <1>3, <2>1, <2>4, <3>1, <4>2, <4>3
    <3>5. CASE k < KeyOf[x]
      <4>1. c = t.lr[x][0]
        BY <1>3, <2>1, <2>2, <3>5
      <4>2. IF c = NULL THEN v.lo[x] = v.pos[x]
            ELSE v.lo[c] = v.lo[x] /\ v.hi[c] = v.pos[x] - 1
        BY <2>1, <3>3, <4>1 DEF Spanned
      <4>3. v.pos[m] < v.pos[x]
        BY <1>3, <2>1, <3>2, <3>5
      <4> QED BY <1>3, <2>1, <2>4, <3>1, <4>2, <4>3
    <3> QED BY <1>3, <2>1, <3>4, <3>5
  <2>6. c \in P
    BY <2>4, <2>5
  <2>7. W[c] < W[x]
    <3>1. W[x] = Breadth(v, M)[x] /\ Breadth(v, M)[x] > 0
      BY <1>5, <2>1
    <3>2. W[c] = IF c = NULL THEN 0 ELSE Breadth(v, M)[c]
      BY <2>6
    <3> QED BY <2>4, <3>1, <3>2
  <2> QED BY <2>3, <2>6, <2>7
<1>9. \A x \in P : x \in Q => step[x] = x
  BY <1>7
<1>10. w \in P
  <2>1. ASSUME NEW m \in M PROVE Within(w, m)
    <3>1. w \in M /\ w # NULL
      BY <1>3
    <3>2. v.lo[w] = 1 /\ v.hi[w] = v.size
      <4>1. Spanned(t, M, w, v)
        BY <1>1, <1>2, Zenon DEF Shape
      <4> QED BY <3>1, <4>1, Zenon DEF Spanned
    <3>3. v.pos[m] \in 1 .. v.size
      BY <1>1 DEF Ordered
    <3> QED BY <1>3, <3>1, <3>2, <3>3
  <2> QED BY <1>3, <2>1
<1>11. W \in [P -> Nat] /\ W[w] <= Cardinality(Node)
  <2>1. Cardinality(Node) \in Nat
    BY CavlAssumption, FS_CardinalityType
  <2> QED BY <1>3, <1>4, <1>10, <2>1
<1>12. f = Repeated(step, w)
  BY <1>2 DEF Found, step
<1>13. f \in P /\ f \in Q
  <2>1. Approaching(step, P, Q, W)
    <3> HIDE DEF P, Q, W
    <3> QED BY <1>8, <1>9, <1>11 DEF Approaching
  <2> HIDE DEF P, Q, W
  <2> QED BY <1>10, <1>11, <1>12, <2>1, LoopHolds, Zenon
<1> QED BY <1>3, <1>13 DEF Located

(* The ends of the outer branches are the ends of the order.               *)
LEMMA FirstAndLast ==
    ASSUME NEW t, NEW M, NEW v, NEW H, NEW o, Sound(t, M, v, H, o), o # <<>>
    PROVE  /\ cavlFindExtremum(t, t.root, 0) = o[1]
           /\ cavlFindExtremum(t, t.root, 1) = o[Len(o)]
           /\ t.root \in M
<1>1. Shape(t, M, t.root, v) /\ Ordered(o, M, v)
  BY Zenon DEF Sound
<1>2. PICK w, a, b : /\ w = t.root /\ a = cavlFindExtremum(t, w, 0)
                     /\ b = cavlFindExtremum(t, w, 1)
  OBVIOUS
<1>3. o \in Seq(Node) /\ Len(o) = v.size /\ v.size \in Nat /\ v.size # 0 /\ 1 \in 1 .. v.size
  BY <1>1 DEF Ordered
<1>4. w \in M /\ w # NULL
  <2>1. o[1] \in M
    BY <1>1, <1>3 DEF Ordered
  <2> QED BY <1>1, <1>2, <2>1, ShapeIs
<1>5. v.lo[w] = 1 /\ v.hi[w] = v.size
  <2>1. Spanned(t, M, w, v)
    BY <1>1, <1>2, Zenon DEF Shape
  <2> QED BY <1>4, <2>1, Zenon DEF Spanned
<1>6. a \in M /\ v.pos[a] = 1
  <2>1. PICK r \in Side : r = 0
    BY DEF Side
  <2> QED BY <1>1, <1>2, <1>4, <1>5, <2>1, ExtremumHolds
<1>7. b \in M /\ v.pos[b] = v.size
  <2>1. PICK r \in Side : r = 1
    BY DEF Side
  <2> QED BY <1>1, <1>2, <1>4, <1>5, <2>1, ExtremumHolds
<1> QED BY <1>1, <1>2, <1>3, <1>4, <1>6, <1>7 DEF Ordered

(* The nodes of the tree, as the model tells them from the others.         *)
LEMMA MembersAre ==
    ASSUME NEW M, NEW v, NEW H, NEW o, Sound(tree, M, v, H, o)
    PROVE  Members = M
<1>1. Shape(tree, M, tree.root, v) /\ Away(tree, M)
  BY Zenon DEF Sound
<1>2. M \subseteq Node /\ NULL \notin Node /\ NULL \notin M
  BY <1>1, ShapeIs
<1>3. Linked(tree, M, tree.root)
  BY <1>1, Zenon DEF Shape
<1>4. ASSUME NEW n \in M PROVE n \in Members
  <2>1. n = tree.root \/ tree.up[n] \in M
    BY <1>3 DEF Linked
  <2> QED BY <1>2, <2>1 DEF Members
<1>5. ASSUME NEW n \in Node \ M PROVE n \notin Members
  <2>1. tree.root \in M \cup {NULL}
    BY <1>3 DEF Linked
  <2>2. tree.up[n] = NULL
    BY <1>1 DEF Away
  <2> QED BY <1>2, <2>1, <2>2 DEF Members
<1>6. Members \subseteq Node
  BY DEF Members
<1> QED BY <1>2, <1>4, <1>5, <1>6

LEMMA BlankSound ==
    ASSUME NEW t, t = Blank
    PROVE  \E M, v, H : Sound(t, M, v, H, <<>>)
<1>1. PICK none : none = [r \in Side |-> NULL]
  OBVIOUS
<1>2. none \in [Side -> Link]
  BY <1>1 DEF Link
<1>3. t = [root |-> NULL, lr |-> [n \in Node |-> none],
           up |-> [n \in Node |-> NULL], bf |-> [n \in Node |-> 0]]
  BY <1>1, Zenon DEF Blank
<1>4. /\ t \in Trees /\ t.root = NULL
      /\ \A n \in Node : t.up[n] = NULL /\ \A s \in Side : t.lr[n][s] = NULL
  <2>1. \A s \in Side : none[s] = NULL
    BY <1>1
  <2>2. NULL \in Link
    BY DEF Link
  <2> QED BY <1>2, <1>3, <2>1, <2>2 DEF Trees
<1> DEFINE zero == [n \in Node |-> 0]
           v == [size |-> 0, pos |-> zero, lo |-> zero, hi |-> zero]
           H == [n \in Link |-> 0]
<1>5. v \in Views /\ v.size = 0
  BY DEF Views
<1>6. H \in [Link -> Nat] /\ H[NULL] = 0
  BY DEF Link
<1> HIDE DEF v, H
<1>7. Shape(t, {}, t.root, v)
  BY <1>4, <1>5 DEF Shape, Linked, Spanned, Link
<1>8. Heights(t, {}, H, NULL)
  BY <1>6 DEF Heights
<1>9. Ordered(<<>>, {}, v)
  BY <1>5 DEF Ordered
<1>10. Ascending({}, v) /\ Away(t, {})
  BY <1>4 DEF Ascending, Away
<1> QED BY <1>7, <1>8, <1>9, <1>10 DEF Sound

-----------------------------------------------------------------------------
(* The invariant of the tree: an order and a height for every node explain *)
(* all that its links and balance factors say.                             *)
TreeInv == \E M, v, H, o : Sound(tree, M, v, H, o)

LEMMA InsertStep ==
    ASSUME NEW M, NEW v, NEW H, NEW o, Sound(tree, M, v, H, o), NEW n \in Node, Insert(n)
    PROVE  n \notin M /\ \E i : Grown(tree', M, v, n, o, i)
<1>1. n \in Node \ M
  BY MembersAre DEF Insert
<1>2. PICK u : u = tree'
  OBVIOUS
<1>3. u = Inserted(tree, n)
  BY <1>2 DEF Insert
<1>4. CASE tree.root = NULL
  <2>1. Grown(u, M, v, n, o, 1)
    BY <1>1, <1>3, <1>4, FirstHolds
  <2> QED BY <1>1, <1>2, <2>1
<1>5. CASE tree.root # NULL
  <2>1. \E i : Grown(u, M, v, n, o, i)
    BY <1>1, <1>3, <1>5, NextHolds
  <2> QED BY <1>1, <1>2, <2>1
<1> QED BY <1>4, <1>5

Drops(M, v, o, n, u) ==
    n \in M /\ \E q, G : Sound(u, M \ {n}, q, G, Sorted!RemoveAt(o, v.pos[n]))

LEMMA RemoveStep ==
    ASSUME NEW M, NEW v, NEW H, NEW o, Sound(tree, M, v, H, o),
           Pop \/ \E n \in Node : Unsubscribe(n)
    PROVE  \E n : Drops(M, v, o, n, tree')
<1>1. PICK n \in M : tree' = Removed(tree, n)
  <2>1. CASE Pop
    <3>1. tree.root \in M
      <4>1. Shape(tree, M, tree.root, v)
        BY Zenon DEF Sound
      <4>2. Linked(tree, M, tree.root)
        BY <4>1, Zenon DEF Shape
      <4> QED BY <2>1, <4>2 DEF Linked, Pop
    <3>2. PICK w, r, e : w = tree.root /\ r = 0 /\ e = cavlFindExtremum(tree, w, r)
      OBVIOUS
    <3>3. e \in M
      <4>1. Shape(tree, M, w, v) /\ Ordered(o, M, v)
        BY <3>2, Zenon DEF Sound
      <4>2. r \in Side /\ w \in M
        BY <3>1, <3>2 DEF Side
      <4> QED BY <3>2, <4>1, <4>2, ExtremumHolds
    <3> QED BY <2>1, <3>2, <3>3 DEF Pop
  <2>2. CASE \E n \in Node : Unsubscribe(n)
    BY <2>2, MembersAre DEF Unsubscribe
  <2> QED BY <2>1, <2>2
<1>2. PICK u, i : u = tree' /\ i = v.pos[n]
  OBVIOUS
<1>3. \E q, G : Sound(u, M \ {n}, q, G, Sorted!RemoveAt(o, i))
  BY <1>1, <1>2, RemoveHolds
<1> QED BY <1>2, <1>3 DEF Drops

LEMMA InvInit == TreeInit => TreeInv
BY BlankSound DEF TreeInit, TreeInv

LEMMA InvNext == TreeInv /\ [TreeNext]_tree => TreeInv'
<1> SUFFICES ASSUME TreeInv, [TreeNext]_tree PROVE TreeInv'
  OBVIOUS
<1>1. PICK M, v, H, o : Sound(tree, M, v, H, o)
  BY DEF TreeInv
<1>2. PICK u : u = tree'
  OBVIOUS
<1>3. SUFFICES \E N, q, G, c : Sound(u, N, q, G, c)
  BY <1>2 DEF TreeInv
<1>4. ASSUME NEW n \in Node, Insert(n) PROVE \E N, q, G, c : Sound(u, N, q, G, c)
  <2>1. PICK i : Grown(u, M, v, n, o, i)
    BY <1>1, <1>2, <1>4, InsertStep
  <2> QED BY <2>1 DEF Grown
<1>5. ASSUME Pop \/ \E n \in Node : Unsubscribe(n) PROVE \E N, q, G, c : Sound(u, N, q, G, c)
  <2>1. PICK n : Drops(M, v, o, n, u)
    BY <1>1, <1>2, <1>5, RemoveStep
  <2> QED BY <2>1 DEF Drops
<1>6. CASE UNCHANGED tree
  BY <1>1, <1>2, <1>6
<1> QED BY <1>4, <1>5, <1>6 DEF TreeNext

(* The tree of libcanard is at all times the tree of some order.           *)
THEOREM TreeStaysSound == TreeSpec => []TreeInv
<1>1. TreeInit => TreeInv
  BY InvInit
<1>2. TreeInv /\ [TreeNext]_tree => TreeInv'
  BY InvNext
<1> QED BY <1>1, <1>2, PTL DEF TreeSpec

(* Every link stays within the nodes and every balance factor in -1 .. 1.  *)
THEOREM TreeHasItsType == TreeSpec => []TreeTypeOK
<1>1. TreeInv => TreeTypeOK
  <2> SUFFICES ASSUME TreeInv PROVE TreeTypeOK
    OBVIOUS
  <2>1. PICK M, v, H, o : Sound(tree, M, v, H, o)
    BY DEF TreeInv
  <2>2. Shape(tree, M, tree.root, v)
    BY <2>1, Zenon DEF Sound
  <2> QED BY <2>2 DEF Shape, TreeTypeOK
<1> QED BY <1>1, TreeStaysSound, PTL

(* Through every insertion, removal and rotation, each child names its     *)
(* parent, and each balance factor is the true difference of the heights.  *)
THEOREM TreeStaysBalanced == TreeSpec => []BalancedAndLinked
<1>1. TreeInv => BalancedAndLinked
  <2> SUFFICES ASSUME TreeInv PROVE BalancedAndLinked
    OBVIOUS
  <2>1. PICK M, v, H, o : Sound(tree, M, v, H, o)
    BY DEF TreeInv
  <2>2. Shape(tree, M, tree.root, v) /\ Heights(tree, M, H, NULL)
    BY <2>1, Zenon DEF Sound
  <2>3. Members = M
    BY <2>1, MembersAre
  <2>4. PICK h : h = Height(tree)
    OBVIOUS
  <2>5. h[NULL] = 0 /\ H[NULL] = 0 /\ NULL \notin M /\ \A n \in M : h[n] = H[n]
    <3>1. h[NULL] = 0 /\ \A n \in M : h[n] = H[n]
      BY <2>1, <2>4, HeightIs
    <3> QED BY <2>2, <3>1, ShapeIs DEF Heights
  <2>6. Linked(tree, M, tree.root)
    BY <2>2, Zenon DEF Shape
  <2>7. tree.root # NULL => tree.up[tree.root] = NULL
    BY <2>6 DEF Linked
  <2>8. ASSUME NEW n \in M
        PROVE  /\ \A r \in Side : tree.lr[n][r] # NULL => tree.up[tree.lr[n][r]] = n
               /\ tree.bf[n] = h[tree.lr[n][1]] - h[tree.lr[n][0]]
               /\ tree.bf[n] \in -1 .. 1
    <3>1. \A r \in Side : tree.lr[n][r] # NULL => tree.up[tree.lr[n][r]] = n
      BY <2>6 DEF Linked
    <3>2. /\ tree.lr[n][0] \in M \cup {NULL} /\ tree.lr[n][1] \in M \cup {NULL}
          /\ tree.bf[n] \in -1 .. 1
      BY <2>2, ShapeIs
    <3>3. h[tree.lr[n][0]] = H[tree.lr[n][0]] /\ h[tree.lr[n][1]] = H[tree.lr[n][1]]
      BY <2>5, <3>2
    <3>4. tree.bf[n] = H[tree.lr[n][1]] - H[tree.lr[n][0]]
      BY <2>2, <2>5 DEF Heights, Level
    <3> QED BY <3>1, <3>2, <3>3, <3>4
  <2> QED BY <2>3, <2>4, <2>7, <2>8, Zenon DEF BalancedAndLinked
<1> QED BY <1>1, TreeStaysSound, PTL

(* The next frame to send is the first in order, and a search finds a port *)
(* whenever one of the nodes has it.                                       *)
THEOREM TreeAnswersByOrder == TreeSpec => []AnswersByOrder
<1>1. TreeInv => AnswersByOrder
  <2> SUFFICES ASSUME TreeInv PROVE AnswersByOrder
    OBVIOUS
  <2>1. PICK M, v, H, o : Sound(tree, M, v, H, o)
    BY DEF TreeInv
  <2>2. Members = M /\ InOrder(tree) = o
    BY <2>1, MembersAre, InOrderIs
  <2>3. o # <<>> => /\ cavlFindExtremum(tree, tree.root, 0) = o[1]
                    /\ cavlFindExtremum(tree, tree.root, 1) = o[Len(o)]
    BY <2>1, FirstAndLast
  <2>4. ASSUME NEW n \in Node
        PROVE  IF \E m \in M : KeyOf[m] = KeyOf[n]
               THEN Found(tree, KeyOf[n], tree.root) \in M
                    /\ KeyOf[Found(tree, KeyOf[n], tree.root)] = KeyOf[n]
               ELSE Found(tree, KeyOf[n], tree.root) = NULL
    <3>1. PICK k, f : k = KeyOf[n] /\ f = Found(tree, k, tree.root)
      OBVIOUS
    <3>2. k \in Nat
      BY <3>1, CavlAssumption
    <3>3. Located(M, k, f)
      BY <2>1, <3>1, <3>2, FoundHolds
    <3> QED BY <3>1, <3>3 DEF Located
  <2> QED BY <2>2, <2>3, <2>4, Zenon DEF AnswersByOrder
<1> QED BY <1>1, TreeStaysSound, PTL

(* An insertion is one of the abstract queue: behind all of its key.       *)
LEMMA InsertIsSorted ==
    ASSUME NEW M, NEW v, NEW H, NEW o, Sound(tree, M, v, H, o), NEW n \in Node, Insert(n)
    PROVE  Sorted!Insert(n)
<1>1. PICK i : n \notin M /\ Grown(tree', M, v, n, o, i)
  BY InsertStep
<1>2. PICK c : c = Sorted!InsertAt(o, i, n)
  OBVIOUS
<1>3. PICK u : u = tree'
  OBVIOUS
<1>4. PICK N, q, G : Sound(u, N, q, G, c)
  BY <1>1, <1>2, <1>3 DEF Grown
<1>5. InOrder(tree) = o /\ InOrder(tree)' = c
  <2>1. InOrder(tree) = o
    BY InOrderIs
  <2>2. InOrder(u) = c
    BY <1>4, InOrderIs
  <2> QED BY <1>3, <2>1, <2>2
<1>6. /\ i \in 1 .. v.size + 1
      /\ \A m \in M : IF v.pos[m] < i THEN KeyOf[m] <= KeyOf[n] ELSE KeyOf[n] < KeyOf[m]
  BY <1>1 DEF Grown
<1>7. Ordered(o, M, v) /\ Len(o) = v.size /\ v.size \in Nat
  BY OrderedSize DEF Sound, Ordered
<1>8. \A j \in 1 .. v.size : o[j] \in M /\ v.pos[o[j]] = j
  BY <1>7 DEF Ordered
<1>9. ~Sorted!Contains(o, n)
  BY <1>1, <1>7, <1>8 DEF Sorted!Contains
<1>10. i \in 1 .. Len(o) + 1
  BY <1>6, <1>7
<1>11. \A j \in 1 .. i - 1 : KeyOf[o[j]] <= KeyOf[n]
  <2>1. ASSUME NEW j \in 1 .. i - 1 PROVE KeyOf[o[j]] <= KeyOf[n]
    <3>1. j \in 1 .. v.size /\ j < i
      BY <1>6, <1>7
    <3> QED BY <1>6, <1>8, <3>1
  <2> QED BY <2>1
<1>12. \A j \in i .. Len(o) : KeyOf[n] < KeyOf[o[j]]
  <2>1. ASSUME NEW j \in i .. Len(o) PROVE KeyOf[n] < KeyOf[o[j]]
    <3>1. j \in 1 .. v.size /\ ~(j < i)
      BY <1>6, <1>7
    <3> QED BY <1>6, <1>8, <3>1
  <2> QED BY <2>1
<1> QED BY <1>2, <1>5, <1>9, <1>10, <1>11, <1>12, Zenon DEF Sorted!Insert

(* A removal is one of the abstract queue: it moves no other node.         *)
LEMMA RemoveIsSorted ==
    ASSUME NEW M, NEW v, NEW H, NEW o, Sound(tree, M, v, H, o),
           Pop \/ \E n \in Node : Unsubscribe(n)
    PROVE  \E n \in Node : Sorted!Drop(n)
<1>1. PICK n : Drops(M, v, o, n, tree')
  BY RemoveStep
<1>2. PICK i, u : i = v.pos[n] /\ u = tree'
  OBVIOUS
<1>3. PICK c : c = Sorted!RemoveAt(o, i)
  OBVIOUS
<1>4. PICK N, q, G : n \in M /\ Sound(u, N, q, G, c)
  BY <1>1, <1>2, <1>3 DEF Drops
<1>5. InOrder(tree) = o /\ InOrder(tree)' = c
  <2>1. InOrder(tree) = o
    BY InOrderIs
  <2>2. InOrder(u) = c
    BY <1>4, InOrderIs
  <2> QED BY <1>2, <2>1, <2>2
<1>6. Ordered(o, M, v) /\ Shape(tree, M, tree.root, v)
  BY Zenon DEF Sound
<1>7. i \in 1 .. Len(o) /\ o[i] = n
  BY <1>2, <1>4, <1>6 DEF Ordered
<1>8. n \in Node
  BY <1>4, <1>6, ShapeIs
<1> QED BY <1>3, <1>5, <1>7, <1>8, Zenon DEF Sorted!Drop

(* The tree implements the sorted queue: every step of the tree is one of  *)
(* the queue, or leaves the order as it was.                               *)
THEOREM TreeIsSortedQueue == TreeSpec => ImplementsSortedQueue
<1>1. TreeInit => Sorted!Init
  <2> SUFFICES ASSUME TreeInit PROVE InOrder(tree) = <<>>
    BY DEF Sorted!Init
  <2>1. PICK M, v, H : Sound(tree, M, v, H, <<>>)
    BY BlankSound DEF TreeInit
  <2> QED BY <2>1, InOrderIs
<1>2. TreeInv /\ [TreeNext]_tree => [Sorted!Next]_(InOrder(tree))
  <2> SUFFICES ASSUME TreeInv, [TreeNext]_tree PROVE [Sorted!Next]_(InOrder(tree))
    OBVIOUS
  <2>1. PICK M, v, H, o : Sound(tree, M, v, H, o)
    BY DEF TreeInv
  <2>2. ASSUME NEW n \in Node, Insert(n) PROVE Sorted!Next
    BY <2>1, <2>2, InsertIsSorted DEF Sorted!Next
  <2>3. ASSUME Pop \/ \E n \in Node : Unsubscribe(n) PROVE Sorted!Next
    BY <2>1, <2>3, RemoveIsSorted DEF Sorted!Next
  <2>4. CASE UNCHANGED tree
    BY <2>4
  <2> QED BY <2>2, <2>3, <2>4 DEF TreeNext
<1> QED BY <1>1, <1>2, TreeStaysSound, PTL DEF TreeSpec, ImplementsSortedQueue, Sorted!Spec
=============================================================================
