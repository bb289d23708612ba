----------------------------- MODULE RingBuffer -----------------------------
(***************************************************************************)
(* The class RingBuffer<ElementType, max_size> of ring_buffer.hpp: an      *)
(* array of MaxSize slots, the index of the oldest element, the index of   *)
(* the next free slot and the number of elements.  One action per method   *)
(* that changes state; the methods run to completion here, FdcanRx breaks  *)
(* pop into the steps that an interrupt can separate.                      *)
(***************************************************************************)
EXTENDS Integers, Sequences

CONSTANTS MaxSize,  \* the template parameter, 40 in the FDCAN driver
          Element,  \* the values pushed
          Blank     \* what the slots of a static object hold before any push

ASSUME MaxSizeAssumption == MaxSize \in Nat \ {0}

VARIABLES buffer, head, tail, size,  \* the private members
          out                        \* the value pop last returned

ring == <<buffer, head, tail, size>>
vars == <<buffer, head, tail, size, out>>

Slot == 0 .. MaxSize - 1

(* Mutant: the index never turns.                                          *)
NextSlotUnwrapped(i) == i + 1

NextSlot(i) == (i + 1) % MaxSize

TypeOK ==
    /\ buffer \in [Slot -> Element \cup {Blank}]
    /\ head \in Slot
    /\ tail \in Slot
    /\ size \in Nat
    /\ out \in Element \cup {Blank}

RingInit ==
    /\ buffer = [i \in Slot |-> Blank]
    /\ head = 0
    /\ tail = 0
    /\ size = 0

Init == RingInit /\ out = Blank

(* Mutant: the index is advanced before the element is stored.             *)
RingPushAdvancedFirst(e) ==
    /\ buffer' = [buffer EXCEPT ![NextSlot(tail)] = e]
    /\ tail' = NextSlot(tail)
    /\ size' = size + 1
    /\ head' = IF size' > MaxSize THEN NextSlot(head) ELSE head

(* The effect of push(e) on the members.                                   *)
RingPush(e) ==
    /\ buffer' = [buffer EXCEPT ![tail] = e]
    /\ tail' = NextSlot(tail)
    /\ size' = size + 1
    /\ head' = IF size' > MaxSize THEN NextSlot(head) ELSE head

(* Mutant: pop forgets to count down.                                      *)
RingPopUncounted(s) ==
    /\ IF s > 0 THEN head' = NextSlot(head) ELSE UNCHANGED head
    /\ UNCHANGED <<buffer, tail, size>>

(* The effect of pop() on the members, given that it read s as size.       *)
RingPop(s) ==
    /\ IF s > 0 THEN head' = NextSlot(head) /\ size' = s - 1
                ELSE UNCHANGED <<head, size>>
    /\ UNCHANGED <<buffer, tail>>

Push(e) == RingPush(e) /\ UNCHANGED out

Pop == RingPop(size) /\ out' = buffer[head]

Next == (\E e \in Element : Push(e)) \/ Pop

Spec == Init /\ [][Next]_vars

(***************************************************************************)
(* A user who never pushes into a full buffer.  Everything that holds of   *)
(* the class as a queue holds for such a user only: see Overwrites.        *)
(***************************************************************************)
PacedNext == Next /\ size' <= MaxSize

PacedSpec == Init /\ [][PacedNext]_vars

(* The elements the buffer has room for, oldest first.                     *)
Held == IF size < MaxSize THEN size ELSE MaxSize

(* The slot n places after slot i.                                         *)
Ahead(i, n) == (i + n) % MaxSize

Contents == [i \in 1 .. Held |-> buffer[Ahead(head, i - 1)]]

Fifo == INSTANCE OverwritingFifo WITH q <- Contents

(***************************************************************************)
(* "Overwrite head element if there is no free space", the comment on      *)
(* push: the buffer is a queue that loses its oldest elements and nothing  *)
(* else, every pop returns the oldest element that is left, and nothing is *)
(* repeated or reordered across any number of turns of the two indices.    *)
(* It holds for a paced user.  It fails for others: push never brings size *)
(* back to MaxSize, so a reader takes an element out and still has it in.  *)
(***************************************************************************)
IsOverwritingFifo == Fifo!Spec

(***************************************************************************)
(* The write index runs exactly size slots ahead of the read index, the    *)
(* agreement of three separately updated members that IsOverwritingFifo    *)
(* rests on.  It is inductive for a paced user.                            *)
(***************************************************************************)
IndicesAgree ==
    /\ size <= MaxSize
    /\ tail = Ahead(head, size)
=============================================================================
