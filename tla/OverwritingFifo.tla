-------------------------- MODULE OverwritingFifo --------------------------
(***************************************************************************)
(* What the class RingBuffer promises its user: a queue of at most MaxSize *)
(* elements that, when it is full, gives up its oldest element to make     *)
(* room ("Overwrite head element if there is no free space").              *)
(***************************************************************************)
EXTENDS Naturals, Sequences

CONSTANTS MaxSize, Element, Blank

VARIABLES q,    \* the elements held, oldest first
          out   \* the element the last pop returned

Init == q = <<>> /\ out = Blank

Put(e) ==
    /\ q' = Append(IF Len(q) < MaxSize THEN q ELSE Tail(q), e)
    /\ UNCHANGED out

Take ==
    /\ q # <<>>
    /\ out' = Head(q)
    /\ q' = Tail(q)

(* Taking from an empty queue returns some element and removes nothing.    *)
TakeNothing ==
    /\ q = <<>>
    /\ out' \in Element \cup {Blank}
    /\ UNCHANGED q

Next == (\E e \in Element : Put(e)) \/ Take \/ TakeNothing

Spec == Init /\ [][Next]_<<q, out>>
=============================================================================
