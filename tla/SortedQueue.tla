----------------------------- MODULE SortedQueue -----------------------------
(***************************************************************************)
(* What the users of the tree of libcanard need of it: a sequence of nodes *)
(* in the order of their keys, where a node stands behind the ones of its  *)
(* own key that were there before it.                                      *)
(***************************************************************************)
EXTENDS Integers, Sequences, SequencesExt

CONSTANTS Node,  \* nodes, each in the sequence once at most
          KeyOf  \* the key of each node

VARIABLE order  \* the nodes, smallest key first

Insert(n) ==
    /\ ~Contains(order, n)
    /\ \E i \in 1 .. Len(order) + 1 :
         /\ \A j \in 1 .. i - 1 : KeyOf[order[j]] <= KeyOf[n]
         /\ \A j \in i .. Len(order) : KeyOf[n] < KeyOf[order[j]]
         /\ order' = InsertAt(order, i, n)

Drop(n) == \E i \in 1 .. Len(order) : order[i] = n /\ order' = RemoveAt(order, i)

Init == order = <<>>

Next == \E n \in Node : Insert(n) \/ Drop(n)

Spec == Init /\ [][Next]_order
=============================================================================
