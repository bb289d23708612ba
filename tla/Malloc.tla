------------------------------- MODULE Malloc -------------------------------
(***************************************************************************)
(* What the header of the heap promises its users: "the semantics follows  *)
(* malloc()", and NULL only for "the lack of memory or its excessive       *)
(* fragmentation".  The state is what a user can see, the blocks that are  *)
(* out and the last reply; there are no lists, bins or headers here.       *)
(***************************************************************************)
EXTENDS Integers

CONSTANTS Capacity,       \* bytes of the arena
          Place,          \* offsets in the arena where a block may begin
          Amount,         \* sizes that users ask for
          Footprint(_),   \* bytes that a block of an amount takes
          NULL            \* the pointer to nothing

VARIABLES lent,   \* blocks that are out: the first byte, the amount
          reply   \* amount and result of the last call, <<0, NULL>> after a free

(* The first byte after a block.                                           *)
End(b) == b.at + Footprint(b.amount)

Fits(b) == End(b) <= Capacity /\ \A c \in lent : End(b) <= c.at \/ End(c) <= b.at

(* A gap begins where the arena or a block ends.                           *)
HasRoom(amount) ==
    \E at \in {0} \cup {End(c) : c \in lent} : Fits([at |-> at, amount |-> amount])

Init == lent = {} /\ reply = <<0, NULL>>

Lend(amount) ==
    \E at \in Place :
        LET b == [at |-> at, amount |-> amount]
        IN  /\ Fits(b)
            /\ lent' = lent \cup {b}
            /\ reply' = <<amount, at>>

Refuse(amount) ==
    /\ ~HasRoom(amount)
    /\ reply' = <<amount, NULL>>
    /\ UNCHANGED lent

AllocateNothing == reply' = <<0, NULL>> /\ UNCHANGED lent

Free(b) == lent' = lent \ {b} /\ reply' = <<0, NULL>>

Next ==
    \/ \E amount \in Amount \ {0} : Lend(amount) \/ Refuse(amount)
    \/ AllocateNothing
    \/ \E b \in lent : Free(b)

Spec == Init /\ [][Next]_<<lent, reply>>
=============================================================================
