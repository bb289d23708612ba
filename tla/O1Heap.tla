------------------------------- MODULE O1Heap -------------------------------
(***************************************************************************)
(* The constant-time heap that libcanard allocates TX items, sessions and  *)
(* payloads from (o1heap.c, "half-fit"): the arena is a chain of fragments *)
(* linked to both neighbours; the free ones are also in doubly linked      *)
(* lists, one for each power of two, and a mask says which are not empty.  *)
(*                                                                         *)
(* A fragment is the offset of its header in the arena, in bytes.  The     *)
(* members of the headers are functions of the offset; where no header is  *)
(* in use any more, and where the user of a block has overwritten the      *)
(* links of the free list, they are reset, and nothing may rely on them.   *)
(***************************************************************************)
EXTENDS Integers, FiniteSets

CONSTANTS Alignment,  \* O1HEAP_ALIGNMENT, a power of two
          Capacity,   \* diagnostics.capacity
          Amount,     \* sizes that the application asks for
          NumBins,    \* NUM_BINS_MAX
          OomBound    \* bound on oom_count, which is only compared with zero

FragmentSizeMin == 2 * Alignment

pow2[k \in Nat] == IF k = 0 THEN 1 ELSE 2 * pow2[k - 1]

ASSUME O1HeapAssumption ==
    /\ Alignment \in {pow2[k] : k \in 0 .. NumBins}
    /\ Capacity \in Nat /\ Capacity >= FragmentSizeMin /\ Capacity % FragmentSizeMin = 0
    /\ Amount \subseteq Nat
    /\ NumBins \in Nat /\ pow2[NumBins] > Capacity
    /\ OomBound \in Nat \ {0}

VARIABLES
    heap,         \* headers, links, bins and nonempty_bin_mask
    diagnostics,  \* handle->diagnostics, but for the capacity
    lent,         \* history: blocks that the application holds
    reply         \* history: amount and result of the last call

vars == <<heap, diagnostics, lent, reply>>

NULL == -1
Offset == {o \in 0 .. Capacity - 1 : o % FragmentSizeMin = 0}
Pointer == Offset \cup {NULL}
Bin == 0 .. NumBins - 1

Max2(a, b) == IF a > b THEN a ELSE b
Min2(a, b) == IF a < b THEN a ELSE b
Least(S) == CHOOSE k \in S : \A l \in S : k <= l

-----------------------------------------------------------------------------
(* Powers of two.                                                          *)

log2Floor(x) == CHOOSE k \in 0 .. x : pow2[k] <= x /\ x < pow2[k + 1]

log2Ceil(x) == IF x <= 1 THEN 0 ELSE 1 + log2Floor(x - 1)

roundUpToPowerOf2(x) == pow2[log2Ceil(x)]

(* The fragment that serves a request: its header and the user's bytes.    *)
FragmentSize(amount) == roundUpToPowerOf2(amount + Alignment)

-----------------------------------------------------------------------------
(* The lists.  Each operator takes the heap before and gives the one after.*)

interlink(h, left, right) ==
    LET onward == IF left # NULL THEN [h EXCEPT !.next[left] = right] ELSE h
    IN  IF right # NULL THEN [onward EXCEPT !.prev[right] = left] ELSE onward

BinOf(h, f) == log2Floor(h.size[f] \div FragmentSizeMin)

(* The fragment becomes the head of its bin.                               *)
rebin(h, f) ==
    LET bin  == BinOf(h, f)
        head == h.bins[bin]
        put  == [h EXCEPT !.next_free[f] = head, !.prev_free[f] = NULL,
                          !.bins[bin] = f, !.nonempty_bin_mask = @ \cup {bin}]
    IN  IF head # NULL THEN [put EXCEPT !.prev_free[head] = f] ELSE put

(* Mutant: the fragment after it goes on pointing back to it.              *)
unbinOneWay(h, f) ==
    LET bin    == BinOf(h, f)
        after  == h.next_free[f]
        before == h.prev_free[f]
        closed == IF before # NULL THEN [h EXCEPT !.next_free[before] = after] ELSE h
    IN  IF h.bins[bin] # f THEN closed
        ELSE [closed EXCEPT !.bins[bin] = after,
                            !.nonempty_bin_mask = IF after = NULL THEN @ \ {bin} ELSE @]

unbin(h, f) ==
    LET bin    == BinOf(h, f)
        after  == h.next_free[f]
        before == h.prev_free[f]
        passed == IF after # NULL THEN [h EXCEPT !.prev_free[after] = before] ELSE h
        closed == IF before # NULL THEN [passed EXCEPT !.next_free[before] = after] ELSE passed
    IN  IF h.bins[bin] # f THEN closed
        ELSE [closed EXCEPT !.bins[bin] = after,
                            !.nonempty_bin_mask = IF after = NULL THEN @ \ {bin} ELSE @]

(* The user writes over the links of the free list.                        *)
HandedOut(h, f) == [h EXCEPT !.used[f] = TRUE, !.next_free[f] = NULL, !.prev_free[f] = NULL]

(* The header of a fragment that has been merged into its neighbour.       *)
Dropped(h, f) ==
    [h EXCEPT !.size[f] = 0, !.used[f] = FALSE, !.next[f] = NULL, !.prev[f] = NULL,
              !.next_free[f] = NULL, !.prev_free[f] = NULL]

-----------------------------------------------------------------------------
(* o1heapInit: one free fragment, the whole arena.                         *)

Blank ==
    [next |-> [o \in Offset |-> NULL], prev |-> [o \in Offset |-> NULL],
     size |-> [o \in Offset |-> 0], used |-> [o \in Offset |-> FALSE],
     next_free |-> [o \in Offset |-> NULL], prev_free |-> [o \in Offset |-> NULL],
     bins |-> [k \in Bin |-> NULL], nonempty_bin_mask |-> {}]

Init ==
    /\ heap = rebin([Blank EXCEPT !.size[0] = Capacity], 0)
    /\ diagnostics = [allocated |-> 0, peak_allocated |-> 0, peak_request_size |-> 0,
                      oom_count |-> 0]
    /\ lent = {} /\ reply = <<0, NULL>>

-----------------------------------------------------------------------------
(* o1heapAllocate                                                          *)

(* Bins whose fragments are all large enough.                              *)
SuitableBins(h, amount) ==
    {k \in h.nonempty_bin_mask : k >= log2Ceil(FragmentSize(amount) \div FragmentSizeMin)}

CanServe(amount) ==
    /\ amount > 0 /\ amount <= Capacity - Alignment
    /\ SuitableBins(heap, amount) # {}

Chosen(amount) == heap.bins[Least(SuitableBins(heap, amount))]

(* Mutant: the right neighbour keeps its link to the whole fragment.       *)
SplitOneWay(h, f, wanted) ==
    LET leftover == h.size[f] - wanted
        rest     == f + wanted
        cut      == [h EXCEPT !.size[f] = wanted]
        linked   == [cut EXCEPT !.size[rest] = leftover, !.used[rest] = FALSE,
                                !.next[rest] = h.next[f]]
    IN  IF leftover < FragmentSizeMin THEN cut
        ELSE rebin(interlink(linked, f, rest), rest)

(* What is too much goes back as a fragment of its own.                    *)
Split(h, f, wanted) ==
    LET leftover == h.size[f] - wanted
        rest     == f + wanted
        cut      == [h EXCEPT !.size[f] = wanted]
        linked   == interlink([cut EXCEPT !.size[rest] = leftover, !.used[rest] = FALSE],
                              rest, h.next[f])
    IN  IF leftover < FragmentSizeMin THEN cut
        ELSE rebin(interlink(linked, f, rest), rest)

(* Mutant: the peak is taken before the new fragment is added.             *)
CountedEarly(amount, allocated) ==
    [diagnostics EXCEPT !.allocated = allocated,
                        !.peak_allocated = Max2(@, diagnostics.allocated),
                        !.peak_request_size = Max2(@, amount)]

Counted(amount, allocated) ==
    [diagnostics EXCEPT !.allocated = allocated,
                        !.peak_allocated = Max2(@, allocated),
                        !.peak_request_size = Max2(@, amount)]

AllocateServed(amount) ==
    /\ CanServe(amount)
    /\ LET f == Chosen(amount)
       IN  /\ heap' = HandedOut(Split(unbin(heap, f), f, FragmentSize(amount)), f)
           /\ lent' = lent \cup {[at |-> f, amount |-> amount]}
           /\ reply' = <<amount, f>>
    /\ diagnostics' = Counted(amount, diagnostics.allocated + FragmentSize(amount))

(* Out of memory, or no memory asked for.                                  *)
AllocateRefused(amount) ==
    /\ ~CanServe(amount)
    /\ diagnostics' =
         [Counted(amount, diagnostics.allocated) EXCEPT
              !.oom_count = IF amount > 0 THEN Min2(@ + 1, OomBound) ELSE @]
    /\ reply' = <<amount, NULL>>
    /\ UNCHANGED <<heap, lent>>

-----------------------------------------------------------------------------
(* o1heapFree                                                              *)

JoinLeft(h, f) == h.prev[f] # NULL /\ ~h.used[h.prev[f]]
JoinRight(h, f) == h.next[f] # NULL /\ ~h.used[h.next[f]]

(* The left one takes over the bytes and the right neighbour of the other. *)
Absorb(h, left, right) ==
    LET grown == [h EXCEPT !.size[left] = @ + h.size[right]]
    IN  Dropped(interlink(grown, left, h.next[right]), right)

(* Mutant: a fragment that was joined on the left is not on the right.     *)
MergedOneSided(h, f) ==
    LET left  == h.prev[f]
        right == h.next[f]
    IN  IF JoinLeft(h, f) THEN rebin(Absorb(unbin(h, left), left, f), left)
        ELSE IF JoinRight(h, f) THEN rebin(Absorb(unbin(h, right), f, right), f)
        ELSE rebin(h, f)

(* The fragment joins the free ones on its right and on its left.          *)
Merged(h, f) ==
    LET left   == h.prev[f]
        right  == h.next[f]
        joined == IF JoinRight(h, f) THEN Absorb(unbin(h, right), f, right) ELSE h
    IN  IF JoinLeft(h, f) THEN rebin(Absorb(unbin(joined, left), left, f), left)
        ELSE rebin(joined, f)

Free(b) ==
    /\ heap' = Merged([heap EXCEPT !.used[b.at] = FALSE], b.at)
    /\ diagnostics' = [diagnostics EXCEPT !.allocated = @ - heap.size[b.at]]
    /\ lent' = lent \ {b}
    /\ reply' = <<0, NULL>>

Next ==
    \/ \E amount \in Amount : AllocateServed(amount) \/ AllocateRefused(amount)
    \/ \E b \in lent : Free(b)

Spec == Init /\ [][Next]_vars

-----------------------------------------------------------------------------
TypeOK ==
    /\ heap \in [next : [Offset -> Pointer], prev : [Offset -> Pointer],
                 size : [Offset -> 0 .. Capacity], used : [Offset -> BOOLEAN],
                 next_free : [Offset -> Pointer], prev_free : [Offset -> Pointer],
                 bins : [Bin -> Pointer], nonempty_bin_mask : SUBSET Bin]
    /\ diagnostics.allocated \in 0 .. Capacity
    /\ lent \subseteq [at : Offset, amount : Amount]

(* o1heapDoInvariantsHold, for a capacity within its limits.               *)
o1heapDoInvariantsHold ==
    LET d == diagnostics
    IN  /\ \A k \in Bin : k \in heap.nonempty_bin_mask <=> heap.bins[k] # NULL
        /\ d.allocated <= d.peak_allocated /\ d.peak_allocated <= Capacity
        /\ d.allocated % FragmentSizeMin = 0 /\ d.peak_allocated % FragmentSizeMin = 0
        /\ d.peak_request_size < Capacity \/ d.oom_count > 0
        /\ IF d.peak_request_size = 0
             THEN d.peak_allocated = 0 /\ d.allocated = 0 /\ d.oom_count = 0
             ELSE d.peak_request_size + Alignment <= d.peak_allocated \/ d.oom_count > 0

Fragments == {o \in Offset : heap.size[o] > 0}
FreeFragments == {o \in Fragments : ~heap.used[o]}
BytesInUse == UNION {f .. (f + heap.size[f]) - 1 : f \in Fragments \ FreeFragments}

(***************************************************************************)
(* The chain covers the arena: from the first byte to the last every       *)
(* fragment ends where its right neighbour begins, which points back to    *)
(* it, and no two neighbours are free, so memory that was returned can be  *)
(* lent again in one piece (interlink, the split and the three merges).    *)
(***************************************************************************)
ChainTilesArena ==
    /\ 0 \in Fragments /\ heap.prev[0] = NULL
    /\ \A f \in Fragments :
         LET end == f + heap.size[f]
         IN  IF end = Capacity THEN heap.next[f] = NULL
             ELSE /\ end \in Fragments
                  /\ heap.next[f] = end /\ heap.prev[end] = f
                  /\ heap.used[f] \/ heap.used[end]
    /\ \A f, g \in Fragments : f < g => f + heap.size[f] <= g

(***************************************************************************)
(* The lists are what the chain says: each free fragment, and nothing      *)
(* else, is in the list of its own size, between the fragments its links   *)
(* name; the mask knows the lists that are not empty; the bytes in use are *)
(* the ones that allocated counts (rebin, unbin).                          *)
(***************************************************************************)
BinsHoldFreeFragments ==
    /\ \A k \in Bin :
         /\ k \in heap.nonempty_bin_mask <=> \E f \in FreeFragments : BinOf(heap, f) = k
         /\ heap.bins[k] # NULL => heap.bins[k] \in FreeFragments
                                   /\ BinOf(heap, heap.bins[k]) = k
                                   /\ heap.prev_free[heap.bins[k]] = NULL
    /\ \A f \in FreeFragments :
         LET after  == heap.next_free[f]
             before == heap.prev_free[f]
         IN  /\ IF before = NULL THEN heap.bins[BinOf(heap, f)] = f
                ELSE before \in FreeFragments /\ heap.next_free[before] = f
             /\ after # NULL => /\ after \in FreeFragments /\ heap.prev_free[after] = f
                                /\ BinOf(heap, after) = BinOf(heap, f)
    /\ diagnostics.allocated = Cardinality(BytesInUse)

(***************************************************************************)
(* o1heap.c lets its users check a heap by o1heapDoInvariantsHold: it is   *)
(* true after every sequence of calls, failed ones among them.             *)
(***************************************************************************)
SelfCheckHolds == o1heapDoInvariantsHold

(***************************************************************************)
(* The heap is a malloc: a block it lends is within the arena and overlaps *)
(* no block that is out, and it refuses a request only when no gap between *)
(* the blocks is as large as the fragment it needs.                        *)
(***************************************************************************)
Memory == INSTANCE Malloc WITH Place <- Offset, Footprint <- FragmentSize
ImplementsMalloc == Memory!Spec
=============================================================================
