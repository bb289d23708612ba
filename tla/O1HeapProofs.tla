---------------------------- MODULE O1HeapProofs ----------------------------
(***************************************************************************)
(* For every alignment, every capacity and all amounts: the chain and the  *)
(* lists stay what the fragments say, and the heap is a malloc.            *)
(***************************************************************************)
EXTENDS O1Heap, FiniteSetTheorems, WellFoundedInduction, TLAPS

-----------------------------------------------------------------------------
(* The inductive invariant.                                                *)

Heaps ==
    [next : [Offset -> Pointer], prev : [Offset -> Pointer],
     size : [Offset -> 0 .. Capacity], used : [Offset -> BOOLEAN],
     next_free : [Offset -> Pointer], prev_free : [Offset -> Pointer],
     bins : [Bin -> Pointer], nonempty_bin_mask : SUBSET Bin]

FragmentsOf(h) == {o \in Offset : h.size[o] > 0}
FreeOf(h) == {o \in FragmentsOf(h) : ~h.used[o]}
InUse(h) == {o \in FragmentsOf(h) : h.used[o]}
End(h, f) == f + h.size[f]

(* The chain: both links of each fragment lead to its neighbours.          *)
Tiled(h) ==
    /\ 0 \in FragmentsOf(h)
    /\ \A f \in FragmentsOf(h) :
         /\ h.size[f] % FragmentSizeMin = 0
         /\ IF End(h, f) = Capacity THEN h.next[f] = NULL
            ELSE End(h, f) \in FragmentsOf(h) /\ h.next[f] = End(h, f)
         /\ IF f = 0 THEN h.prev[f] = NULL
            ELSE h.prev[f] \in FragmentsOf(h) /\ End(h, h.prev[f]) = f
    /\ \A f, g \in FragmentsOf(h) : f < g => End(h, f) <= g

(* The lists: they hold the fragments of F, and none is a cycle.           *)
Listed(h, F) ==
    /\ \A k \in Bin : k \in h.nonempty_bin_mask <=> h.bins[k] # NULL
    /\ \A k \in Bin : h.bins[k] # NULL =>
         h.bins[k] \in F /\ BinOf(h, h.bins[k]) = k /\ h.prev_free[h.bins[k]] = NULL
    /\ \A f \in F :
         IF h.prev_free[f] = NULL THEN h.bins[BinOf(h, f)] = f
         ELSE h.prev_free[f] \in F /\ h.next_free[h.prev_free[f]] = f
    /\ \A f \in F : h.next_free[f] # NULL =>
         /\ h.next_free[f] \in F /\ h.prev_free[h.next_free[f]] = f
         /\ BinOf(h, h.next_free[f]) = BinOf(h, f)
    /\ \A S \in SUBSET F : S # {} => \E f \in S : h.prev_free[f] \notin S

(* A heap whose lists hold F, which may leave out fragments in transit.    *)
Arena(h, F) ==
    /\ h \in Heaps
    /\ Tiled(h)
    /\ F \subseteq FreeOf(h)
    /\ Listed(h, F)
    /\ \A f \in F : End(h, f) \notin F

(* The blocks that are out are the fragments in use.                       *)
BlocksOut(h, blocks) ==
    /\ blocks \subseteq [at : Offset, amount : Amount]
    /\ \A b \in blocks :
         b.at \in InUse(h) /\ b.amount > 0 /\ h.size[b.at] = FragmentSize(b.amount)
    /\ \A b, c \in blocks : b.at = c.at => b = c
    /\ \A f \in InUse(h) : \E b \in blocks : b.at = f

Bytes(h) == UNION {f .. End(h, f) - 1 : f \in InUse(h)}

(* What o1heapDoInvariantsHold asks of the diagnostics.                    *)
Diagnosed(d) ==
    /\ d \in [allocated : Nat, peak_allocated : Nat, peak_request_size : Nat, oom_count : Nat]
    /\ d.allocated <= d.peak_allocated /\ d.peak_allocated <= Capacity
    /\ d.allocated % FragmentSizeMin = 0 /\ d.peak_allocated % FragmentSizeMin = 0
    /\ d.peak_request_size < Capacity \/ d.oom_count > 0
    /\ d.peak_request_size = 0 => d.peak_allocated = 0 /\ d.oom_count = 0
    /\ d.peak_request_size # 0 =>
         d.peak_request_size + Alignment <= d.peak_allocated \/ d.oom_count > 0

HeapInv ==
    /\ Arena(heap, FreeOf(heap))
    /\ BlocksOut(heap, lent)
    /\ diagnostics.allocated = Cardinality(Bytes(heap))
    /\ Diagnosed(diagnostics)

-----------------------------------------------------------------------------
(* Induction: a set of natural numbers that is not empty has a least one.  *)

Below == {ss \in Nat \X Nat : ss[1] < ss[2]}

LEMMA BelowWF == IsWellFoundedOn(Below, Nat)
BY NatLessThanWellFounded DEF OpToRel, Below

LEMMA LeastNatural ==
    ASSUME NEW T \in SUBSET Nat, T # {}
    PROVE  \E x \in T : \A y \in T : x <= y
<1>1. \A x, y \in Nat : x < y => <<x, y>> \in Below
  BY DEF Below
<1>2. PICK x \in T : \A y \in T : ~(<<y, x>> \in Below)
  <2>1. T \subseteq Nat
    OBVIOUS
  <2> QED BY <2>1, BelowWF, WFMin
<1>3. ASSUME NEW y \in T PROVE x <= y
  <2>1. x \in Nat /\ y \in Nat
    OBVIOUS
  <2>2. ~(y < x)
    BY <1>1, <1>2, <2>1, Zenon
  <2> QED BY <2>1, <2>2
<1> QED BY <1>3

-----------------------------------------------------------------------------
(* Powers of two: the recursion defines a function.                        *)

Partial(f, n) ==
    /\ f \in [0 .. n -> Nat]
    /\ f[0] = 1
    /\ \A i \in 1 .. n : f[i] = 2 * f[i - 1]

LEMMA PartialExists ==
    ASSUME NEW n \in Nat
    PROVE  \E f : Partial(f, n)
<1> DEFINE T == {m \in Nat : ~\E f : Partial(f, m)}
<1> SUFFICES ASSUME n \in T PROVE FALSE
  OBVIOUS
<1>1. PICK m \in T : \A y \in T : m <= y
  <2>1. T \in SUBSET Nat /\ T # {}
    OBVIOUS
  <2> HIDE DEF T
  <2> QED BY <2>1, LeastNatural
<1>2. m \in Nat /\ ~\E f : Partial(f, m)
  OBVIOUS
<1>3. CASE m = 0
  <2> DEFINE f == [i \in 0 .. 0 |-> 1]
  <2>1. Partial(f, 0)
    BY DEF Partial
  <2> QED BY <1>2, <1>3, <2>1
<1>4. CASE m # 0
  <2>1. m - 1 \in Nat
    BY <1>2, <1>4
  <2>2. m - 1 \notin T
    BY <1>1, <1>2, <2>1
  <2>3. PICK f : Partial(f, m - 1)
    BY <2>1, <2>2
  <2> DEFINE g == [i \in 0 .. m |-> IF i = m THEN 2 * f[m - 1] ELSE f[i]]
  <2>4. f \in [0 .. m - 1 -> Nat] /\ f[0] = 1 /\ \A i \in 1 .. m - 1 : f[i] = 2 * f[i - 1]
    BY <2>3 DEF Partial
  <2>5. g \in [0 .. m -> Nat]
    BY <1>2, <1>4, <2>4
  <2>6. g[0] = 1
    BY <1>2, <1>4, <2>4
  <2>7. ASSUME NEW i \in 1 .. m PROVE g[i] = 2 * g[i - 1]
    BY <1>2, <1>4, <2>4
  <2>8. Partial(g, m)
    <3> HIDE DEF g
    <3> QED BY <2>5, <2>6, <2>7 DEF Partial
  <2> QED BY <1>2, <2>8
<1> QED BY <1>3, <1>4

LEMMA PartialUnique ==
    ASSUME NEW n \in Nat, NEW m \in Nat, NEW f, NEW g, Partial(f, n), Partial(g, m),
           NEW i \in Nat, i <= n, i <= m
    PROVE  f[i] = g[i]
<1> DEFINE T == {j \in Nat : j <= n /\ j <= m /\ f[j] # g[j]}
<1> SUFFICES ASSUME i \in T PROVE FALSE
  OBVIOUS
<1>1. PICK j \in T : \A y \in T : j <= y
  <2>1. T \in SUBSET Nat /\ T # {}
    OBVIOUS
  <2> HIDE DEF T
  <2> QED BY <2>1, LeastNatural
<1>2. j # 0
  BY DEF Partial
<1>3. f[j - 1] = g[j - 1]
  <2>1. j - 1 \in Nat /\ j - 1 \notin T
    BY <1>1, <1>2
  <2> QED BY <2>1
<1>4. f[j] = 2 * f[j - 1] /\ g[j] = 2 * g[j - 1]
  BY <1>2 DEF Partial
<1> QED BY <1>3, <1>4

LEMMA Pow2Def == pow2 = [k \in Nat |-> IF k = 0 THEN 1 ELSE 2 * pow2[k - 1]]
<1> DEFINE part(n) == CHOOSE f : Partial(f, n)
           g == [n \in Nat |-> part(n)[n]]
<1>1. ASSUME NEW n \in Nat PROVE Partial(part(n), n)
  BY PartialExists
<1> HIDE DEF part
<1>2. ASSUME NEW k \in Nat PROVE g[k] = IF k = 0 THEN 1 ELSE 2 * g[k - 1]
  <2>1. CASE k = 0
    BY <1>1, <2>1 DEF Partial
  <2>2. CASE k # 0
    <3>1. k - 1 \in Nat
      BY <2>2
    <3>2. part(k)[k] = 2 * part(k)[k - 1]
      BY <1>1, <2>2 DEF Partial
    <3>3. Partial(part(k), k) /\ Partial(part(k - 1), k - 1)
      BY <1>1, <3>1
    <3>4. part(k)[k - 1] = part(k - 1)[k - 1]
      BY <3>1, <3>3, PartialUnique
    <3> QED BY <2>2, <3>1, <3>2, <3>4
  <2> QED BY <2>1, <2>2
<1>3. g = [k \in Nat |-> IF k = 0 THEN 1 ELSE 2 * g[k - 1]]
  BY <1>2
<1>4. \E h : h = [k \in Nat |-> IF k = 0 THEN 1 ELSE 2 * h[k - 1]]
  BY <1>3
<1> HIDE DEF g
<1> QED BY <1>4, Zenon DEF pow2

LEMMA Pow2Step ==
    /\ pow2[0] = 1
    /\ \A k \in Nat : pow2[k + 1] = 2 * pow2[k]
<1>1. pow2[0] = 1
  BY Pow2Def
<1>2. ASSUME NEW k \in Nat PROVE pow2[k + 1] = 2 * pow2[k]
  <2>1. k + 1 \in Nat /\ k + 1 # 0 /\ (k + 1) - 1 = k
    OBVIOUS
  <2> QED BY <2>1, Pow2Def
<1> QED BY <1>1, <1>2

(* The same induction, for any set of exponents that 0 begins.             *)
LEMMA EveryNatural ==
    ASSUME NEW P \in SUBSET Nat, 0 \in P, \A k \in P : k + 1 \in P
    PROVE  \A k \in Nat : k \in P
<1> SUFFICES ASSUME NEW k \in Nat, k \notin P PROVE FALSE
  OBVIOUS
<1>1. PICK m \in Nat \ P : \A y \in Nat \ P : m <= y
  BY LeastNatural
<1>2. m # 0
  OBVIOUS
<1>3. m - 1 \in Nat
  BY <1>2
<1>4. m - 1 \in P
  BY <1>1, <1>3
<1>5. (m - 1) + 1 \in P
  BY <1>4
<1> QED BY <1>5

LEMMA Pow2Type == \A k \in Nat : pow2[k] \in Nat /\ pow2[k] > k
<1> DEFINE P == {k \in Nat : pow2[k] \in Nat /\ pow2[k] > k}
<1>1. 0 \in P
  BY Pow2Step
<1>2. ASSUME NEW k \in P PROVE k + 1 \in P
  BY Pow2Step
<1>3. P \in SUBSET Nat
  OBVIOUS
<1> HIDE DEF P
<1>4. \A k \in Nat : k \in P
  BY <1>1, <1>2, <1>3, EveryNatural
<1> QED BY <1>4 DEF P

LEMMA Pow2Monotone ==
    ASSUME NEW j \in Nat, NEW k \in Nat
    PROVE  j < k <=> pow2[j] < pow2[k]
<1>1. ASSUME NEW i \in Nat, NEW l \in Nat, i < l PROVE pow2[i] < pow2[l]
  <2> DEFINE P == {d \in Nat : pow2[i] < pow2[i + d + 1]}
  <2>1. pow2[i] \in Nat /\ pow2[i] > 0
    BY Pow2Type
  <2>2. 0 \in P
    BY <2>1, Pow2Step
  <2>3. ASSUME NEW d \in P PROVE d + 1 \in P
    <3>1. i + d + 1 \in Nat /\ i + (d + 1) + 1 = (i + d + 1) + 1
      OBVIOUS
    <3>2. pow2[i + d + 1] \in Nat /\ pow2[i] < pow2[i + d + 1]
      BY <3>1, Pow2Type
    <3>3. pow2[i + (d + 1) + 1] = 2 * pow2[i + d + 1]
      BY <3>1, Pow2Step
    <3> QED BY <2>1, <3>2, <3>3
  <2>4. P \in SUBSET Nat
    OBVIOUS
  <2> HIDE DEF P
  <2>5. \A d \in Nat : d \in P
    BY <2>2, <2>3, <2>4, EveryNatural
  <2>6. l - i - 1 \in Nat /\ i + (l - i - 1) + 1 = l
    BY <1>1
  <2> QED BY <2>5, <2>6 DEF P
<1>2. pow2[j] \in Nat /\ pow2[k] \in Nat
  BY Pow2Type
<1>3. j < k \/ j = k \/ k < j
  OBVIOUS
<1> QED BY <1>1, <1>2, <1>3

LEMMA Pow2Product ==
    ASSUME NEW j \in Nat, NEW k \in Nat
    PROVE  pow2[j + k] = pow2[j] * pow2[k]
<1> DEFINE P == {d \in Nat : pow2[j + d] = pow2[j] * pow2[d]}
<1>1. pow2[j] \in Nat
  BY Pow2Type
<1>2. 0 \in P
  BY <1>1, Pow2Step
<1>3. ASSUME NEW d \in P PROVE d + 1 \in P
  <2>1. d \in Nat /\ j + d \in Nat /\ j + (d + 1) = (j + d) + 1
    OBVIOUS
  <2>2. pow2[j + (d + 1)] = 2 * pow2[j + d] /\ pow2[d + 1] = 2 * pow2[d]
    BY <2>1, Pow2Step
  <2>3. pow2[j + d] = pow2[j] * pow2[d]
    OBVIOUS
  <2>4. pow2[d] \in Nat
    BY <2>1, Pow2Type
  <2> QED BY <1>1, <2>2, <2>3, <2>4
<1>4. P \in SUBSET Nat
  OBVIOUS
<1> HIDE DEF P
<1>5. \A d \in Nat : d \in P
  BY <1>2, <1>3, <1>4, EveryNatural
<1> QED BY <1>5 DEF P

LEMMA FloorExists ==
    ASSUME NEW x \in Nat \ {0}
    PROVE  \E k \in 0 .. x : pow2[k] <= x /\ x < pow2[k + 1]
<1> DEFINE T == {k \in Nat : x < pow2[k + 1]}
<1>1. x < pow2[x + 1]
  BY Pow2Type
<1>2. T \in SUBSET Nat /\ T # {}
  BY <1>1
<1> HIDE DEF T
<1>3. PICK k \in T : \A y \in T : k <= y
  BY <1>2, LeastNatural
<1>4. k \in Nat /\ x < pow2[k + 1]
  BY DEF T
<1>5. pow2[k] <= x
  <2>1. CASE k = 0
    BY <2>1, Pow2Step
  <2>2. CASE k # 0
    <3>1. k - 1 \in Nat /\ (k - 1) + 1 = k
      BY <1>4, <2>2
    <3>2. k - 1 \notin T
      BY <1>3, <1>4, <3>1
    <3>3. ~(x < pow2[k])
      BY <3>1, <3>2 DEF T
    <3> QED BY <1>4, <3>3, Pow2Type
  <2> QED BY <2>1, <2>2
<1>6. k <= x
  BY <1>4, <1>5, Pow2Type
<1> QED BY <1>4, <1>5, <1>6

LEMMA Log2Floor ==
    ASSUME NEW x \in Nat \ {0}
    PROVE  /\ log2Floor(x) \in Nat
           /\ pow2[log2Floor(x)] <= x
           /\ x < pow2[log2Floor(x) + 1]
<1>1. \E k \in 0 .. x : pow2[k] <= x /\ x < pow2[k + 1]
  BY FloorExists
<1>2. /\ log2Floor(x) \in 0 .. x
      /\ pow2[log2Floor(x)] <= x /\ x < pow2[log2Floor(x) + 1]
  BY <1>1, Zenon DEF log2Floor
<1> QED BY <1>2

(* log2Floor(x) is at least j when x is at least that power.               *)
LEMMA FloorAtLeast ==
    ASSUME NEW x \in Nat \ {0}, NEW j \in Nat
    PROVE  j <= log2Floor(x) <=> pow2[j] <= x
<1> DEFINE k == log2Floor(x)
<1>1. k \in Nat /\ pow2[k] <= x /\ x < pow2[k + 1]
  BY Log2Floor
<1> HIDE DEF k
<1>2. pow2[k] \in Nat /\ pow2[k + 1] \in Nat /\ pow2[j] \in Nat
  BY <1>1, Pow2Type
<1>3. j < k <=> pow2[j] < pow2[k]
  BY <1>1, Pow2Monotone
<1>4. j < k + 1 <=> pow2[j] < pow2[k + 1]
  BY <1>1, Pow2Monotone
<1>5. k + 1 < j <=> pow2[k + 1] < pow2[j]
  BY <1>1, Pow2Monotone
<1>6. CASE j <= k
  BY <1>1, <1>2, <1>3, <1>6 DEF k
<1>7. CASE k < j
  BY <1>1, <1>2, <1>4, <1>7 DEF k
<1> QED BY <1>1, <1>6, <1>7

LEMMA Log2Ceil ==
    ASSUME NEW x \in Nat \ {0}
    PROVE  /\ log2Ceil(x) \in Nat
           /\ x <= pow2[log2Ceil(x)]
           /\ \A j \in Nat : x <= pow2[j] => log2Ceil(x) <= j
<1>1. CASE x = 1
  BY <1>1, Pow2Step, Pow2Type DEF log2Ceil
<1>2. CASE x # 1
  <2>1. x - 1 \in Nat \ {0}
    BY <1>2
  <2> DEFINE k == log2Floor(x - 1)
  <2>2. k \in Nat /\ x - 1 < pow2[k + 1]
    BY <2>1, Log2Floor
  <2>3. log2Ceil(x) = 1 + k /\ 1 + k = k + 1
    BY <1>2, <2>2 DEF log2Ceil
  <2>4. pow2[k + 1] \in Nat
    BY <2>2, Pow2Type
  <2>5. ASSUME NEW j \in Nat, x <= pow2[j] PROVE k + 1 <= j
    <3>1. j <= k <=> pow2[j] <= x - 1
      BY <2>1, FloorAtLeast
    <3>2. pow2[j] \in Nat
      BY Pow2Type
    <3> HIDE DEF k
    <3> QED BY <2>2, <2>5, <3>1, <3>2
  <2> HIDE DEF k
  <2> QED BY <2>2, <2>3, <2>4, <2>5
<1> QED BY <1>1, <1>2

-----------------------------------------------------------------------------
(* Sizes: multiples of the least one, and powers of two for requests.      *)

LEMMA Constants ==
    /\ \E a \in Nat : Alignment = pow2[a] /\ FragmentSizeMin = pow2[a + 1]
    /\ Alignment \in Nat \ {0} /\ FragmentSizeMin \in Nat \ {0}
    /\ FragmentSizeMin = 2 * Alignment
    /\ Capacity \in Nat /\ FragmentSizeMin <= Capacity /\ Capacity % FragmentSizeMin = 0
    /\ NumBins \in Nat /\ Capacity < pow2[NumBins]
<1>1. PICK a \in 0 .. NumBins : Alignment = pow2[a]
  BY O1HeapAssumption
<1>2. a \in Nat
  BY O1HeapAssumption
<1>3. pow2[a] \in Nat \ {0} /\ pow2[a + 1] = 2 * pow2[a]
  BY <1>2, Pow2Type, Pow2Step
<1> QED BY <1>1, <1>2, <1>3, O1HeapAssumption DEF FragmentSizeMin

LEMMA Quotient ==
    ASSUME NEW x \in Int, NEW n \in Int, n > 0
    PROVE  x = n * (x \div n) + (x % n) /\ x % n \in 0 .. n - 1 /\ x \div n \in Int
BY SMTT(60)

LEMMA Factor ==
    ASSUME NEW n \in Nat \ {0}, NEW k \in Int
    PROVE  (n * k) \div n = k /\ (n * k) % n = 0
<1>1. (n * k) \div n = k
  BY SMT
<1>2. n * k = n * ((n * k) \div n) + ((n * k) % n)
  <2>1. PICK x : x = n * k
    OBVIOUS
  <2>2. x \in Int
    BY <2>1
  <2>3. x = n * (x \div n) + (x % n)
    BY <2>2, Quotient
  <2> QED BY <2>1, <2>3
<1> QED BY <1>1, <1>2

Multiple(x) == x \in Int /\ x % FragmentSizeMin = 0

LEMMA MultipleIs ==
    ASSUME NEW x
    PROVE  Multiple(x) <=> \E q \in Int : x = FragmentSizeMin * q
<1>1. FragmentSizeMin \in Nat \ {0}
  BY Constants
<1>2. ASSUME Multiple(x) PROVE \E q \in Int : x = FragmentSizeMin * q
  <2>1. /\ x = FragmentSizeMin * (x \div FragmentSizeMin) + (x % FragmentSizeMin)
        /\ x \div FragmentSizeMin \in Int
    BY <1>1, <1>2, Quotient DEF Multiple
  <2>2. x = FragmentSizeMin * (x \div FragmentSizeMin)
    BY <1>1, <1>2, <2>1 DEF Multiple
  <2> QED BY <2>1, <2>2
<1>3. ASSUME NEW q \in Int, x = FragmentSizeMin * q PROVE Multiple(x)
  BY <1>1, <1>3, Factor DEF Multiple
<1> QED BY <1>2, <1>3

LEMMA Multiples ==
    ASSUME NEW x, NEW y, Multiple(x), Multiple(y)
    PROVE  /\ Multiple(x + y) /\ Multiple(x - y)
           /\ x < y => x + FragmentSizeMin <= y
<1>1. FragmentSizeMin \in Nat \ {0}
  BY Constants
<1>2. PICK q \in Int : x = FragmentSizeMin * q
  BY MultipleIs
<1>3. PICK r \in Int : y = FragmentSizeMin * r
  BY MultipleIs
<1>4. PICK n \in Nat \ {0} : n = FragmentSizeMin
  BY <1>1
<1>5. x = n * q /\ y = n * r
  BY <1>2, <1>3, <1>4
<1>6. x + y = n * (q + r) /\ x - y = n * (q - r)
  BY <1>5, SMTT(30)
<1>7. ASSUME n * q < n * r PROVE n * q + n <= n * r
  <2>1. q < r
    BY <1>7, SMTT(30)
  <2>2. q + 1 <= r
    BY <2>1
  <2>3. n * (q + 1) <= n * r
    BY <2>2, SMTT(30)
  <2> QED BY <2>3, SMTT(30)
<1>8. Multiple(x + y) /\ Multiple(x - y)
  <2>1. q + r \in Int /\ x + y = FragmentSizeMin * (q + r)
    BY <1>4, <1>6
  <2>2. q - r \in Int /\ x - y = FragmentSizeMin * (q - r)
    BY <1>4, <1>6
  <2>3. PICK u : u = x + y
    OBVIOUS
  <2>4. PICK v : v = x - y
    OBVIOUS
  <2>5. Multiple(u)
    BY <2>1, <2>3, MultipleIs
  <2>6. Multiple(v)
    BY <2>2, <2>4, MultipleIs
  <2> QED BY <2>3, <2>4, <2>5, <2>6
<1> QED BY <1>4, <1>5, <1>7, <1>8

LEMMA FragmentSizeIs ==
    ASSUME NEW amount \in Nat \ {0}
    PROVE  /\ FragmentSize(amount) \in Nat /\ FragmentSizeMin <= FragmentSize(amount)
           /\ amount + Alignment <= FragmentSize(amount)
           /\ Multiple(FragmentSize(amount))
           /\ \E j \in Nat : /\ FragmentSize(amount) = FragmentSizeMin * pow2[j]
                             /\ log2Ceil(FragmentSize(amount) \div FragmentSizeMin) = j
<1>1. PICK a \in Nat : Alignment = pow2[a] /\ FragmentSizeMin = pow2[a + 1]
  BY Constants
<1>2. amount + Alignment \in Nat \ {0} /\ Alignment < amount + Alignment
  BY Constants
<1> DEFINE c == log2Ceil(amount + Alignment)
<1>3. c \in Nat /\ amount + Alignment <= pow2[c]
  BY <1>2, Log2Ceil
<1>4. FragmentSize(amount) = pow2[c]
  BY DEF FragmentSize, roundUpToPowerOf2
<1> HIDE DEF c
<1>5. pow2[a] \in Nat /\ pow2[c] \in Nat /\ pow2[a + 1] \in Nat
  BY <1>3, Pow2Type
<1>6. a < c
  <2>1. pow2[a] < pow2[c]
    BY <1>1, <1>2, <1>3, <1>5
  <2> QED BY <1>3, <2>1, Pow2Monotone
<1> DEFINE j == c - a - 1
<1>7. j \in Nat /\ (a + 1) + j = c /\ a + 1 \in Nat
  BY <1>3, <1>6
<1>8. pow2[c] = pow2[a + 1] * pow2[j]
  BY <1>7, Pow2Product
<1>9. pow2[j] \in Nat \ {0}
  BY <1>7, Pow2Type
<1>10. FragmentSize(amount) = FragmentSizeMin * pow2[j]
  BY <1>1, <1>4, <1>8
<1>11. FragmentSize(amount) \div FragmentSizeMin = pow2[j]
  BY <1>9, <1>10, Constants, Factor
<1>12. log2Ceil(pow2[j]) = j
  <2>1. /\ log2Ceil(pow2[j]) \in Nat /\ pow2[j] <= pow2[log2Ceil(pow2[j])]
        /\ \A l \in Nat : pow2[j] <= pow2[l] => log2Ceil(pow2[j]) <= l
    BY <1>9, Log2Ceil
  <2>2. log2Ceil(pow2[j]) <= j
    BY <1>7, <1>9, <2>1
  <2>3. ~(log2Ceil(pow2[j]) < j)
    <3> DEFINE l == log2Ceil(pow2[j])
    <3>1. l < j <=> pow2[l] < pow2[j]
      BY <1>7, <2>1, Pow2Monotone
    <3>2. pow2[l] \in Nat
      BY <2>1, Pow2Type
    <3> QED BY <1>9, <2>1, <3>1, <3>2
  <2> QED BY <1>7, <2>1, <2>2, <2>3
<1>13. pow2[a + 1] <= pow2[c]
  <2>1. a + 1 < c \/ a + 1 = c
    BY <1>3, <1>6
  <2>2. a + 1 < c => pow2[a + 1] < pow2[c]
    BY <1>3, <1>7, Pow2Monotone
  <2> QED BY <1>5, <2>1, <2>2
<1>14. Multiple(FragmentSize(amount))
  BY <1>9, <1>10, MultipleIs
<1> HIDE DEF j
<1> QED BY <1>1, <1>3, <1>4, <1>5, <1>7, <1>10, <1>11, <1>12, <1>13, <1>14

(* The bins that suit a request are those of the sizes that do.            *)
LEMMA Suits ==
    ASSUME NEW amount \in Nat \ {0}, NEW s \in Nat \ {0}, Multiple(s)
    PROVE  /\ s \div FragmentSizeMin \in Nat \ {0}
           /\ log2Ceil(FragmentSize(amount) \div FragmentSizeMin)
                <= log2Floor(s \div FragmentSizeMin) <=> FragmentSize(amount) <= s
<1>1. PICK j \in Nat : /\ FragmentSize(amount) = FragmentSizeMin * pow2[j]
                       /\ log2Ceil(FragmentSize(amount) \div FragmentSizeMin) = j
  BY FragmentSizeIs
<1>2. PICK q \in Int : s = FragmentSizeMin * q
  BY MultipleIs
<1>3. PICK n \in Nat \ {0} : n = FragmentSizeMin
  BY Constants
<1>4. q \in Nat \ {0}
  BY <1>2, <1>3, SMTT(30)
<1>5. s \div FragmentSizeMin = q
  BY <1>2, <1>3, Factor
<1>6. j <= log2Floor(q) <=> pow2[j] <= q
  BY <1>4, FloorAtLeast
<1>7. PICK p \in Nat : p = pow2[j]
  BY Pow2Type
<1>8. p <= q <=> n * p <= n * q
  BY <1>3, <1>4, <1>7, SMTT(30)
<1> QED BY <1>1, <1>2, <1>3, <1>4, <1>5, <1>6, <1>7, <1>8

LEMMA BinInRange ==
    ASSUME NEW s \in 1 .. Capacity, Multiple(s)
    PROVE  log2Floor(s \div FragmentSizeMin) \in Bin
<1>1. s \in Nat \ {0}
  OBVIOUS
<1>2. PICK q \in Int : s = FragmentSizeMin * q
  BY MultipleIs
<1>3. PICK n \in Nat \ {0} : n = FragmentSizeMin
  BY Constants
<1>4. q \in Nat \ {0} /\ q <= s
  BY <1>1, <1>2, <1>3, SMTT(30)
<1>5. s \div FragmentSizeMin = q
  BY <1>2, <1>3, Factor
<1>6. log2Floor(q) \in Nat
  BY <1>4, Log2Floor
<1>7. NumBins <= log2Floor(q) <=> pow2[NumBins] <= q
  BY <1>4, Constants, FloorAtLeast
<1>8. Capacity < pow2[NumBins] /\ pow2[NumBins] \in Nat /\ Capacity \in Nat /\ NumBins \in Nat
  BY Constants, Pow2Type
<1> QED BY <1>4, <1>5, <1>6, <1>7, <1>8 DEF Bin

LEMMA OffsetIs == \A o : o \in Offset <=> o \in 0 .. Capacity - 1 /\ Multiple(o)
BY DEF Offset, Multiple

LEMMA NullIs == NULL \notin Offset /\ NULL \in Pointer /\ NULL \in Int /\ 0 \in Offset
<1>1. 0 \in Offset
  <2>1. 0 = FragmentSizeMin * 0
    BY Constants
  <2>2. Multiple(0)
    BY <2>1, MultipleIs
  <2> QED BY <2>2, OffsetIs, Constants
<1> QED BY <1>1 DEF NULL, Offset, Pointer

-----------------------------------------------------------------------------
(* What each operator on the heap leaves and changes, field by field: r is *)
(* the heap h after the operation.                                         *)

SameLists(h, r) ==
    /\ r.next_free = h.next_free /\ r.prev_free = h.prev_free
    /\ r.bins = h.bins /\ r.nonempty_bin_mask = h.nonempty_bin_mask

SameChain(h, r) ==
    /\ r.next = h.next /\ r.prev = h.prev /\ r.size = h.size /\ r.used = h.used

Interlinked(h, left, right, r) ==
    /\ r \in Heaps /\ SameLists(h, r)
    /\ r.size = h.size /\ r.used = h.used
    /\ \A o \in Offset : r.next[o] = IF o = left THEN right ELSE h.next[o]
    /\ \A o \in Offset : r.prev[o] = IF o = right THEN left ELSE h.prev[o]

Rebound(h, f, r) ==
    LET bin  == BinOf(h, f)
        head == h.bins[bin]
    IN  /\ r \in Heaps /\ SameChain(h, r)
        /\ \A o \in Offset : r.next_free[o] = IF o = f THEN head ELSE h.next_free[o]
        /\ \A o \in Offset : r.prev_free[o] =
             IF o = head THEN f ELSE IF o = f THEN NULL ELSE h.prev_free[o]
        /\ \A k \in Bin : r.bins[k] = IF k = bin THEN f ELSE h.bins[k]
        /\ r.nonempty_bin_mask = h.nonempty_bin_mask \cup {bin}

Unbound(h, f, r) ==
    LET bin    == BinOf(h, f)
        after  == h.next_free[f]
        before == h.prev_free[f]
    IN  /\ r \in Heaps /\ SameChain(h, r)
        /\ \A o \in Offset : r.next_free[o] = IF o = before THEN after ELSE h.next_free[o]
        /\ \A o \in Offset : r.prev_free[o] = IF o = after THEN before ELSE h.prev_free[o]
        /\ \A k \in Bin : r.bins[k] = IF k = bin /\ h.bins[bin] = f THEN after ELSE h.bins[k]
        /\ \A k \in Bin : k \in r.nonempty_bin_mask <=>
             k \in h.nonempty_bin_mask /\ ~(k = bin /\ h.bins[bin] = f /\ after = NULL)

SameBinsBut(h, r, f) ==
    /\ r.bins = h.bins /\ r.nonempty_bin_mask = h.nonempty_bin_mask
    /\ \A o \in Offset : o # f =>
         r.next_free[o] = h.next_free[o] /\ r.prev_free[o] = h.prev_free[o]

Lent(h, f, r) ==
    /\ r \in Heaps /\ SameBinsBut(h, r, f)
    /\ r.next = h.next /\ r.prev = h.prev /\ r.size = h.size
    /\ \A o \in Offset : r.used[o] <=> o = f \/ h.used[o]

Released(h, f, r) ==
    /\ r \in Heaps /\ SameLists(h, r)
    /\ r.next = h.next /\ r.prev = h.prev /\ r.size = h.size
    /\ \A o \in Offset : r.used[o] <=> o # f /\ h.used[o]

Absorbed(h, left, right, r) ==
    /\ r \in Heaps /\ SameBinsBut(h, r, right)
    /\ \A o \in Offset : r.size[o] =
         IF o = right THEN 0 ELSE IF o = left THEN h.size[left] + h.size[right] ELSE h.size[o]
    /\ \A o \in Offset : r.used[o] <=> o # right /\ h.used[o]
    /\ \A o \in Offset : r.next[o] =
         IF o = right THEN NULL ELSE IF o = left THEN h.next[right] ELSE h.next[o]
    /\ \A o \in Offset : r.prev[o] =
         IF o = right THEN NULL ELSE IF o = h.next[right] THEN left ELSE h.prev[o]

(* After a split, before the rest is put into its list.                    *)
WasCut(h, f, rest, r) ==
    /\ r \in Heaps /\ SameLists(h, r)
    /\ \A o \in Offset : r.size[o] =
         IF o = f THEN rest - f ELSE IF o = rest THEN h.size[f] - (rest - f) ELSE h.size[o]
    /\ \A o \in Offset : r.used[o] <=> o # rest /\ h.used[o]
    /\ \A o \in Offset : r.next[o] =
         IF o = f THEN rest ELSE IF o = rest THEN h.next[f] ELSE h.next[o]
    /\ \A o \in Offset : r.prev[o] =
         IF o = rest THEN f ELSE IF o = h.next[f] THEN rest ELSE h.prev[o]

LEMMA InterlinkIs ==
    ASSUME NEW h \in Heaps, NEW left \in Pointer, NEW right \in Pointer
    PROVE  Interlinked(h, left, right, interlink(h, left, right))
<1>1. \A p \in Pointer : p # NULL => p \in Offset
  BY DEF Pointer
<1>2. NULL \notin Offset
  BY NullIs
<1> DEFINE onward == IF left # NULL THEN [h EXCEPT !.next[left] = right] ELSE h
<1>3. /\ onward \in Heaps /\ SameLists(h, onward)
      /\ onward.size = h.size /\ onward.used = h.used /\ onward.prev = h.prev
      /\ \A o \in Offset : onward.next[o] = IF o = left THEN right ELSE h.next[o]
  BY <1>1, <1>2 DEF Heaps, SameLists
<1>4. interlink(h, left, right) = IF right # NULL THEN [onward EXCEPT !.prev[right] = left] ELSE onward
  BY DEF interlink
<1> HIDE DEF onward
<1> QED BY <1>1, <1>2, <1>3, <1>4 DEF Heaps, SameLists, Interlinked

LEMMA RebinIs ==
    ASSUME NEW h \in Heaps, NEW f \in Offset, BinOf(h, f) \in Bin
    PROVE  Rebound(h, f, rebin(h, f))
<1>1. \A p \in Pointer : p # NULL => p \in Offset
  BY DEF Pointer
<1>2. NULL \notin Offset /\ NULL \in Pointer /\ f \in Pointer
  BY NullIs DEF Pointer
<1>3. PICK bin \in Bin : bin = BinOf(h, f)
  OBVIOUS
<1>4. PICK head \in Pointer : head = h.bins[bin]
  BY DEF Heaps
<1> DEFINE put == [h EXCEPT !.next_free[f] = head, !.prev_free[f] = NULL,
                            !.bins[bin] = f, !.nonempty_bin_mask = @ \cup {bin}]
<1>5. rebin(h, f) = IF head # NULL THEN [put EXCEPT !.prev_free[head] = f] ELSE put
  BY <1>3, <1>4, Zenon DEF rebin
<1>6. /\ put \in Heaps /\ SameChain(h, put)
      /\ \A o \in Offset : put.next_free[o] = IF o = f THEN head ELSE h.next_free[o]
      /\ \A o \in Offset : put.prev_free[o] = IF o = f THEN NULL ELSE h.prev_free[o]
      /\ \A k \in Bin : put.bins[k] = IF k = bin THEN f ELSE h.bins[k]
      /\ put.nonempty_bin_mask = h.nonempty_bin_mask \cup {bin}
  BY <1>2 DEF Heaps, SameChain
<1> HIDE DEF put
<1> DEFINE r == IF head # NULL THEN [put EXCEPT !.prev_free[head] = f] ELSE put
<1>7. /\ r \in Heaps /\ SameChain(h, r)
      /\ \A o \in Offset : r.next_free[o] = IF o = f THEN head ELSE h.next_free[o]
      /\ \A o \in Offset : r.prev_free[o] =
            IF o = head THEN f ELSE IF o = f THEN NULL ELSE h.prev_free[o]
      /\ \A k \in Bin : r.bins[k] = IF k = bin THEN f ELSE h.bins[k]
      /\ r.nonempty_bin_mask = h.nonempty_bin_mask \cup {bin}
  BY <1>1, <1>2, <1>6 DEF Heaps, SameChain
<1> HIDE DEF r
<1>8. Rebound(h, f, r)
  BY <1>3, <1>4, <1>7, Zenon DEF Rebound
<1> QED BY <1>5, <1>8 DEF r

LEMMA UnbinIs ==
    ASSUME NEW h \in Heaps, NEW f \in Offset, BinOf(h, f) \in Bin
    PROVE  Unbound(h, f, unbin(h, f))
<1>1. \A p \in Pointer : p # NULL => p \in Offset
  BY DEF Pointer
<1>2. NULL \notin Offset
  BY NullIs
<1>3. PICK bin \in Bin : bin = BinOf(h, f)
  OBVIOUS
<1>4. PICK after \in Pointer : after = h.next_free[f]
  BY DEF Heaps
<1>5. PICK before \in Pointer : before = h.prev_free[f]
  BY DEF Heaps
<1> DEFINE passed == IF after # NULL THEN [h EXCEPT !.prev_free[after] = before] ELSE h
           closed == IF before # NULL THEN [passed EXCEPT !.next_free[before] = after] ELSE passed
           r == IF h.bins[bin] # f THEN closed
                ELSE [closed EXCEPT !.bins[bin] = after,
                         !.nonempty_bin_mask = IF after = NULL THEN @ \ {bin} ELSE @]
<1>6. unbin(h, f) = r
  BY <1>3, <1>4, <1>5, Zenon DEF unbin
<1>7. /\ passed \in Heaps /\ SameChain(h, passed)
      /\ passed.next_free = h.next_free /\ passed.bins = h.bins
      /\ passed.nonempty_bin_mask = h.nonempty_bin_mask
      /\ \A o \in Offset : passed.prev_free[o] = IF o = after THEN before ELSE h.prev_free[o]
  BY <1>1, <1>2 DEF Heaps, SameChain
<1> HIDE DEF passed
<1>8. /\ closed \in Heaps /\ SameChain(h, closed)
      /\ closed.bins = h.bins /\ closed.nonempty_bin_mask = h.nonempty_bin_mask
      /\ \A o \in Offset : closed.next_free[o] = IF o = before THEN after ELSE h.next_free[o]
      /\ \A o \in Offset : closed.prev_free[o] = IF o = after THEN before ELSE h.prev_free[o]
  BY <1>1, <1>2, <1>7 DEF Heaps, SameChain
<1> HIDE DEF closed
<1>9. /\ r \in Heaps /\ SameChain(h, r)
      /\ \A o \in Offset : r.next_free[o] = IF o = before THEN after ELSE h.next_free[o]
      /\ \A o \in Offset : r.prev_free[o] = IF o = after THEN before ELSE h.prev_free[o]
  BY <1>8 DEF Heaps, SameChain
<1>10. \A k \in Bin : r.bins[k] = IF k = bin /\ h.bins[bin] = f THEN after ELSE h.bins[k]
  BY <1>8 DEF Heaps
<1>11. \A k \in Bin : k \in r.nonempty_bin_mask <=>
          k \in h.nonempty_bin_mask /\ ~(k = bin /\ h.bins[bin] = f /\ after = NULL)
  BY <1>8 DEF Heaps
<1> HIDE DEF r
<1>12. Unbound(h, f, r)
  BY <1>3, <1>4, <1>5, <1>9, <1>10, <1>11, Zenon DEF Unbound
<1> QED BY <1>6, <1>12

LEMMA HandedOutIs ==
    ASSUME NEW h \in Heaps, NEW f \in Offset
    PROVE  Lent(h, f, HandedOut(h, f))
BY NullIs DEF Heaps, HandedOut, Lent, SameBinsBut

LEMMA ReleasedIs ==
    ASSUME NEW h \in Heaps, NEW f \in Offset
    PROVE  Released(h, f, [h EXCEPT !.used[f] = FALSE])
BY DEF Heaps, SameLists, Released

LEMMA AbsorbIs ==
    ASSUME NEW h \in Heaps, NEW left \in Offset, NEW right \in Offset, left # right,
           h.size[left] + h.size[right] <= Capacity
    PROVE  Absorbed(h, left, right, Absorb(h, left, right))
<1>1. PICK sum \in 0 .. Capacity : sum = h.size[left] + h.size[right]
  BY Constants DEF Heaps
<1>2. PICK after \in Pointer : after = h.next[right]
  BY DEF Heaps
<1> DEFINE grown == [h EXCEPT !.size[left] = sum]
           joined == interlink(grown, left, after)
<1>3. Absorb(h, left, right) = Dropped(joined, right)
  <2>1. [h EXCEPT !.size[left] = @ + h.size[right]] = grown
    BY <1>1
  <2> HIDE DEF grown
  <2> QED BY <1>2, <2>1 DEF Absorb
<1>4. /\ grown \in Heaps /\ SameLists(h, grown)
      /\ grown.next = h.next /\ grown.prev = h.prev /\ grown.used = h.used
      /\ \A o \in Offset : grown.size[o] = IF o = left THEN sum ELSE h.size[o]
  BY DEF Heaps, SameLists
<1> HIDE DEF grown
<1>5. left \in Pointer
  BY DEF Pointer
<1>6. Interlinked(grown, left, after, joined)
  BY <1>4, <1>5, InterlinkIs, Zenon
<1> HIDE DEF joined
<1> DEFINE r == Dropped(joined, right)
<1>7. 0 \in 0 .. Capacity /\ joined \in Heaps
  BY <1>6, Constants DEF Interlinked
<1>8. /\ r \in Heaps /\ SameBinsBut(joined, r, right)
      /\ \A o \in Offset : r.size[o] = IF o = right THEN 0 ELSE joined.size[o]
      /\ \A o \in Offset : r.used[o] <=> o # right /\ joined.used[o]
      /\ \A o \in Offset : r.next[o] = IF o = right THEN NULL ELSE joined.next[o]
      /\ \A o \in Offset : r.prev[o] = IF o = right THEN NULL ELSE joined.prev[o]
  BY <1>7, NullIs DEF Heaps, Dropped, SameBinsBut
<1> HIDE DEF r
<1>9. /\ SameBinsBut(h, r, right)
      /\ \A o \in Offset : r.size[o] =
            IF o = right THEN 0 ELSE IF o = left THEN sum ELSE h.size[o]
      /\ \A o \in Offset : r.used[o] <=> o # right /\ h.used[o]
  BY <1>4, <1>6, <1>8 DEF SameLists, SameBinsBut, Interlinked
<1>10. /\ \A o \in Offset : r.next[o] =
            IF o = right THEN NULL ELSE IF o = left THEN after ELSE h.next[o]
       /\ \A o \in Offset : r.prev[o] =
            IF o = right THEN NULL ELSE IF o = after THEN left ELSE h.prev[o]
  BY <1>4, <1>6, <1>8 DEF Interlinked
<1>11. Absorbed(h, left, right, r)
  BY <1>1, <1>2, <1>8, <1>9, <1>10 DEF Absorbed
<1> QED BY <1>3, <1>11 DEF r

LEMMA CutIs ==
    ASSUME NEW h \in Heaps, NEW f \in Offset, NEW rest \in Offset, f < rest,
           NEW wanted \in Nat, rest = f + wanted, wanted <= h.size[f],
           NEW cut, cut = [h EXCEPT !.size[f] = wanted]
    PROVE  WasCut(h, f, rest,
                  interlink(interlink([cut EXCEPT !.size[rest] = h.size[f] - wanted,
                                                  !.used[rest] = FALSE],
                                      rest, h.next[f]), f, rest))
<1>1. PICK leftover \in 0 .. Capacity : leftover = h.size[f] - wanted
  BY Constants DEF Heaps, Offset
<1>2. PICK after \in Pointer : after = h.next[f]
  BY DEF Heaps
<1>3. rest # f /\ rest \in Pointer /\ f \in Pointer
  BY DEF Offset, Pointer
<1>4. wanted \in 0 .. Capacity /\ wanted = rest - f
  BY <1>1, Constants DEF Heaps, Offset
<1> DEFINE sized == [cut EXCEPT !.size[rest] = leftover, !.used[rest] = FALSE]
           linked == interlink(sized, rest, after)
           r == interlink(linked, f, rest)
<1>5. /\ cut \in Heaps /\ SameLists(h, cut)
      /\ cut.next = h.next /\ cut.prev = h.prev /\ cut.used = h.used
      /\ \A o \in Offset : cut.size[o] = IF o = f THEN wanted ELSE h.size[o]
  BY <1>4 DEF Heaps, SameLists
<1>6. /\ sized \in Heaps /\ SameLists(cut, sized)
      /\ sized.next = cut.next /\ sized.prev = cut.prev
      /\ \A o \in Offset : sized.size[o] = IF o = rest THEN leftover ELSE cut.size[o]
      /\ \A o \in Offset : sized.used[o] <=> o # rest /\ cut.used[o]
  <2>1. cut \in Heaps
    BY <1>5
  <2> QED BY <2>1 DEF Heaps, SameLists
<1> HIDE DEF sized
<1>7. Interlinked(sized, rest, after, linked)
  BY <1>3, <1>6, InterlinkIs, Zenon
<1>8. linked \in Heaps
  BY <1>7, Zenon DEF Interlinked
<1> HIDE DEF linked
<1>9. Interlinked(linked, f, rest, r)
  BY <1>3, <1>8, InterlinkIs, Zenon
<1> HIDE DEF r
<1>10. /\ r \in Heaps /\ SameLists(h, r)
       /\ \A o \in Offset : r.used[o] <=> o # rest /\ h.used[o]
  BY <1>5, <1>6, <1>7, <1>9 DEF SameLists, Interlinked
<1>11. \A o \in Offset : r.size[o] =
            IF o = f THEN wanted ELSE IF o = rest THEN leftover ELSE h.size[o]
  BY <1>3, <1>5, <1>6, <1>7, <1>9 DEF Interlinked
<1>12. /\ \A o \in Offset : r.next[o] =
            IF o = f THEN rest ELSE IF o = rest THEN after ELSE h.next[o]
       /\ \A o \in Offset : r.prev[o] =
            IF o = rest THEN f ELSE IF o = after THEN rest ELSE h.prev[o]
  BY <1>3, <1>5, <1>6, <1>7, <1>9 DEF Interlinked
<1>13. WasCut(h, f, rest, r)
  BY <1>1, <1>2, <1>4, <1>10, <1>11, <1>12, Zenon DEF WasCut
<1>14. r = interlink(interlink([cut EXCEPT !.size[rest] = h.size[f] - wanted,
                                           !.used[rest] = FALSE],
                               rest, h.next[f]), f, rest)
  BY <1>1, <1>2, Zenon DEF r, linked, sized
<1> QED BY <1>13, <1>14, Zenon

-----------------------------------------------------------------------------
(* The lists.                                                              *)

LEMMA UnbinListed ==
    ASSUME NEW h \in Heaps, NEW F \in SUBSET Offset, NEW f \in F, NEW r,
           \A g \in F : BinOf(h, g) \in Bin,
           Listed(h, F), Unbound(h, f, r)
    PROVE  Listed(r, F \ {f})
<1> DEFINE bin == BinOf(h, f)
           after == h.next_free[f]
           before == h.prev_free[f]
<1>1. /\ \A k \in Bin : k \in h.nonempty_bin_mask <=> h.bins[k] # NULL
      /\ \A k \in Bin : h.bins[k] # NULL =>
           h.bins[k] \in F /\ BinOf(h, h.bins[k]) = k /\ h.prev_free[h.bins[k]] = NULL
  BY Zenon DEF Listed
<1>2. \A g \in F :
         IF h.prev_free[g] = NULL THEN h.bins[BinOf(h, g)] = g
         ELSE h.prev_free[g] \in F /\ h.next_free[h.prev_free[g]] = g
  BY Zenon DEF Listed
<1>3. \A g \in F : h.next_free[g] # NULL =>
         /\ h.next_free[g] \in F /\ h.prev_free[h.next_free[g]] = g
         /\ BinOf(h, h.next_free[g]) = BinOf(h, g)
  BY Zenon DEF Listed
<1>4. \A S \in SUBSET F : S # {} => \E g \in S : h.prev_free[g] \notin S
  BY Zenon DEF Listed
<1>5. \A g \in F : BinOf(r, g) = BinOf(h, g)
  BY Zenon DEF Unbound, SameChain, BinOf
<1>6. /\ \A g \in F : r.next_free[g] = IF g = before THEN after ELSE h.next_free[g]
      /\ \A g \in F : r.prev_free[g] = IF g = after THEN before ELSE h.prev_free[g]
  BY DEF Unbound
<1>7. /\ \A k \in Bin : r.bins[k] = IF k = bin /\ h.bins[bin] = f THEN after ELSE h.bins[k]
      /\ \A k \in Bin : k \in r.nonempty_bin_mask <=>
             k \in h.nonempty_bin_mask /\ ~(k = bin /\ h.bins[bin] = f /\ after = NULL)
  BY Zenon DEF Unbound
<1>8. f # NULL /\ NULL \notin F /\ bin \in Bin
  BY NullIs
<1>9. before # f /\ after # f
  <2>1. {f} \in SUBSET F /\ {f} # {}
    OBVIOUS
  <2>2. before \notin {f}
    BY <1>4, <2>1
  <2> QED BY <1>3, <1>8, <2>2
<1>10. before # NULL => before \in F \ {f} /\ h.next_free[before] = f /\ BinOf(h, before) = bin
  BY <1>2, <1>3, <1>8, <1>9
<1>11. after # NULL => after \in F \ {f} /\ h.prev_free[after] = f /\ BinOf(h, after) = bin
  BY <1>3, <1>9
<1>12. before = NULL <=> h.bins[bin] = f
  BY <1>1, <1>2, <1>8
<1> HIDE DEF bin, after, before
<1>13. \A k \in Bin : k \in r.nonempty_bin_mask <=> r.bins[k] # NULL
  BY <1>1, <1>7, <1>8
<1>14. ASSUME NEW k \in Bin, r.bins[k] # NULL
       PROVE  r.bins[k] \in F \ {f} /\ BinOf(r, r.bins[k]) = k /\ r.prev_free[r.bins[k]] = NULL
  <2>1. CASE k = bin /\ h.bins[bin] = f
    BY <1>5, <1>6, <1>7, <1>11, <1>12, <1>14, <2>1
  <2>2. CASE ~(k = bin /\ h.bins[bin] = f)
    <3>1. r.bins[k] = h.bins[k] /\ h.bins[k] # NULL
      BY <1>7, <1>14, <2>2
    <3>2. h.bins[k] \in F /\ BinOf(h, h.bins[k]) = k /\ h.prev_free[h.bins[k]] = NULL
      BY <1>1, <3>1
    <3>3. h.bins[k] # f
      BY <2>2, <3>2 DEF bin
    <3>4. h.bins[k] # after
      BY <1>8, <1>11, <3>1, <3>2
    <3> QED BY <1>5, <1>6, <3>1, <3>2, <3>3, <3>4
  <2> QED BY <2>1, <2>2
<1>15. ASSUME NEW g \in F \ {f}
       PROVE  IF r.prev_free[g] = NULL THEN r.bins[BinOf(r, g)] = g
              ELSE r.prev_free[g] \in F \ {f} /\ r.next_free[r.prev_free[g]] = g
  <2>1. CASE g = after
    BY <1>5, <1>6, <1>7, <1>8, <1>10, <1>11, <1>12, <2>1
  <2>2. CASE g # after
    <3>1. r.prev_free[g] = h.prev_free[g]
      BY <1>6, <2>2
    <3>2. ASSUME h.prev_free[g] = NULL PROVE r.bins[BinOf(r, g)] = g
      <4>1. h.bins[BinOf(h, g)] = g
        BY <1>2, <3>2
      <4> QED BY <1>5, <1>7, <4>1
    <3>3. ASSUME h.prev_free[g] # NULL
          PROVE  h.prev_free[g] \in F \ {f} /\ r.next_free[h.prev_free[g]] = g
      <4>1. h.prev_free[g] \in F /\ h.next_free[h.prev_free[g]] = g
        BY <1>2, <3>3
      <4>2. h.prev_free[g] # f
        BY <2>2, <4>1 DEF after
      <4>3. h.prev_free[g] # before
        BY <1>8, <1>10, <4>1
      <4> QED BY <1>6, <4>1, <4>2, <4>3
    <3> QED BY <3>1, <3>2, <3>3
  <2> QED BY <2>1, <2>2
<1>16. ASSUME NEW g \in F \ {f}, r.next_free[g] # NULL
       PROVE  /\ r.next_free[g] \in F \ {f} /\ r.prev_free[r.next_free[g]] = g
              /\ BinOf(r, r.next_free[g]) = BinOf(r, g)
  <2>1. CASE g = before
    BY <1>5, <1>6, <1>8, <1>10, <1>11, <1>16, <2>1
  <2>2. CASE g # before
    <3>1. r.next_free[g] = h.next_free[g]
      BY <1>6, <2>2
    <3>2. /\ h.next_free[g] \in F /\ h.prev_free[h.next_free[g]] = g
          /\ BinOf(h, h.next_free[g]) = BinOf(h, g)
      BY <1>3, <1>16, <3>1
    <3>3. h.next_free[g] # f
      BY <2>2, <3>2 DEF before
    <3>4. h.next_free[g] # after
      BY <1>8, <1>11, <3>2
    <3> QED BY <1>5, <1>6, <3>1, <3>2, <3>3, <3>4
  <2> QED BY <2>1, <2>2
<1>17. ASSUME NEW S \in SUBSET (F \ {f}), S # {}
       PROVE  \E g \in S : r.prev_free[g] \notin S
  <2> SUFFICES ASSUME \A g \in S : r.prev_free[g] \in S PROVE FALSE
    OBVIOUS
  <2>1. S \in SUBSET F
    OBVIOUS
  <2>2. CASE after \notin S
    <3>1. PICK g \in S : h.prev_free[g] \notin S
      BY <1>4, <1>17, <2>1
    <3>2. g \in F /\ g # after
      BY <2>2
    <3>3. r.prev_free[g] = h.prev_free[g]
      BY <1>6, <3>2
    <3> QED BY <3>1, <3>3
  <2>3. CASE after \in S
    <3> DEFINE T == S \cup {f}
    <3>1. T \in SUBSET F /\ T # {}
      OBVIOUS
    <3>2. r.prev_free[after] = before
      BY <1>6, <2>3
    <3>3. before \in T /\ before = h.prev_free[f]
      BY <2>3, <3>2 DEF before
    <3>4. h.prev_free[after] = f
      BY <1>8, <1>11, <2>3
    <3>5. ASSUME NEW g \in T PROVE h.prev_free[g] \in T
      <4>1. CASE g = f
        BY <3>3, <4>1
      <4>2. CASE g = after
        BY <3>4, <4>2
      <4>3. CASE g # f /\ g # after
        <5>1. g \in S /\ g \in F
          BY <4>3
        <5>2. r.prev_free[g] = h.prev_free[g]
          BY <1>6, <4>3, <5>1
        <5> QED BY <5>1, <5>2
      <4> QED BY <4>1, <4>2, <4>3
    <3> HIDE DEF T
    <3> QED BY <1>4, <3>1, <3>5
  <2> QED BY <2>2, <2>3
<1> QED BY <1>13, <1>14, <1>15, <1>16, <1>17, Zenon DEF Listed

LEMMA RebinListed ==
    ASSUME NEW h \in Heaps, NEW F \in SUBSET Offset, NEW f \in Offset, f \notin F, NEW r,
           \A g \in F \cup {f} : BinOf(h, g) \in Bin,
           Listed(h, F), Rebound(h, f, r)
    PROVE  Listed(r, F \cup {f})
<1> DEFINE bin == BinOf(h, f)
           head == h.bins[bin]
<1>1. /\ \A k \in Bin : k \in h.nonempty_bin_mask <=> h.bins[k] # NULL
      /\ \A k \in Bin : h.bins[k] # NULL =>
           h.bins[k] \in F /\ BinOf(h, h.bins[k]) = k /\ h.prev_free[h.bins[k]] = NULL
  BY Zenon DEF Listed
<1>2. \A g \in F :
         IF h.prev_free[g] = NULL THEN h.bins[BinOf(h, g)] = g
         ELSE h.prev_free[g] \in F /\ h.next_free[h.prev_free[g]] = g
  BY Zenon DEF Listed
<1>3. \A g \in F : h.next_free[g] # NULL =>
         /\ h.next_free[g] \in F /\ h.prev_free[h.next_free[g]] = g
         /\ BinOf(h, h.next_free[g]) = BinOf(h, g)
  BY Zenon DEF Listed
<1>4. \A S \in SUBSET F : S # {} => \E g \in S : h.prev_free[g] \notin S
  BY Zenon DEF Listed
<1>5. \A g \in F \cup {f} : BinOf(r, g) = BinOf(h, g)
  BY Zenon DEF Rebound, SameChain, BinOf
<1>6. /\ \A g \in F \cup {f} : r.next_free[g] = IF g = f THEN head ELSE h.next_free[g]
      /\ \A g \in F \cup {f} : r.prev_free[g] =
            IF g = head THEN f ELSE IF g = f THEN NULL ELSE h.prev_free[g]
  BY DEF Rebound
<1>7. /\ \A k \in Bin : r.bins[k] = IF k = bin THEN f ELSE h.bins[k]
      /\ r.nonempty_bin_mask = h.nonempty_bin_mask \cup {bin}
  BY Zenon DEF Rebound
<1>8. f # NULL /\ NULL \notin F /\ bin \in Bin
  BY NullIs
<1>9. head # NULL => head \in F /\ BinOf(h, head) = bin /\ h.prev_free[head] = NULL
  BY <1>1, <1>8
<1>10. head # f
  BY <1>8, <1>9
<1> HIDE DEF bin, head
<1>11. \A k \in Bin : k \in r.nonempty_bin_mask <=> r.bins[k] # NULL
  BY <1>1, <1>7, <1>8
<1>12. ASSUME NEW k \in Bin, r.bins[k] # NULL
       PROVE  /\ r.bins[k] \in F \cup {f} /\ BinOf(r, r.bins[k]) = k
              /\ r.prev_free[r.bins[k]] = NULL
  <2>1. CASE k = bin
    BY <1>5, <1>6, <1>7, <1>10, <2>1 DEF bin
  <2>2. CASE k # bin
    <3>1. r.bins[k] = h.bins[k] /\ h.bins[k] # NULL
      BY <1>7, <1>12, <2>2
    <3>2. h.bins[k] \in F /\ BinOf(h, h.bins[k]) = k /\ h.prev_free[h.bins[k]] = NULL
      BY <1>1, <3>1
    <3>3. h.bins[k] # head
      BY <1>9, <2>2, <3>1, <3>2
    <3> QED BY <1>5, <1>6, <3>1, <3>2, <3>3
  <2> QED BY <2>1, <2>2
<1>13. ASSUME NEW g \in F \cup {f}
       PROVE  IF r.prev_free[g] = NULL THEN r.bins[BinOf(r, g)] = g
              ELSE r.prev_free[g] \in F \cup {f} /\ r.next_free[r.prev_free[g]] = g
  <2>1. CASE g = f
    BY <1>5, <1>6, <1>7, <1>8, <1>10, <2>1 DEF bin
  <2>2. CASE g = head /\ g # f
    <3>1. r.prev_free[g] = f /\ r.next_free[f] = g
      BY <1>6, <2>2
    <3> QED BY <1>8, <3>1
  <2>3. CASE g # head /\ g # f
    <3>1. g \in F /\ r.prev_free[g] = h.prev_free[g]
      BY <1>6, <2>3
    <3>2. ASSUME h.prev_free[g] = NULL PROVE r.bins[BinOf(r, g)] = g
      <4>1. h.bins[BinOf(h, g)] = g
        BY <1>2, <3>1, <3>2
      <4>2. BinOf(h, g) # bin
        BY <2>3, <4>1 DEF head
      <4> QED BY <1>5, <1>7, <3>1, <4>1, <4>2
    <3>3. ASSUME h.prev_free[g] # NULL
          PROVE  h.prev_free[g] \in F /\ r.next_free[h.prev_free[g]] = g
      <4>1. h.prev_free[g] \in F /\ h.next_free[h.prev_free[g]] = g
        BY <1>2, <3>1, <3>3
      <4> QED BY <1>6, <4>1
    <3> QED BY <3>1, <3>2, <3>3
  <2> QED BY <2>1, <2>2, <2>3
<1>14. ASSUME NEW g \in F \cup {f}, r.next_free[g] # NULL
       PROVE  /\ r.next_free[g] \in F \cup {f} /\ r.prev_free[r.next_free[g]] = g
              /\ BinOf(r, r.next_free[g]) = BinOf(r, g)
  <2>1. CASE g = f
    <3>1. r.next_free[g] = head /\ head # NULL
      BY <1>6, <1>14, <2>1
    <3> QED BY <1>5, <1>6, <1>9, <2>1, <3>1 DEF bin
  <2>2. CASE g # f
    <3>1. g \in F /\ r.next_free[g] = h.next_free[g]
      BY <1>6, <2>2
    <3>2. /\ h.next_free[g] \in F /\ h.prev_free[h.next_free[g]] = g
          /\ BinOf(h, h.next_free[g]) = BinOf(h, g)
      BY <1>3, <1>14, <3>1
    <3>3. h.next_free[g] # head
      BY <1>8, <1>9, <3>1, <3>2
    <3> QED BY <1>5, <1>6, <3>1, <3>2, <3>3
  <2> QED BY <2>1, <2>2
<1>15. ASSUME NEW S \in SUBSET (F \cup {f}), S # {}
       PROVE  \E g \in S : r.prev_free[g] \notin S
  <2>1. CASE f \in S
    <3>1. r.prev_free[f] = NULL
      BY <1>6, <1>10
    <3>2. NULL \notin S
      BY <1>8
    <3> QED BY <2>1, <3>1, <3>2
  <2>2. CASE f \notin S
    <3>1. S \in SUBSET F
      BY <2>2
    <3>2. PICK g \in S : h.prev_free[g] \notin S
      BY <1>4, <1>15, <3>1
    <3>3. r.prev_free[g] = f \/ r.prev_free[g] = h.prev_free[g]
      BY <1>6, <2>2, <3>1
    <3> QED BY <2>2, <3>2, <3>3
  <2> QED BY <2>1, <2>2
<1> QED BY <1>11, <1>12, <1>13, <1>14, <1>15, Zenon DEF Listed

LEMMA ListedKept ==
    ASSUME NEW h, NEW r, NEW F, Listed(h, F),
           r.bins = h.bins, r.nonempty_bin_mask = h.nonempty_bin_mask,
           \A f \in F : /\ r.next_free[f] = h.next_free[f] /\ r.prev_free[f] = h.prev_free[f]
                        /\ r.size[f] = h.size[f]
    PROVE  Listed(r, F)
<1>1. \A f \in F : BinOf(r, f) = BinOf(h, f)
  BY Zenon DEF BinOf
<1>2. /\ \A k \in Bin : k \in r.nonempty_bin_mask <=> r.bins[k] # NULL
      /\ \A k \in Bin : r.bins[k] # NULL =>
           r.bins[k] \in F /\ BinOf(r, r.bins[k]) = k /\ r.prev_free[r.bins[k]] = NULL
  BY <1>1 DEF Listed
<1>3. \A f \in F :
         IF r.prev_free[f] = NULL THEN r.bins[BinOf(r, f)] = f
         ELSE r.prev_free[f] \in F /\ r.next_free[r.prev_free[f]] = f
  BY <1>1 DEF Listed
<1>4. \A f \in F : r.next_free[f] # NULL =>
         /\ r.next_free[f] \in F /\ r.prev_free[r.next_free[f]] = f
         /\ BinOf(r, r.next_free[f]) = BinOf(r, f)
  BY <1>1 DEF Listed
<1>5. \A S \in SUBSET F : S # {} => \E f \in S : r.prev_free[f] \notin S
  BY DEF Listed
<1> QED BY <1>2, <1>3, <1>4, <1>5, Zenon DEF Listed

(* A bin is empty only when no fragment of its size is free.               *)
LEMMA BinsHeld ==
    ASSUME NEW h \in Heaps, NEW F \in SUBSET Offset, Listed(h, F), NEW f \in F,
           BinOf(h, f) \in Bin
    PROVE  h.bins[BinOf(h, f)] # NULL
<1> DEFINE S == {g \in F : BinOf(h, g) = BinOf(h, f)}
<1>1. S \in SUBSET F /\ f \in S
  OBVIOUS
<1>2. PICK g \in S : h.prev_free[g] \notin S
  BY <1>1 DEF Listed
<1>3. g \in F /\ BinOf(h, g) = BinOf(h, f)
  OBVIOUS
<1>4. CASE h.prev_free[g] = NULL
  <2>1. h.bins[BinOf(h, g)] = g
    BY <1>3, <1>4 DEF Listed
  <2> QED BY <1>3, <2>1, NullIs
<1>5. CASE h.prev_free[g] # NULL
  <2>1. h.prev_free[g] \in F /\ h.next_free[h.prev_free[g]] = g
    BY <1>3, <1>5 DEF Listed
  <2>2. g # NULL
    BY <1>3, NullIs
  <2>3. BinOf(h, g) = BinOf(h, h.prev_free[g])
    BY <2>1, <2>2 DEF Listed
  <2> QED BY <1>2, <1>3, <2>1, <2>3
<1> QED BY <1>4, <1>5

-----------------------------------------------------------------------------
(* The chain.                                                              *)

LEMMA FragmentIs ==
    ASSUME NEW h \in Heaps, Tiled(h), NEW f \in FragmentsOf(h)
    PROVE  /\ f \in Offset /\ f \in 0 .. Capacity - 1 /\ Multiple(f)
           /\ h.size[f] \in 1 .. Capacity /\ Multiple(h.size[f])
           /\ BinOf(h, f) \in Bin
           /\ End(h, f) = f + h.size[f] /\ End(h, f) \in f + 1 .. Capacity
           /\ Multiple(End(h, f))
<1>1. f \in Offset /\ h.size[f] > 0
  BY DEF FragmentsOf
<1>2. f \in 0 .. Capacity - 1 /\ Multiple(f)
  BY <1>1, OffsetIs
<1>3. h.size[f] \in 0 .. Capacity
  BY <1>1 DEF Heaps
<1>4. h.size[f] \in 1 .. Capacity
  BY <1>1, <1>3, Constants
<1>5. Multiple(h.size[f])
  BY <1>3, Constants DEF Multiple, Tiled
<1>6. BinOf(h, f) \in Bin
  BY <1>4, <1>5, BinInRange DEF BinOf
<1>7. Multiple(End(h, f))
  BY <1>2, <1>5, Multiples DEF End
<1>8. End(h, f) = Capacity \/ End(h, f) \in FragmentsOf(h)
  BY DEF Tiled
<1>9. End(h, f) <= Capacity
  <2>1. ASSUME End(h, f) \in FragmentsOf(h) PROVE End(h, f) \in 0 .. Capacity - 1
    <3>1. End(h, f) \in Offset
      BY <2>1 DEF FragmentsOf
    <3> QED BY <3>1, OffsetIs
  <2>2. End(h, f) = Capacity \/ End(h, f) \in 0 .. Capacity - 1
    BY <1>8, <2>1
  <2> QED BY <2>2, Constants
<1> QED BY <1>1, <1>2, <1>4, <1>5, <1>6, <1>7, <1>9, Constants DEF End

(* The links say where the fragments are, in both directions.              *)
LEMMA Neighbours ==
    ASSUME NEW h \in Heaps, Tiled(h), NEW f \in FragmentsOf(h), NEW g \in FragmentsOf(h)
    PROVE  /\ h.next[f] = g <=> End(h, f) = g
           /\ h.prev[g] = f <=> End(h, f) = g
           /\ f = g \/ End(h, f) <= g \/ End(h, g) <= f
<1>1. /\ f \in 0 .. Capacity - 1 /\ g \in 0 .. Capacity - 1
      /\ End(h, f) \in f + 1 .. Capacity /\ End(h, g) \in g + 1 .. Capacity
      /\ f \in Offset /\ g \in Offset /\ Capacity \in Nat
  BY FragmentIs, Constants
<1>2. f = g \/ End(h, f) <= g \/ End(h, g) <= f
  BY <1>1 DEF Tiled
<1>3. h.next[f] = g <=> End(h, f) = g
  <2>1. IF End(h, f) = Capacity THEN h.next[f] = NULL
        ELSE End(h, f) \in FragmentsOf(h) /\ h.next[f] = End(h, f)
    BY Zenon DEF Tiled
  <2>2. g # NULL /\ g # Capacity
    BY <1>1, NullIs
  <2> QED BY <2>1, <2>2
<1>4. h.prev[g] = f <=> End(h, f) = g
  <2>1. IF g = 0 THEN h.prev[g] = NULL
        ELSE h.prev[g] \in FragmentsOf(h) /\ End(h, h.prev[g]) = g
    BY Zenon DEF Tiled
  <2>2. ASSUME h.prev[g] = f PROVE End(h, f) = g
    BY <1>1, <2>1, <2>2, NullIs
  <2>3. ASSUME End(h, f) = g PROVE h.prev[g] = f
    <3>1. g # 0
      BY <1>1, <2>3
    <3>2. PICK p \in FragmentsOf(h) : p = h.prev[g] /\ End(h, p) = g
      BY <2>1, <3>1
    <3>3. p \in 0 .. Capacity - 1 /\ End(h, p) \in p + 1 .. Capacity
      BY FragmentIs
    <3>4. p < f => End(h, p) <= f
      BY DEF Tiled
    <3>5. f < p => End(h, f) <= p
      BY DEF Tiled
    <3> QED BY <1>1, <2>3, <3>2, <3>3, <3>4, <3>5
  <2> QED BY <2>2, <2>3
<1> QED BY <1>2, <1>3, <1>4

(* A chain is made of its sizes and its links alone.                       *)
LEMMA TiledKept ==
    ASSUME NEW h, NEW r, Tiled(h),
           r.size = h.size, r.next = h.next, r.prev = h.prev
    PROVE  /\ Tiled(r) /\ FragmentsOf(r) = FragmentsOf(h)
           /\ \A f : End(r, f) = End(h, f)
<1>1. FragmentsOf(r) = FragmentsOf(h) /\ \A f : End(r, f) = End(h, f)
  BY DEF FragmentsOf, End
<1> QED BY <1>1, Zenon DEF Tiled

LEMMA AbsorbTiled ==
    ASSUME NEW h \in Heaps, Tiled(h), NEW left \in FragmentsOf(h), NEW right \in FragmentsOf(h),
           End(h, left) = right, NEW r, Absorbed(h, left, right, r)
    PROVE  /\ Tiled(r)
           /\ FragmentsOf(r) = FragmentsOf(h) \ {right}
           /\ End(r, left) = End(h, right)
           /\ \A f \in FragmentsOf(h) \ {left, right} : End(r, f) = End(h, f)
<1>1. /\ left \in 0 .. Capacity - 1 /\ right \in 0 .. Capacity - 1
      /\ left \in Offset /\ right \in Offset /\ left < right
      /\ h.size[left] \in 1 .. Capacity /\ h.size[right] \in 1 .. Capacity
      /\ Multiple(h.size[left]) /\ Multiple(h.size[right])
      /\ End(h, left) = left + h.size[left] /\ End(h, right) = right + h.size[right]
      /\ End(h, right) \in right + 1 .. Capacity /\ Capacity \in Nat
  BY FragmentIs, Constants
<1>2. /\ r.size[left] = h.size[left] + h.size[right] /\ r.size[right] = 0
      /\ \A f \in Offset \ {left, right} : r.size[f] = h.size[f]
  BY <1>1 DEF Absorbed
<1>3. FragmentsOf(r) = FragmentsOf(h) \ {right}
  <2>1. r.size[left] > 0 /\ ~(r.size[right] > 0) /\ h.size[left] > 0
    <3>1. PICK a \in 1 .. Capacity : a = h.size[left]
      BY <1>1
    <3>2. PICK b \in 1 .. Capacity : b = h.size[right]
      BY <1>1
    <3>3. a > 0 /\ a + b > 0
      BY <1>1
    <3> QED BY <1>2, <3>1, <3>2, <3>3
  <2>2. left # right
    BY <1>1
  <2>3. ASSUME NEW o \in Offset PROVE r.size[o] > 0 <=> o # right /\ h.size[o] > 0
    BY <1>2, <2>1, <2>2
  <2> QED BY <2>3 DEF FragmentsOf
<1>4. End(r, left) = End(h, right)
  BY <1>1, <1>2 DEF End
<1>5. \A f \in FragmentsOf(h) \ {left, right} : End(r, f) = End(h, f)
  BY <1>2 DEF End, FragmentsOf
<1>6. /\ \A f \in FragmentsOf(r) :
            r.next[f] = IF f = left THEN h.next[right] ELSE h.next[f]
      /\ \A f \in FragmentsOf(r) :
            r.prev[f] = IF f = h.next[right] THEN left ELSE h.prev[f]
  BY <1>3 DEF Absorbed, FragmentsOf
<1>7. 0 \in FragmentsOf(r)
  <2>1. 0 # right
    BY <1>1
  <2> QED BY <1>3, <2>1 DEF Tiled
<1>8. left \in FragmentsOf(r)
  <2>1. left # right
    BY <1>1
  <2> QED BY <1>3, <2>1
<1>9. ASSUME NEW f \in FragmentsOf(r) PROVE r.size[f] % FragmentSizeMin = 0
  <2>1. CASE f = left
    <3>1. Multiple(h.size[left] + h.size[right])
      BY <1>1, Multiples
    <3> QED BY <1>2, <2>1, <3>1 DEF Multiple
  <2>2. CASE f # left
    <3>1. f \in FragmentsOf(h) /\ r.size[f] = h.size[f]
      BY <1>2, <1>3, <2>2 DEF FragmentsOf
    <3> QED BY <3>1 DEF Tiled
  <2> QED BY <2>1, <2>2
<1>10. ASSUME NEW f \in FragmentsOf(r)
       PROVE  IF End(r, f) = Capacity THEN r.next[f] = NULL
              ELSE End(r, f) \in FragmentsOf(r) /\ r.next[f] = End(r, f)
  <2> DEFINE g == IF f = left THEN right ELSE f
  <2>1. g \in FragmentsOf(h) /\ End(r, f) = End(h, g) /\ r.next[f] = h.next[g]
    BY <1>3, <1>4, <1>5, <1>6
  <2>2. End(h, g) # right
    <3>1. CASE f = left
      BY <1>1, <3>1
    <3>2. CASE f # left
      <4>1. f \in FragmentsOf(h)
        BY <1>3
      <4>2. h.prev[right] = f <=> End(h, f) = right
        BY <4>1, Neighbours
      <4>3. h.prev[right] = left
        BY Neighbours
      <4> QED BY <3>2, <4>2, <4>3
    <3> QED BY <3>1, <3>2
  <2>3. IF End(h, g) = Capacity THEN h.next[g] = NULL
        ELSE End(h, g) \in FragmentsOf(h) /\ h.next[g] = End(h, g)
    BY <2>1, Zenon DEF Tiled
  <2> HIDE DEF g
  <2> QED BY <1>3, <2>1, <2>2, <2>3
<1>11. ASSUME NEW f \in FragmentsOf(r)
       PROVE  IF f = 0 THEN r.prev[f] = NULL
              ELSE r.prev[f] \in FragmentsOf(r) /\ End(r, r.prev[f]) = f
  <2>1. f \in FragmentsOf(h) /\ f # right
    BY <1>3
  <2>2. h.next[right] = f <=> End(h, right) = f
    BY <2>1, Neighbours
  <2>3. CASE f = h.next[right]
    <3>1. r.prev[f] = left /\ End(h, right) = f
      BY <1>6, <2>2, <2>3
    <3>2. f # 0
      BY <1>1, <3>1
    <3> QED BY <1>4, <1>8, <3>1, <3>2
  <2>4. CASE f # h.next[right]
    <3>1. r.prev[f] = h.prev[f]
      BY <1>6, <2>4
    <3>2. IF f = 0 THEN h.prev[f] = NULL
          ELSE h.prev[f] \in FragmentsOf(h) /\ End(h, h.prev[f]) = f
      BY <2>1, Zenon DEF Tiled
    <3>3. ASSUME f # 0 PROVE h.prev[f] # right /\ h.prev[f] # left
      BY <2>1, <2>2, <2>4, <3>2, <3>3
    <3> QED BY <1>3, <1>5, <3>1, <3>2, <3>3
  <2> QED BY <2>3, <2>4
<1>12. ASSUME NEW f \in FragmentsOf(r), NEW g \in FragmentsOf(r), f < g
       PROVE  End(r, f) <= g
  <2>1. f \in FragmentsOf(h) /\ g \in FragmentsOf(h) /\ f # right /\ g # right
    BY <1>3
  <2>2. /\ f \in 0 .. Capacity - 1 /\ g \in 0 .. Capacity - 1
        /\ End(h, f) \in f + 1 .. Capacity /\ End(h, g) \in g + 1 .. Capacity
    BY <2>1, FragmentIs
  <2>3. End(h, f) <= g
    BY <1>12, <2>1 DEF Tiled
  <2>4. CASE f = left
    <3>1. right < g
      BY <1>1, <2>1, <2>2, <2>3, <2>4
    <3>2. End(h, right) <= g
      BY <2>1, <3>1 DEF Tiled
    <3> QED BY <1>4, <2>4, <3>2
  <2>5. CASE f # left
    BY <1>5, <2>1, <2>3, <2>5
  <2> QED BY <2>4, <2>5
<1>13. Tiled(r)
  BY <1>7, <1>9, <1>10, <1>11, <1>12, Zenon DEF Tiled
<1> QED BY <1>3, <1>4, <1>5, <1>13

LEMMA CutTiled ==
    ASSUME NEW h \in Heaps, Tiled(h), NEW f \in FragmentsOf(h), NEW rest \in Offset,
           f < rest, rest < End(h, f), NEW r, WasCut(h, f, rest, r)
    PROVE  /\ Tiled(r)
           /\ FragmentsOf(r) = FragmentsOf(h) \cup {rest}
           /\ rest \notin FragmentsOf(h)
           /\ End(r, f) = rest /\ End(r, rest) = End(h, f)
           /\ \A g \in FragmentsOf(h) \ {f} : End(r, g) = End(h, g)
<1>1. /\ f \in 0 .. Capacity - 1 /\ rest \in 0 .. Capacity - 1
      /\ f \in Offset /\ Multiple(f) /\ Multiple(rest) /\ f # rest
      /\ h.size[f] \in 1 .. Capacity /\ Multiple(h.size[f])
      /\ End(h, f) = f + h.size[f] /\ End(h, f) \in f + 1 .. Capacity /\ Capacity \in Nat
  BY FragmentIs, Constants, OffsetIs
<1>2. rest \notin FragmentsOf(h)
  <2> SUFFICES ASSUME rest \in FragmentsOf(h) PROVE FALSE
    OBVIOUS
  <2>1. End(h, f) <= rest
    BY DEF Tiled
  <2> QED BY <1>1, <2>1
<1>3. /\ r.size[f] = rest - f /\ r.size[rest] = h.size[f] - (rest - f)
      /\ \A g \in Offset \ {f, rest} : r.size[g] = h.size[g]
  BY <1>1 DEF WasCut
<1>4. FragmentsOf(r) = FragmentsOf(h) \cup {rest}
  BY <1>1, <1>3 DEF FragmentsOf
<1>5. End(r, f) = rest /\ End(r, rest) = End(h, f)
  BY <1>1, <1>3 DEF End
<1>6. \A g \in FragmentsOf(h) \ {f} : End(r, g) = End(h, g)
  BY <1>2, <1>3 DEF End, FragmentsOf
<1>7. /\ \A g \in FragmentsOf(r) :
            r.next[g] = IF g = f THEN rest ELSE IF g = rest THEN h.next[f] ELSE h.next[g]
      /\ \A g \in FragmentsOf(r) :
            r.prev[g] = IF g = rest THEN f ELSE IF g = h.next[f] THEN rest ELSE h.prev[g]
  BY <1>4 DEF WasCut, FragmentsOf
<1>8. 0 \in FragmentsOf(r)
  BY <1>4 DEF Tiled
<1>9. ASSUME NEW g \in FragmentsOf(r) PROVE r.size[g] % FragmentSizeMin = 0
  <2>1. CASE g = f
    <3>1. Multiple(rest - f)
      BY <1>1, Multiples
    <3> QED BY <1>3, <2>1, <3>1 DEF Multiple
  <2>2. CASE g = rest
    <3>1. Multiple(rest - f)
      BY <1>1, Multiples
    <3>2. Multiple(h.size[f] - (rest - f))
      BY <1>1, <3>1, Multiples
    <3> QED BY <1>3, <2>2, <3>2 DEF Multiple
  <2>3. CASE g # f /\ g # rest
    <3>1. g \in FragmentsOf(h) /\ r.size[g] = h.size[g]
      BY <1>3, <1>4, <2>3 DEF FragmentsOf
    <3> QED BY <3>1 DEF Tiled
  <2> QED BY <2>1, <2>2, <2>3
<1>10. ASSUME NEW g \in FragmentsOf(r)
       PROVE  IF End(r, g) = Capacity THEN r.next[g] = NULL
              ELSE End(r, g) \in FragmentsOf(r) /\ r.next[g] = End(r, g)
  <2>1. CASE g = f
    <3>1. End(r, g) = rest /\ rest \in FragmentsOf(r) /\ r.next[g] = rest /\ rest # Capacity
      BY <1>1, <1>4, <1>5, <1>7, <2>1
    <3> QED BY <3>1
  <2>2. CASE g # f
    <3> DEFINE k == IF g = rest THEN f ELSE g
    <3>1. k \in FragmentsOf(h) /\ End(r, g) = End(h, k) /\ r.next[g] = h.next[k]
      BY <1>4, <1>5, <1>6, <1>7, <2>2
    <3>2. IF End(h, k) = Capacity THEN h.next[k] = NULL
          ELSE End(h, k) \in FragmentsOf(h) /\ h.next[k] = End(h, k)
      BY <3>1, Zenon DEF Tiled
    <3> HIDE DEF k
    <3> QED BY <1>4, <3>1, <3>2
  <2> QED BY <2>1, <2>2
<1>11. ASSUME NEW g \in FragmentsOf(r)
       PROVE  IF g = 0 THEN r.prev[g] = NULL
              ELSE r.prev[g] \in FragmentsOf(r) /\ End(r, r.prev[g]) = g
  <2>1. CASE g = rest
    <3>1. r.prev[g] = f /\ f \in FragmentsOf(r) /\ End(r, f) = g /\ g # 0
      BY <1>1, <1>4, <1>5, <1>7, <2>1
    <3> QED BY <3>1
  <2>2. CASE g # rest /\ g = h.next[f]
    <3>1. g \in FragmentsOf(h)
      BY <1>4, <2>2
    <3>2. End(h, f) = g
      BY <2>2, <3>1, Neighbours
    <3>3. r.prev[g] = rest /\ rest \in FragmentsOf(r) /\ End(r, rest) = g /\ g # 0
      BY <1>1, <1>4, <1>5, <1>7, <2>2, <3>2
    <3> QED BY <3>3
  <2>3. CASE g # rest /\ g # h.next[f]
    <3>1. g \in FragmentsOf(h) /\ r.prev[g] = h.prev[g]
      BY <1>4, <1>7, <2>3
    <3>2. IF g = 0 THEN h.prev[g] = NULL
          ELSE h.prev[g] \in FragmentsOf(h) /\ End(h, h.prev[g]) = g
      BY <3>1, Zenon DEF Tiled
    <3>3. ASSUME g # 0 PROVE h.prev[g] # f
      <4>1. h.next[f] = g <=> End(h, f) = g
        BY <3>1, Neighbours
      <4> QED BY <2>3, <3>2, <3>3, <4>1
    <3> QED BY <1>4, <1>6, <3>1, <3>2, <3>3
  <2> QED BY <2>1, <2>2, <2>3
<1>12. ASSUME NEW g \in FragmentsOf(r), NEW k \in FragmentsOf(r), g < k
       PROVE  End(r, g) <= k
  <2>1. \A x \in FragmentsOf(h) : x \in 0 .. Capacity - 1 /\ End(h, x) \in x + 1 .. Capacity
    BY FragmentIs
  <2>2. \A x, y \in FragmentsOf(h) : x < y => End(h, x) <= y
    BY Zenon DEF Tiled
  <2>3. CASE g = rest
    <3>1. k \in FragmentsOf(h) /\ f < k
      BY <1>1, <1>4, <1>12, <2>1, <2>3
    <3> QED BY <1>5, <2>2, <2>3, <3>1
  <2>4. CASE g = f
    <3>1. CASE k = rest
      BY <1>1, <1>5, <2>4, <3>1
    <3>2. CASE k # rest
      <4>1. k \in FragmentsOf(h) /\ End(h, f) <= k
        BY <1>4, <1>12, <2>2, <2>4, <3>2
      <4> QED BY <1>1, <1>5, <2>1, <2>4, <4>1
    <3> QED BY <3>1, <3>2
  <2>5. CASE g # f /\ g # rest
    <3>1. g \in FragmentsOf(h) /\ End(r, g) = End(h, g)
      BY <1>4, <1>6, <2>5
    <3>2. CASE k = rest
      <4>1. g < f \/ f < g
        BY <1>1, <2>1, <2>5, <3>1
      <4>2. ~(f < g)
        <5> SUFFICES ASSUME f < g PROVE FALSE
          OBVIOUS
        <5>1. End(h, f) <= g
          BY <2>2, <3>1
        <5> QED BY <1>1, <1>12, <2>1, <3>1, <3>2, <5>1
      <4>3. End(h, g) <= f
        BY <2>2, <3>1, <4>1, <4>2
      <4>4. f \in Int /\ rest \in Int /\ End(h, g) \in Int
        BY <1>1, <2>1, <3>1
      <4>5. End(h, g) <= rest
        BY <4>3, <4>4
      <4> QED BY <3>1, <3>2, <4>5
    <3>3. CASE k # rest
      BY <1>4, <1>12, <2>2, <3>1, <3>3
    <3> QED BY <3>2, <3>3
  <2> QED BY <2>3, <2>4, <2>5
<1>13. Tiled(r)
  BY <1>8, <1>9, <1>10, <1>11, <1>12, Zenon DEF Tiled
<1> QED BY <1>2, <1>4, <1>5, <1>6, <1>13

-----------------------------------------------------------------------------
(* The arena under the operations on its chain and its lists.              *)

(* The fragments in use, and their sizes, are the same.                    *)
SameUse(h, r) == InUse(r) = InUse(h) /\ \A o \in InUse(h) : r.size[o] = h.size[o]

LEMMA ArenaIs ==
    ASSUME NEW h, NEW F, Arena(h, F)
    PROVE  /\ h \in Heaps /\ Tiled(h) /\ Listed(h, F)
           /\ F \in SUBSET Offset /\ F \subseteq FragmentsOf(h) /\ F \subseteq FreeOf(h)
           /\ \A f \in F : End(h, f) \notin F /\ BinOf(h, f) \in Bin /\ ~h.used[f]
           /\ FragmentsOf(h) \subseteq Offset
<1>1. /\ h \in Heaps /\ Tiled(h) /\ Listed(h, F) /\ F \subseteq FreeOf(h)
      /\ \A f \in F : End(h, f) \notin F
  BY Zenon DEF Arena
<1>2. /\ F \subseteq FragmentsOf(h) /\ FragmentsOf(h) \subseteq Offset
      /\ \A f \in F : ~h.used[f]
  BY <1>1 DEF FreeOf, FragmentsOf
<1>3. \A f \in F : BinOf(h, f) \in Bin
  BY <1>1, <1>2, FragmentIs
<1> QED BY <1>1, <1>2, <1>3

LEMMA UnbinArena ==
    ASSUME NEW h, NEW F, Arena(h, F), NEW f \in F
    PROVE  Arena(unbin(h, f), F \ {f}) /\ SameChain(h, unbin(h, f))
<1> DEFINE r == unbin(h, f)
<1>1. /\ h \in Heaps /\ Tiled(h) /\ Listed(h, F) /\ F \in SUBSET Offset /\ F \subseteq FreeOf(h)
      /\ \A g \in F : End(h, g) \notin F /\ BinOf(h, g) \in Bin
  BY ArenaIs
<1>2. Unbound(h, f, r)
  BY <1>1, UnbinIs
<1> HIDE DEF r
<1>3. Listed(r, F \ {f})
  BY <1>1, <1>2, UnbinListed
<1>4. r \in Heaps /\ SameChain(h, r)
  BY <1>2, Zenon DEF Unbound
<1>5. Tiled(r) /\ FragmentsOf(r) = FragmentsOf(h) /\ \A g : End(r, g) = End(h, g)
  BY <1>1, <1>4, TiledKept DEF SameChain
<1>6. F \ {f} \subseteq FreeOf(r)
  BY <1>1, <1>4, <1>5 DEF FreeOf, SameChain
<1>7. \A g \in F \ {f} : End(r, g) \notin F \ {f}
  BY <1>1, <1>5
<1> QED BY <1>3, <1>4, <1>5, <1>6, <1>7, Zenon DEF Arena, r

LEMMA RebinArena ==
    ASSUME NEW h, NEW F, Arena(h, F), NEW f \in FreeOf(h) \ F,
           End(h, f) \notin F, \A g \in F : End(h, g) # f
    PROVE  Arena(rebin(h, f), F \cup {f}) /\ SameChain(h, rebin(h, f))
<1> DEFINE r == rebin(h, f)
<1>1. /\ h \in Heaps /\ Tiled(h) /\ Listed(h, F) /\ F \in SUBSET Offset /\ F \subseteq FreeOf(h)
      /\ \A g \in F : End(h, g) \notin F /\ BinOf(h, g) \in Bin
  BY ArenaIs
<1>2. f \in FragmentsOf(h)
  BY DEF FreeOf
<1>3. f \in Offset /\ BinOf(h, f) \in Bin /\ End(h, f) # f
  <2>1. /\ f \in Offset /\ BinOf(h, f) \in Bin
        /\ f \in 0 .. Capacity - 1 /\ End(h, f) \in f + 1 .. Capacity
    BY <1>1, <1>2, FragmentIs
  <2> QED BY <2>1, Constants
<1>4. Rebound(h, f, r)
  BY <1>1, <1>3, RebinIs
<1> HIDE DEF r
<1>5. \A g \in F \cup {f} : BinOf(h, g) \in Bin
  BY <1>1, <1>3
<1>6. Listed(r, F \cup {f})
  BY <1>1, <1>3, <1>4, <1>5, RebinListed
<1>7. r \in Heaps /\ SameChain(h, r)
  BY <1>4, Zenon DEF Rebound
<1>8. Tiled(r) /\ FragmentsOf(r) = FragmentsOf(h) /\ \A g : End(r, g) = End(h, g)
  BY <1>1, <1>7, TiledKept DEF SameChain
<1>9. F \cup {f} \subseteq FreeOf(r)
  BY <1>1, <1>7, <1>8 DEF FreeOf, SameChain
<1>10. \A g \in F \cup {f} : End(r, g) \notin F \cup {f}
  BY <1>1, <1>3, <1>8
<1> QED BY <1>6, <1>7, <1>8, <1>9, <1>10, Zenon DEF Arena, r

LEMMA AbsorbArena ==
    ASSUME NEW h, NEW F, Arena(h, F),
           NEW left \in FragmentsOf(h) \ F, NEW right \in FragmentsOf(h) \ F,
           End(h, left) = right, ~h.used[left], ~h.used[right]
    PROVE  LET r == Absorb(h, left, right)
           IN  /\ Arena(r, F)
               /\ FragmentsOf(r) = FragmentsOf(h) \ {right}
               /\ FreeOf(r) = FreeOf(h) \ {right}
               /\ SameUse(h, r)
               /\ End(r, left) = End(h, right)
               /\ \A f \in FragmentsOf(h) \ {left, right} : End(r, f) = End(h, f)
<1> DEFINE r == Absorb(h, left, right)
<1>1. /\ h \in Heaps /\ Tiled(h) /\ Listed(h, F) /\ F \in SUBSET Offset /\ F \subseteq FreeOf(h)
      /\ F \subseteq FragmentsOf(h) /\ FragmentsOf(h) \subseteq Offset
      /\ \A g \in F : End(h, g) \notin F /\ ~h.used[g]
  BY ArenaIs
<1>2. left \in Offset /\ right \in Offset /\ left # right /\ h.size[left] + h.size[right] <= Capacity
  <2>1. /\ left \in 0 .. Capacity - 1 /\ right \in 0 .. Capacity - 1
        /\ left \in Offset /\ right \in Offset
        /\ h.size[left] \in 1 .. Capacity /\ h.size[right] \in 1 .. Capacity
    BY <1>1, FragmentIs
  <2>2. right = left + h.size[left] /\ right + h.size[right] <= Capacity
    <3>1. End(h, left) = left + h.size[left]
      BY DEF End
    <3>2. End(h, right) = right + h.size[right] /\ End(h, right) \in right + 1 .. Capacity
      BY <1>1, FragmentIs
    <3> QED BY <2>1, <3>1, <3>2, Constants
  <2> QED BY <2>1, <2>2, Constants
<1>3. Absorbed(h, left, right, r)
  BY <1>1, <1>2, AbsorbIs
<1> HIDE DEF r
<1>4. /\ Tiled(r) /\ FragmentsOf(r) = FragmentsOf(h) \ {right}
      /\ End(r, left) = End(h, right)
      /\ \A f \in FragmentsOf(h) \ {left, right} : End(r, f) = End(h, f)
  BY <1>1, <1>3, AbsorbTiled
<1>5. /\ r \in Heaps /\ SameBinsBut(h, r, right)
      /\ \A o \in Offset : r.used[o] <=> o # right /\ h.used[o]
  BY <1>3, Zenon DEF Absorbed
<1>6. \A f \in FragmentsOf(h) \ {left, right} : r.size[f] = h.size[f]
  BY <1>1, <1>3 DEF Absorbed
<1>7. Listed(r, F)
  <2>1. \A f \in F : f # right /\ f \in Offset /\ f \in FragmentsOf(h) \ {left, right}
    BY <1>1
  <2>2. r.bins = h.bins /\ r.nonempty_bin_mask = h.nonempty_bin_mask
    BY <1>5 DEF SameBinsBut
  <2>3. \A f \in F : /\ r.next_free[f] = h.next_free[f] /\ r.prev_free[f] = h.prev_free[f]
                     /\ r.size[f] = h.size[f]
    BY <1>5, <1>6, <2>1 DEF SameBinsBut
  <2> QED BY <1>1, <2>2, <2>3, ListedKept
<1>8. FreeOf(r) = FreeOf(h) \ {right} /\ SameUse(h, r)
  BY <1>1, <1>4, <1>5, <1>6 DEF FreeOf, SameUse, InUse
<1>9. F \subseteq FreeOf(r)
  BY <1>1, <1>8
<1>10. \A f \in F : End(r, f) \notin F
  BY <1>1, <1>4
<1> QED BY <1>4, <1>5, <1>7, <1>8, <1>9, <1>10 DEF Arena, r

LEMMA CutArena ==
    ASSUME NEW h, NEW F, Arena(h, F), NEW f \in FragmentsOf(h) \ F,
           NEW rest \in Offset, f < rest, rest < End(h, f), ~h.used[f],
           NEW r, WasCut(h, f, rest, r)
    PROVE  /\ Arena(r, F) /\ rest \notin FragmentsOf(h)
           /\ FragmentsOf(r) = FragmentsOf(h) \cup {rest}
           /\ FreeOf(r) = FreeOf(h) \cup {rest}
           /\ SameUse(h, r)
           /\ End(r, f) = rest /\ End(r, rest) = End(h, f)
           /\ \A g \in FragmentsOf(h) \ {f} : End(r, g) = End(h, g)
<1>1. /\ h \in Heaps /\ Tiled(h) /\ Listed(h, F) /\ F \in SUBSET Offset /\ F \subseteq FreeOf(h)
      /\ F \subseteq FragmentsOf(h) /\ FragmentsOf(h) \subseteq Offset
      /\ \A g \in F : End(h, g) \notin F /\ ~h.used[g]
  BY ArenaIs
<1>2. /\ Tiled(r) /\ FragmentsOf(r) = FragmentsOf(h) \cup {rest} /\ rest \notin FragmentsOf(h)
      /\ End(r, f) = rest /\ End(r, rest) = End(h, f)
      /\ \A g \in FragmentsOf(h) \ {f} : End(r, g) = End(h, g)
  BY <1>1, CutTiled
<1>3. /\ r \in Heaps /\ SameLists(h, r)
      /\ \A o \in Offset : r.used[o] <=> o # rest /\ h.used[o]
  BY Zenon DEF WasCut
<1>4. \A g \in FragmentsOf(h) \ {f} : r.size[g] = h.size[g]
  BY <1>1, <1>2 DEF WasCut
<1>5. Listed(r, F)
  <2>1. \A g \in F : g \in FragmentsOf(h) \ {f}
    BY <1>1
  <2> QED BY <1>1, <1>3, <1>4, <2>1, ListedKept DEF SameLists
<1>6. FreeOf(r) = FreeOf(h) \cup {rest} /\ SameUse(h, r)
  BY <1>1, <1>2, <1>3, <1>4 DEF FreeOf, SameUse, InUse
<1>7. F \subseteq FreeOf(r)
  BY <1>1, <1>6
<1>8. \A g \in F : End(r, g) \notin F
  BY <1>1, <1>2
<1> QED BY <1>2, <1>3, <1>5, <1>6, <1>7, <1>8 DEF Arena

(* What the lists do not hold of the free fragments is one in transit.     *)
LEMMA SplitArena ==
    ASSUME NEW h, NEW F, Arena(h, F), NEW f \in FreeOf(h) \ F, FreeOf(h) = F \cup {f},
           End(h, f) \notin F, \A g \in F : End(h, g) # f,
           NEW wanted \in Nat, wanted > 0, Multiple(wanted), wanted <= h.size[f]
    PROVE  LET r == Split(h, f, wanted)
           IN  /\ Arena(r, FreeOf(r) \ {f}) /\ SameUse(h, r)
               /\ f \in FreeOf(r) /\ r.size[f] = wanted
<1>1. /\ h \in Heaps /\ Tiled(h) /\ F \in SUBSET Offset /\ F \subseteq FreeOf(h)
      /\ F \subseteq FragmentsOf(h) /\ FragmentsOf(h) \subseteq Offset
      /\ \A g \in F : End(h, g) \notin F
  BY ArenaIs
<1>2. f \in FragmentsOf(h) /\ ~h.used[f] /\ f \notin F
  BY DEF FreeOf
<1>3. /\ f \in Offset /\ f \in 0 .. Capacity - 1 /\ Multiple(f)
      /\ h.size[f] \in 1 .. Capacity /\ Multiple(h.size[f])
      /\ End(h, f) = f + h.size[f] /\ End(h, f) \in f + 1 .. Capacity
  BY <1>1, <1>2, FragmentIs
<1> DEFINE leftover == h.size[f] - wanted
           rest == f + wanted
           cut == [h EXCEPT !.size[f] = wanted]
           linked == interlink([cut EXCEPT !.size[rest] = leftover, !.used[rest] = FALSE],
                               rest, h.next[f])
<1>4. Split(h, f, wanted) = IF leftover < FragmentSizeMin THEN cut
                            ELSE rebin(interlink(linked, f, rest), rest)
  BY DEF Split
<1>5. CASE wanted = h.size[f]
  <2>1. leftover < FragmentSizeMin
    BY <1>3, <1>5, Constants
  <2>2. cut = h
    BY <1>1, <1>3, <1>5 DEF Heaps
  <2>3. Split(h, f, wanted) = h
    BY <1>4, <2>1, <2>2
  <2>4. F = FreeOf(h) \ {f}
    BY <1>2
  <2>5. SameUse(h, h)
    BY DEF SameUse
  <2> QED BY <1>5, <2>3, <2>4, <2>5
<1>6. CASE wanted # h.size[f]
  <2>1. wanted < h.size[f]
    BY <1>3, <1>6
  <2>2. wanted + FragmentSizeMin <= h.size[f]
    BY <1>3, <2>1, Multiples
  <2>3. ~(leftover < FragmentSizeMin)
    BY <1>3, <2>2, Constants
  <2>4. rest \in Offset /\ f < rest /\ rest < End(h, f) /\ rest = f + wanted
    <3>1. Multiple(rest)
      BY <1>3, Multiples
    <3>2. rest \in 0 .. Capacity - 1 /\ f < rest /\ rest < End(h, f)
      BY <1>3, <2>1, Constants
    <3> QED BY <3>1, <3>2, OffsetIs
  <2> HIDE DEF rest
  <2> DEFINE r0 == interlink(linked, f, rest)
             r == rebin(r0, rest)
  <2>5. WasCut(h, f, rest, r0)
    BY <1>1, <1>3, <2>1, <2>4, CutIs
  <2>6. Split(h, f, wanted) = r
    BY <1>4, <2>3
  <2> HIDE DEF r0, linked, cut, leftover
  <2>7. /\ Arena(r0, F) /\ rest \notin FragmentsOf(h)
        /\ FragmentsOf(r0) = FragmentsOf(h) \cup {rest}
        /\ FreeOf(r0) = FreeOf(h) \cup {rest}
        /\ SameUse(h, r0)
        /\ End(r0, f) = rest /\ End(r0, rest) = End(h, f)
        /\ \A g \in FragmentsOf(h) \ {f} : End(r0, g) = End(h, g)
    BY <1>2, <2>4, <2>5, CutArena
  <2>8. \A g \in F : End(r0, g) # rest
    <3> SUFFICES ASSUME NEW g \in F, End(h, g) = rest PROVE FALSE
      BY <1>1, <1>2, <2>7
    <3>1. rest # Capacity
      BY <2>4, Constants DEF Offset
    <3>2. End(h, g) = Capacity \/ End(h, g) \in FragmentsOf(h)
      BY <1>1 DEF Tiled
    <3> QED BY <2>7, <3>1, <3>2
  <2>9. rest \in FreeOf(r0) \ F /\ End(r0, rest) \notin F
    BY <1>1, <2>7
  <2>10. Arena(r, F \cup {rest}) /\ SameChain(r0, r)
    BY <2>7, <2>8, <2>9, RebinArena
  <2> HIDE DEF r
  <2>11. FreeOf(r) = F \cup {f, rest} /\ FragmentsOf(r) = FragmentsOf(r0)
    BY <2>7, <2>10 DEF SameChain, FreeOf, FragmentsOf
  <2>12. SameUse(h, r)
    BY <2>7, <2>10 DEF SameChain, SameUse, InUse, FragmentsOf
  <2>13. r.size[f] = wanted
    <3>1. r0.size[f] = rest - f
      BY <1>3, <2>5 DEF WasCut
    <3>2. rest - f = wanted
      BY <1>3, <2>4
    <3> QED BY <2>10, <3>1, <3>2 DEF SameChain
  <2>14. rest # f
    BY <1>3, <2>4
  <2>15. F \cup {rest} = FreeOf(r) \ {f}
    BY <1>2, <2>11, <2>14
  <2> QED BY <2>6, <2>10, <2>11, <2>12, <2>13, <2>15
<1> QED BY <1>5, <1>6

LEMMA HandedOutArena ==
    ASSUME NEW h, NEW f \in FreeOf(h), Arena(h, FreeOf(h) \ {f})
    PROVE  LET r == HandedOut(h, f)
           IN  /\ Arena(r, FreeOf(r))
               /\ InUse(r) = InUse(h) \cup {f} /\ r.size = h.size
<1> DEFINE r == HandedOut(h, f)
           F == FreeOf(h) \ {f}
<1>1. /\ h \in Heaps /\ Tiled(h) /\ Listed(h, F) /\ FragmentsOf(h) \subseteq Offset
      /\ \A g \in F : End(h, g) \notin F
  BY ArenaIs
<1>2. f \in FragmentsOf(h) /\ f \in Offset
  BY <1>1 DEF FreeOf
<1>3. Lent(h, f, r)
  BY <1>1, <1>2, HandedOutIs
<1> HIDE DEF r
<1>4. /\ r \in Heaps /\ SameBinsBut(h, r, f)
      /\ r.next = h.next /\ r.prev = h.prev /\ r.size = h.size
      /\ \A o \in Offset : r.used[o] <=> o = f \/ h.used[o]
  BY <1>3, Zenon DEF Lent
<1>5. Tiled(r) /\ FragmentsOf(r) = FragmentsOf(h) /\ \A g : End(r, g) = End(h, g)
  BY <1>1, <1>4, TiledKept
<1>6. FreeOf(r) = F /\ InUse(r) = InUse(h) \cup {f}
  BY <1>1, <1>2, <1>4, <1>5 DEF FreeOf, InUse
<1>7. \A g \in F : g \in Offset /\ g # f
  BY <1>1 DEF FreeOf
<1>8. Listed(r, F)
  <2>1. \A g \in F : /\ r.next_free[g] = h.next_free[g] /\ r.prev_free[g] = h.prev_free[g]
                     /\ r.size[g] = h.size[g]
    BY <1>4, <1>7 DEF SameBinsBut
  <2>2. r.bins = h.bins /\ r.nonempty_bin_mask = h.nonempty_bin_mask
    BY <1>4 DEF SameBinsBut
  <2> QED BY <1>1, <2>1, <2>2, ListedKept
<1>9. \A g \in F : End(r, g) \notin F
  BY <1>1, <1>5
<1> HIDE DEF F
<1>10. Arena(r, F)
  BY <1>4, <1>5, <1>6, <1>8, <1>9 DEF Arena
<1> QED BY <1>4, <1>6, <1>10 DEF r

(* A fragment joins its right neighbour, if that one is free.              *)
JoinedRight(h, f) ==
    IF JoinRight(h, f) THEN Absorb(unbin(h, h.next[f]), f, h.next[f]) ELSE h

LEMMA JoinedRightArena ==
    ASSUME NEW h, NEW F, Arena(h, F), NEW f \in FreeOf(h) \ F, FreeOf(h) = F \cup {f}
    PROVE  \E G \in SUBSET F :
             LET r == JoinedRight(h, f)
             IN  /\ Arena(r, G) /\ FreeOf(r) = G \cup {f}
                 /\ SameUse(h, r)
                 /\ End(r, f) \notin G
                 /\ \A g \in G : End(r, g) = End(h, g)
                 /\ \A g \in F \ G : g = h.next[f]
<1>1. /\ h \in Heaps /\ Tiled(h) /\ F \in SUBSET Offset /\ F \subseteq FreeOf(h)
      /\ F \subseteq FragmentsOf(h) /\ FragmentsOf(h) \subseteq Offset
      /\ \A g \in F : End(h, g) \notin F
  BY ArenaIs
<1>2. f \in FragmentsOf(h) /\ ~h.used[f] /\ f \notin F
  BY DEF FreeOf
<1>3. End(h, f) # f /\ NULL \notin Offset
  <2>1. f \in 0 .. Capacity - 1 /\ End(h, f) \in f + 1 .. Capacity
    BY <1>1, <1>2, FragmentIs
  <2> QED BY <2>1, NullIs, Constants
<1>4. IF End(h, f) = Capacity THEN h.next[f] = NULL
      ELSE End(h, f) \in FragmentsOf(h) /\ h.next[f] = End(h, f)
  BY <1>1, <1>2, Zenon DEF Tiled
<1>5. CASE ~JoinRight(h, f)
  <2>1. JoinedRight(h, f) = h
    BY <1>5 DEF JoinedRight
  <2>2. End(h, f) \notin F
    <3> SUFFICES ASSUME End(h, f) \in F PROVE FALSE
      OBVIOUS
    <3>1. End(h, f) \in FragmentsOf(h) /\ ~h.used[End(h, f)] /\ End(h, f) \in Offset
      BY <1>1 DEF FreeOf
    <3>2. End(h, f) # Capacity
      <4>1. End(h, f) \in 0 .. Capacity - 1
        BY <3>1, OffsetIs
      <4> QED BY <4>1, Constants
    <3>3. h.next[f] = End(h, f)
      BY <1>4, <3>2
    <3> QED BY <1>3, <1>5, <3>1, <3>3 DEF JoinRight
  <2>3. SameUse(h, h)
    BY DEF SameUse
  <2>4. F \in SUBSET F /\ F \ F = {}
    OBVIOUS
  <2> QED BY <2>1, <2>2, <2>3, <2>4
<1>6. CASE JoinRight(h, f)
  <2> DEFINE right == h.next[f]
             k == unbin(h, right)
             r == Absorb(k, f, right)
             G == F \ {right}
  <2>1. right # NULL /\ ~h.used[right]
    BY <1>6 DEF JoinRight
  <2>2. right = End(h, f) /\ right \in FragmentsOf(h)
    BY <1>4, <2>1
  <2>3. right \in F
    <3>1. right \in FreeOf(h)
      BY <2>1, <2>2 DEF FreeOf
    <3> QED BY <1>3, <2>2, <3>1
  <2>4. JoinedRight(h, f) = r
    BY <1>6 DEF JoinedRight
  <2>5. Arena(k, G) /\ SameChain(h, k)
    BY <2>3, UnbinArena
  <2> HIDE DEF k, right
  <2>6. FragmentsOf(k) = FragmentsOf(h) /\ FreeOf(k) = FreeOf(h) /\ \A g : End(k, g) = End(h, g)
    BY <2>5 DEF SameChain, FragmentsOf, FreeOf, End
  <2>7. /\ f \in FragmentsOf(k) \ G /\ right \in FragmentsOf(k) \ G
        /\ End(k, f) = right /\ ~k.used[f] /\ ~k.used[right]
    BY <1>2, <2>1, <2>2, <2>5, <2>6 DEF SameChain
  <2>8. /\ Arena(r, G)
        /\ FragmentsOf(r) = FragmentsOf(k) \ {right}
        /\ FreeOf(r) = FreeOf(k) \ {right}
        /\ SameUse(k, r)
        /\ End(r, f) = End(k, right)
        /\ \A g \in FragmentsOf(k) \ {f, right} : End(r, g) = End(k, g)
    BY <2>5, <2>7, AbsorbArena
  <2> HIDE DEF r
  <2>9. FreeOf(r) = G \cup {f}
    <3>1. right # f
      BY <1>2, <2>3
    <3> QED BY <2>6, <2>8, <3>1
  <2>10. SameUse(h, r)
    BY <2>5, <2>6, <2>8 DEF SameUse, InUse, SameChain
  <2>11. End(r, f) \notin G
    BY <1>1, <2>3, <2>6, <2>8
  <2>12. \A g \in G : End(r, g) = End(h, g)
    BY <1>1, <1>2, <2>6, <2>8
  <2>13. G \in SUBSET F /\ \A g \in F \ G : g = right
    OBVIOUS
  <2> QED BY <2>4, <2>8, <2>9, <2>10, <2>11, <2>12, <2>13 DEF right
<1> QED BY <1>5, <1>6

LEMMA MergedArena ==
    ASSUME NEW h, NEW F, Arena(h, F), NEW f \in FreeOf(h) \ F, FreeOf(h) = F \cup {f}
    PROVE  LET r == Merged(h, f)
           IN  Arena(r, FreeOf(r)) /\ SameUse(h, r)
<1> DEFINE left == h.prev[f]
           j == JoinedRight(h, f)
<1>1. Merged(h, f) = IF JoinLeft(h, f) THEN rebin(Absorb(unbin(j, left), left, f), left)
                     ELSE rebin(j, f)
  BY DEF Merged, JoinedRight
<1>2. PICK G \in SUBSET F :
             /\ Arena(j, G) /\ FreeOf(j) = G \cup {f}
             /\ SameUse(h, j)
             /\ End(j, f) \notin G
             /\ \A g \in G : End(j, g) = End(h, g)
             /\ \A g \in F \ G : g = h.next[f]
  BY JoinedRightArena
<1> HIDE DEF j
<1>3. /\ h \in Heaps /\ Tiled(h) /\ F \in SUBSET Offset /\ F \subseteq FreeOf(h)
      /\ F \subseteq FragmentsOf(h) /\ FragmentsOf(h) \subseteq Offset
      /\ \A g \in F : End(h, g) \notin F
  BY ArenaIs
<1>4. /\ j \in Heaps /\ Tiled(j) /\ G \in SUBSET Offset /\ G \subseteq FreeOf(j)
      /\ G \subseteq FragmentsOf(j) /\ FragmentsOf(j) \subseteq Offset
      /\ \A g \in G : End(j, g) \notin G
  BY <1>2, ArenaIs
<1>5. f \in FragmentsOf(h) /\ ~h.used[f] /\ f \notin F
  BY DEF FreeOf
<1>6. f \in FreeOf(j) \ G /\ f \in FragmentsOf(j) /\ ~j.used[f]
  BY <1>2, <1>5 DEF FreeOf
<1>7. IF f = 0 THEN left = NULL ELSE left \in FragmentsOf(h) /\ End(h, left) = f
  BY <1>3, <1>5, Zenon DEF Tiled
<1>8. CASE ~JoinLeft(h, f)
  <2> DEFINE r == rebin(j, f)
  <2>1. \A g \in G : End(j, g) # f
    <3> SUFFICES ASSUME NEW g \in G, End(h, g) = f PROVE FALSE
      BY <1>2
    <3>1. g \in FragmentsOf(h) /\ ~h.used[g] /\ g # NULL
      BY <1>3, NullIs DEF FreeOf
    <3>2. h.prev[f] = g
      BY <1>3, <1>5, <3>1, Neighbours
    <3> QED BY <1>8, <3>1, <3>2 DEF JoinLeft
  <2>2. Arena(r, G \cup {f}) /\ SameChain(j, r)
    BY <1>2, <1>6, <2>1, RebinArena
  <2> HIDE DEF r
  <2>3. FreeOf(r) = G \cup {f} /\ SameUse(h, r)
    BY <1>2, <2>2 DEF SameChain, FreeOf, FragmentsOf, SameUse, InUse
  <2> QED BY <1>1, <1>8, <2>2, <2>3 DEF r
<1>9. CASE JoinLeft(h, f)
  <2> DEFINE k == unbin(j, left)
             m == Absorb(k, left, f)
             r == rebin(m, left)
             H == G \ {left}
  <2>1. left # NULL /\ ~h.used[left]
    BY <1>9 DEF JoinLeft
  <2>2. left \in FragmentsOf(h) /\ End(h, left) = f
    BY <1>7, <2>1
  <2>3. left # f /\ left # h.next[f]
    <3>1. /\ left \in 0 .. Capacity - 1 /\ End(h, left) \in left + 1 .. Capacity
          /\ f \in 0 .. Capacity - 1 /\ End(h, f) \in f + 1 .. Capacity
      BY <1>3, <1>5, <2>2, FragmentIs
    <3>2. h.next[f] = left <=> End(h, f) = left
      BY <1>3, <1>5, <2>2, Neighbours
    <3> QED BY <2>2, <3>1, <3>2, Constants
  <2>4. left \in G
    <3>1. left \in FreeOf(h)
      BY <2>1, <2>2 DEF FreeOf
    <3> QED BY <1>2, <2>3, <3>1
  <2>5. Arena(k, H) /\ SameChain(j, k)
    BY <1>2, <2>4, UnbinArena
  <2> HIDE DEF k, left
  <2>6. FragmentsOf(k) = FragmentsOf(j) /\ FreeOf(k) = FreeOf(j) /\ \A g : End(k, g) = End(j, g)
    BY <2>5 DEF SameChain, FragmentsOf, FreeOf, End
  <2>7. /\ left \in FragmentsOf(k) \ H /\ f \in FragmentsOf(k) \ H
        /\ End(k, left) = f /\ ~k.used[f] /\ ~k.used[left]
    <3>1. End(j, left) = f
      BY <1>2, <2>2, <2>4
    <3>2. ~j.used[left]
      BY <1>4, <2>4 DEF FreeOf
    <3> QED BY <1>4, <1>6, <2>4, <2>5, <2>6, <3>1, <3>2 DEF SameChain
  <2>8. /\ Arena(m, H)
        /\ FragmentsOf(m) = FragmentsOf(k) \ {f}
        /\ FreeOf(m) = FreeOf(k) \ {f}
        /\ SameUse(k, m)
        /\ End(m, left) = End(k, f)
        /\ \A g \in FragmentsOf(k) \ {left, f} : End(m, g) = End(k, g)
    BY <2>5, <2>7, AbsorbArena
  <2> HIDE DEF m
  <2>9. FreeOf(m) = G
    BY <1>2, <1>5, <2>6, <2>8
  <2>10. left \in FreeOf(m) \ H /\ End(m, left) \notin H
    BY <1>2, <2>4, <2>6, <2>8, <2>9
  <2>11. \A g \in H : End(m, g) # left
    <3> SUFFICES ASSUME NEW g \in H PROVE End(m, g) # left
      OBVIOUS
    <3>1. g \in FragmentsOf(k) \ {left, f}
      BY <1>4, <1>5, <2>6
    <3>2. End(m, g) = End(j, g)
      BY <2>6, <2>8, <3>1
    <3> QED BY <1>4, <2>4, <3>2
  <2>12. Arena(r, H \cup {left}) /\ SameChain(m, r)
    BY <2>8, <2>10, <2>11, RebinArena
  <2>13. H \cup {left} = G
    BY <2>4
  <2> HIDE DEF r
  <2>14. FreeOf(r) = G
    BY <2>9, <2>12 DEF SameChain, FreeOf, FragmentsOf
  <2>15. SameUse(h, r)
    BY <1>2, <2>5, <2>8, <2>12 DEF SameChain, FragmentsOf, SameUse, InUse
  <2> QED BY <1>1, <1>9, <2>12, <2>13, <2>14, <2>15 DEF r, m, k
<1> QED BY <1>8, <1>9

(* The heap serves a request with a fragment that is large enough.         *)
LEMMA ServedArena ==
    ASSUME NEW h, Arena(h, FreeOf(h)), NEW amount \in Nat \ {0},
           SuitableBins(h, amount) # {},
           NEW f, f = h.bins[Least(SuitableBins(h, amount))],
           NEW r, r = HandedOut(Split(unbin(h, f), f, FragmentSize(amount)), f)
    PROVE  /\ f \in FreeOf(h)
           /\ Arena(r, FreeOf(r))
           /\ InUse(r) = InUse(h) \cup {f} /\ f \notin InUse(h)
           /\ r.size[f] = FragmentSize(amount)
           /\ \A o \in InUse(h) : r.size[o] = h.size[o]
<1> DEFINE F == FreeOf(h)
           wanted == FragmentSize(amount)
           S == SuitableBins(h, amount)
           k == unbin(h, f)
           s == Split(k, f, wanted)
<1>1. /\ h \in Heaps /\ Tiled(h) /\ Listed(h, F) /\ F \in SUBSET Offset
      /\ F \subseteq FragmentsOf(h) /\ FragmentsOf(h) \subseteq Offset
      /\ \A g \in F : End(h, g) \notin F /\ ~h.used[g]
  BY ArenaIs
<1>2. S \in SUBSET Nat /\ S \subseteq Bin /\ S \subseteq h.nonempty_bin_mask
  BY <1>1, Constants DEF SuitableBins, Heaps, Bin
<1>3. Least(S) \in S
  <2>1. \E x \in S : \A y \in S : x <= y
    BY <1>2, LeastNatural
  <2> HIDE DEF S
  <2> QED BY <2>1, Zenon DEF Least
<1>4. f \in F /\ BinOf(h, f) = Least(S)
  <2>1. Least(S) \in Bin /\ Least(S) \in h.nonempty_bin_mask
    BY <1>2, <1>3
  <2> HIDE DEF S
  <2>2. f = h.bins[Least(S)]
    BY DEF S
  <2>3. h.bins[Least(S)] # NULL
    BY <1>1, <2>1, Zenon DEF Listed
  <2>4. \A b \in Bin : h.bins[b] # NULL => h.bins[b] \in F /\ BinOf(h, h.bins[b]) = b
    BY <1>1, Zenon DEF Listed
  <2> QED BY <2>1, <2>2, <2>3, <2>4
<1>5. f \in FragmentsOf(h) /\ ~h.used[f]
  BY <1>1, <1>4
<1>6. /\ wanted \in Nat /\ FragmentSizeMin <= wanted /\ Multiple(wanted)
      /\ wanted > 0 /\ wanted <= h.size[f]
  <2>1. wanted \in Nat /\ FragmentSizeMin <= wanted /\ Multiple(wanted)
    BY FragmentSizeIs
  <2>2. h.size[f] \in Nat \ {0} /\ Multiple(h.size[f])
    <3>1. h.size[f] \in 1 .. Capacity /\ Multiple(h.size[f])
      BY <1>1, <1>5, FragmentIs
    <3> QED BY <3>1
  <2>3. log2Ceil(FragmentSize(amount) \div FragmentSizeMin) <= BinOf(h, f)
    BY <1>3, <1>4 DEF SuitableBins
  <2>4. log2Ceil(FragmentSize(amount) \div FragmentSizeMin)
          <= log2Floor(h.size[f] \div FragmentSizeMin)
    BY <2>3 DEF BinOf
  <2>5. wanted <= h.size[f]
    BY <2>2, <2>4, Suits
  <2> QED BY <2>1, <2>5, Constants
<1> HIDE DEF S, wanted
<1>7. Arena(k, F \ {f}) /\ SameChain(h, k)
  BY <1>4, UnbinArena
<1> HIDE DEF k
<1>8. /\ FragmentsOf(k) = FragmentsOf(h) /\ FreeOf(k) = F /\ InUse(k) = InUse(h)
      /\ \A g : End(k, g) = End(h, g)
  BY <1>7 DEF SameChain, FragmentsOf, FreeOf, End, InUse
<1>9. /\ f \in FreeOf(k) \ (F \ {f}) /\ FreeOf(k) = (F \ {f}) \cup {f}
      /\ End(k, f) \notin F \ {f} /\ \A g \in F \ {f} : End(k, g) # f
  BY <1>1, <1>4, <1>8
<1>10. wanted <= k.size[f]
  BY <1>6, <1>7 DEF SameChain
<1>11. Arena(s, FreeOf(s) \ {f}) /\ SameUse(k, s) /\ f \in FreeOf(s) /\ s.size[f] = wanted
  BY <1>6, <1>7, <1>9, <1>10, SplitArena
<1>12. r = HandedOut(s, f)
  BY DEF s, k, wanted
<1> HIDE DEF s
<1>13. Arena(r, FreeOf(r)) /\ InUse(r) = InUse(s) \cup {f} /\ r.size = s.size
  BY <1>11, <1>12, HandedOutArena
<1>14. InUse(r) = InUse(h) \cup {f} /\ \A o \in InUse(h) : r.size[o] = h.size[o]
  BY <1>7, <1>8, <1>11, <1>13 DEF SameUse, SameChain
<1>15. f \notin InUse(h)
  BY <1>5 DEF InUse
<1> QED BY <1>4, <1>11, <1>13, <1>14, <1>15 DEF wanted

(* It serves one whenever a free fragment is large enough.                 *)
LEMMA RoomIsFound ==
    ASSUME NEW h, Arena(h, FreeOf(h)), NEW amount \in Nat \ {0}, NEW f \in FreeOf(h),
           FragmentSize(amount) <= h.size[f]
    PROVE  SuitableBins(h, amount) # {}
<1>1. /\ h \in Heaps /\ Tiled(h) /\ Listed(h, FreeOf(h)) /\ FreeOf(h) \in SUBSET Offset
      /\ FreeOf(h) \subseteq FragmentsOf(h) /\ BinOf(h, f) \in Bin
  BY ArenaIs
<1>2. h.size[f] \in Nat \ {0} /\ Multiple(h.size[f])
  <2>1. f \in FragmentsOf(h)
    BY <1>1
  <2>2. h.size[f] \in 1 .. Capacity /\ Multiple(h.size[f])
    BY <1>1, <2>1, FragmentIs
  <2> QED BY <2>2
<1>3. log2Ceil(FragmentSize(amount) \div FragmentSizeMin) <= BinOf(h, f)
  BY <1>2, Suits DEF BinOf
<1>4. h.bins[BinOf(h, f)] # NULL
  BY <1>1, BinsHeld
<1>5. BinOf(h, f) \in h.nonempty_bin_mask
  BY <1>1, <1>4, Zenon DEF Listed
<1>6. BinOf(h, f) \in SuitableBins(h, amount)
  BY <1>3, <1>5 DEF SuitableBins
<1> QED BY <1>6

LEMMA FreedArena ==
    ASSUME NEW h, Arena(h, FreeOf(h)), NEW f \in InUse(h),
           NEW r, r = Merged([h EXCEPT !.used[f] = FALSE], f)
    PROVE  /\ Arena(r, FreeOf(r))
           /\ InUse(r) = InUse(h) \ {f}
           /\ \A o \in InUse(r) : r.size[o] = h.size[o]
<1> DEFINE F == FreeOf(h)
           k == [h EXCEPT !.used[f] = FALSE]
<1>1. /\ h \in Heaps /\ Tiled(h) /\ Listed(h, F) /\ F \in SUBSET Offset
      /\ FragmentsOf(h) \subseteq Offset /\ \A g \in F : End(h, g) \notin F
  BY ArenaIs
<1>2. f \in FragmentsOf(h) /\ f \in Offset /\ h.used[f]
  BY <1>1 DEF InUse
<1>3. Released(h, f, k)
  BY <1>1, <1>2, ReleasedIs
<1>4. r = Merged(k, f)
  OBVIOUS
<1> HIDE DEF k
<1>5. /\ k \in Heaps /\ SameLists(h, k)
      /\ k.next = h.next /\ k.prev = h.prev /\ k.size = h.size
      /\ \A o \in Offset : k.used[o] <=> o # f /\ h.used[o]
  BY <1>3, Zenon DEF Released
<1>6. Tiled(k) /\ FragmentsOf(k) = FragmentsOf(h) /\ \A g : End(k, g) = End(h, g)
  BY <1>1, <1>5, TiledKept
<1>7. FreeOf(k) = F \cup {f} /\ f \notin F /\ InUse(k) = InUse(h) \ {f}
  BY <1>1, <1>2, <1>5, <1>6 DEF FreeOf, InUse
<1>8. Listed(k, F)
  BY <1>1, <1>5, ListedKept DEF SameLists
<1> HIDE DEF F
<1>9. Arena(k, F)
  <2>1. F \subseteq FreeOf(k) /\ \A g \in F : End(k, g) \notin F
    BY <1>1, <1>6, <1>7
  <2> QED BY <1>5, <1>6, <1>8, <2>1 DEF Arena
<1>10. Arena(r, FreeOf(r)) /\ SameUse(k, r)
  BY <1>4, <1>7, <1>9, MergedArena
<1> QED BY <1>5, <1>7, <1>10 DEF SameUse

-----------------------------------------------------------------------------
(* The bytes in use, counted.                                              *)

LEMMA BytesCounted ==
    ASSUME NEW h \in Heaps, Tiled(h)
    PROVE  /\ IsFiniteSet(Bytes(h)) /\ Cardinality(Bytes(h)) \in 0 .. Capacity
           /\ \A f \in InUse(h) : f .. End(h, f) - 1 \subseteq Bytes(h)
<1> DEFINE A == 0 .. Capacity - 1
<1>1. ASSUME NEW f \in InUse(h) PROVE f .. End(h, f) - 1 \subseteq A
  <2>1. f \in FragmentsOf(h)
    BY DEF InUse
  <2>2. f \in 0 .. Capacity - 1 /\ End(h, f) \in f + 1 .. Capacity
    BY <2>1, FragmentIs
  <2> QED BY <2>2, Constants
<1>2. Bytes(h) \in SUBSET A
  BY <1>1 DEF Bytes
<1>3. IsFiniteSet(A) /\ Cardinality(A) = Capacity
  <2>1. 0 \in Int /\ Capacity - 1 \in Int /\ ~(0 > Capacity - 1) /\ (Capacity - 1) - 0 + 1 = Capacity
    BY Constants
  <2>2. IsFiniteSet(A)
    BY <2>1, FS_Interval
  <2>3. Cardinality(A) = IF 0 > Capacity - 1 THEN 0 ELSE (Capacity - 1) - 0 + 1
    BY <2>1, FS_Interval
  <2> QED BY <2>1, <2>2, <2>3
<1> HIDE DEF A
<1>4. IsFiniteSet(Bytes(h)) /\ Cardinality(Bytes(h)) <= Cardinality(A)
  BY <1>2, <1>3, FS_Subset
<1>5. Cardinality(Bytes(h)) \in Nat
  BY <1>4, FS_CardinalityType
<1>6. \A f \in InUse(h) : f .. End(h, f) - 1 \subseteq Bytes(h)
  BY DEF Bytes
<1> QED BY <1>3, <1>4, <1>5, <1>6, Constants

LEMMA BytesAdded ==
    ASSUME NEW h \in Heaps, Tiled(h), NEW r \in Heaps, Tiled(r),
           NEW f, f \notin InUse(h), InUse(r) = InUse(h) \cup {f},
           \A o \in InUse(h) : r.size[o] = h.size[o]
    PROVE  Cardinality(Bytes(r)) = Cardinality(Bytes(h)) + r.size[f]
<1> DEFINE I == f .. End(r, f) - 1
<1>1. f \in FragmentsOf(r)
  BY DEF InUse
<1>2. /\ f \in 0 .. Capacity - 1 /\ r.size[f] \in 1 .. Capacity
      /\ End(r, f) = f + r.size[f] /\ End(r, f) \in f + 1 .. Capacity /\ Capacity \in Nat
  BY <1>1, FragmentIs, Constants
<1>3. \A o \in InUse(h) : End(r, o) = End(h, o)
  BY DEF End
<1>4. Bytes(r) = Bytes(h) \cup I
  BY <1>3 DEF Bytes
<1>5. ASSUME NEW o \in InUse(h) PROVE (o .. End(h, o) - 1) \cap I = {}
  <2>1. o \in FragmentsOf(r) /\ o # f
    BY DEF InUse
  <2>2. End(r, o) <= f \/ End(r, f) <= o
    BY <1>1, <2>1, Neighbours
  <2>3. o \in 0 .. Capacity - 1 /\ End(r, o) \in o + 1 .. Capacity
    BY <2>1, FragmentIs
  <2> QED BY <1>2, <1>3, <2>2, <2>3
<1>6. Bytes(h) \cap I = {}
  BY <1>5 DEF Bytes
<1>7. IsFiniteSet(I) /\ Cardinality(I) = r.size[f]
  <2>1. f \in Int /\ End(r, f) - 1 \in Int /\ ~(f > End(r, f) - 1)
        /\ (End(r, f) - 1) - f + 1 = r.size[f]
    BY <1>2
  <2>2. IsFiniteSet(I)
    BY <2>1, FS_Interval
  <2>3. Cardinality(I) = IF f > End(r, f) - 1 THEN 0 ELSE (End(r, f) - 1) - f + 1
    BY <2>1, FS_Interval
  <2> QED BY <2>1, <2>2, <2>3
<1> HIDE DEF I
<1>8. IsFiniteSet(Bytes(h)) /\ Cardinality(Bytes(h)) \in 0 .. Capacity
  BY BytesCounted
<1>9. Cardinality(Bytes(h) \cup I) = Cardinality(Bytes(h)) + Cardinality(I) - Cardinality(Bytes(h) \cap I)
  BY <1>7, <1>8, FS_Union
<1>10. Cardinality({}) = 0
  BY FS_EmptySet
<1>11. PICK n \in Nat : n = Cardinality(Bytes(h))
  BY <1>8
<1>12. PICK m \in Nat : m = r.size[f]
  BY <1>2
<1>13. Cardinality(Bytes(h) \cup I) = n + m - 0
  BY <1>6, <1>7, <1>9, <1>10, <1>11, <1>12
<1> QED BY <1>4, <1>11, <1>12, <1>13

-----------------------------------------------------------------------------
(* The steps.                                                              *)

LEMMA InitArena ==
    LET r == rebin([Blank EXCEPT !.size[0] = Capacity], 0)
    IN  Arena(r, FreeOf(r)) /\ InUse(r) = {}
<1> DEFINE h == [Blank EXCEPT !.size[0] = Capacity]
           r == rebin(h, 0)
<1>1. 0 \in Offset /\ NULL \in Pointer /\ NULL \notin Offset /\ 0 \in 0 .. Capacity
      /\ Capacity \in 0 .. Capacity
  BY NullIs, Constants
<1>2. /\ h \in Heaps
      /\ \A o \in Offset : h.next[o] = NULL /\ h.prev[o] = NULL /\ ~h.used[o]
      /\ \A o \in Offset : h.size[o] = IF o = 0 THEN Capacity ELSE 0
      /\ \A k \in Bin : h.bins[k] = NULL
      /\ h.nonempty_bin_mask = {}
  BY <1>1 DEF Heaps, Blank
<1> HIDE DEF h
<1>3. FragmentsOf(h) = {0} /\ FreeOf(h) = {0}
  BY <1>1, <1>2, Constants DEF FragmentsOf, FreeOf
<1>4. End(h, 0) = Capacity
  BY <1>1, <1>2, Constants DEF End
<1>5. Tiled(h)
  <2>1. h.size[0] % FragmentSizeMin = 0
    BY <1>1, <1>2, Constants
  <2> QED BY <1>1, <1>2, <1>3, <1>4, <2>1 DEF Tiled
<1>6. Listed(h, {})
  BY <1>2 DEF Listed
<1>7. Arena(h, {})
  BY <1>2, <1>5, <1>6 DEF Arena
<1>8. 0 \in FreeOf(h) \ {}
  BY <1>3
<1>9. Arena(r, {} \cup {0}) /\ SameChain(h, r)
  BY <1>7, <1>8, RebinArena
<1> HIDE DEF r
<1>10. FreeOf(r) = {0} /\ InUse(r) = {}
  BY <1>1, <1>2, <1>3, <1>9 DEF FreeOf, InUse, FragmentsOf, SameChain
<1> QED BY <1>9, <1>10 DEF r, h

LEMMA InitHeapInv == Init => HeapInv
<1> SUFFICES ASSUME Init PROVE HeapInv
  OBVIOUS
<1>1. Arena(heap, FreeOf(heap)) /\ InUse(heap) = {}
  BY InitArena DEF Init
<1>2. BlocksOut(heap, lent)
  BY <1>1 DEF BlocksOut, Init
<1>3. Cardinality(Bytes(heap)) = 0
  <2>1. Bytes(heap) = {}
    BY <1>1 DEF Bytes
  <2> QED BY <2>1, FS_EmptySet
<1>4. Diagnosed(diagnostics)
  <2>1. Multiple(0)
    BY NullIs, OffsetIs
  <2> QED BY <2>1, Constants DEF Diagnosed, Init, Multiple
<1> QED BY <1>1, <1>2, <1>3, <1>4 DEF HeapInv, Init

LEMMA BlocksAdded ==
    ASSUME NEW h, NEW r, NEW blocks, BlocksOut(h, blocks), NEW amount \in Amount, amount > 0,
           NEW f \in Offset, f \notin InUse(h), InUse(r) = InUse(h) \cup {f},
           \A o \in InUse(h) : r.size[o] = h.size[o], r.size[f] = FragmentSize(amount)
    PROVE  BlocksOut(r, blocks \cup {[at |-> f, amount |-> amount]})
<1> DEFINE new == [at |-> f, amount |-> amount]
<1>1. new \in [at : Offset, amount : Amount] /\ new.at = f /\ new.amount = amount
  OBVIOUS
<1> HIDE DEF new
<1>2. /\ blocks \subseteq [at : Offset, amount : Amount]
      /\ \A b \in blocks :
           b.at \in InUse(h) /\ b.amount > 0 /\ h.size[b.at] = FragmentSize(b.amount)
      /\ \A b, c \in blocks : b.at = c.at => b = c
      /\ \A o \in InUse(h) : \E b \in blocks : b.at = o
  BY Zenon DEF BlocksOut
<1>3. \A b \in blocks \cup {new} :
           b.at \in InUse(r) /\ b.amount > 0 /\ r.size[b.at] = FragmentSize(b.amount)
  BY <1>1, <1>2
<1>4. \A b, c \in blocks \cup {new} : b.at = c.at => b = c
  BY <1>1, <1>2
<1>5. \A o \in InUse(r) : \E b \in blocks \cup {new} : b.at = o
  BY <1>1, <1>2
<1>6. blocks \cup {new} \subseteq [at : Offset, amount : Amount]
  BY <1>1, <1>2
<1> QED BY <1>3, <1>4, <1>5, <1>6 DEF BlocksOut, new

LEMMA BlocksRemoved ==
    ASSUME NEW h, NEW r, NEW blocks, BlocksOut(h, blocks), NEW b \in blocks,
           InUse(r) = InUse(h) \ {b.at}, \A o \in InUse(r) : r.size[o] = h.size[o]
    PROVE  BlocksOut(r, blocks \ {b})
<1>1. /\ blocks \subseteq [at : Offset, amount : Amount]
      /\ \A c \in blocks :
           c.at \in InUse(h) /\ c.amount > 0 /\ h.size[c.at] = FragmentSize(c.amount)
      /\ \A c, d \in blocks : c.at = d.at => c = d
      /\ \A o \in InUse(h) : \E c \in blocks : c.at = o
  BY Zenon DEF BlocksOut
<1>2. \A c \in blocks \ {b} :
           c.at \in InUse(r) /\ c.amount > 0 /\ r.size[c.at] = FragmentSize(c.amount)
  BY <1>1
<1>3. \A c, d \in blocks \ {b} : c.at = d.at => c = d
  BY <1>1
<1>4. \A o \in InUse(r) : \E c \in blocks \ {b} : c.at = o
  BY <1>1
<1>5. blocks \ {b} \subseteq [at : Offset, amount : Amount]
  BY <1>1
<1> QED BY <1>2, <1>3, <1>4, <1>5 DEF BlocksOut

LEMMA CountedDiagnosed ==
    ASSUME Diagnosed(diagnostics), NEW amount \in Nat,
           NEW allocated \in 0 .. Capacity, Multiple(allocated),
           amount # 0 => amount + Alignment <= allocated,
           amount = 0 => allocated = diagnostics.allocated
    PROVE  Diagnosed(Counted(amount, allocated))
<1> DEFINE d == Counted(amount, allocated)
           e == diagnostics
<1>1. /\ e \in [allocated : Nat, peak_allocated : Nat, peak_request_size : Nat, oom_count : Nat]
      /\ e.allocated <= e.peak_allocated /\ e.peak_allocated <= Capacity
      /\ e.allocated % FragmentSizeMin = 0 /\ e.peak_allocated % FragmentSizeMin = 0
      /\ e.peak_request_size < Capacity \/ e.oom_count > 0
      /\ e.peak_request_size = 0 => e.peak_allocated = 0 /\ e.oom_count = 0
      /\ e.peak_request_size # 0 =>
           e.peak_request_size + Alignment <= e.peak_allocated \/ e.oom_count > 0
  BY Zenon DEF Diagnosed
<1>2. PICK p \in Nat : p = e.peak_allocated
  BY <1>1
<1>3. PICK q \in Nat : q = e.peak_request_size
  BY <1>1
<1>4. PICK o \in Nat : o = e.oom_count
  BY <1>1
<1>5. /\ Max2(p, allocated) \in Nat /\ Max2(q, amount) \in Nat /\ allocated \in Nat
  BY Constants DEF Max2
<1>6. /\ d \in [allocated : Nat, peak_allocated : Nat, peak_request_size : Nat, oom_count : Nat]
      /\ d.allocated = allocated /\ d.peak_allocated = Max2(p, allocated)
      /\ d.peak_request_size = Max2(q, amount) /\ d.oom_count = o
  BY <1>1, <1>2, <1>3, <1>4, <1>5 DEF Counted
<1> HIDE DEF d
<1>7. /\ p <= Capacity /\ p % FragmentSizeMin = 0 /\ allocated % FragmentSizeMin = 0
      /\ q < Capacity \/ o > 0
      /\ q = 0 => p = 0 /\ o = 0
      /\ q # 0 => q + Alignment <= p \/ o > 0
  BY <1>1, <1>2, <1>3, <1>4 DEF Multiple
<1>8. amount = 0 => allocated <= p
  BY <1>1, <1>2
<1>9. /\ allocated <= Max2(p, allocated) /\ Max2(p, allocated) <= Capacity
      /\ Max2(p, allocated) % FragmentSizeMin = 0
  BY <1>5, <1>7 DEF Max2
<1>10. Max2(q, amount) < Capacity \/ o > 0
  BY <1>5, <1>7, Constants DEF Max2
<1>11. Max2(q, amount) = 0 => Max2(p, allocated) = 0 /\ o = 0
  BY <1>5, <1>7, <1>8 DEF Max2
<1>12. Max2(q, amount) # 0 => Max2(q, amount) + Alignment <= Max2(p, allocated) \/ o > 0
  BY <1>5, <1>7, Constants DEF Max2
<1> QED BY <1>6, <1>7, <1>9, <1>10, <1>11, <1>12 DEF Diagnosed, d

LEMMA ServedHeapInv ==
    ASSUME HeapInv, NEW amount \in Amount, AllocateServed(amount)
    PROVE  HeapInv'
<1> DEFINE f == Chosen(amount)
<1>1. /\ Arena(heap, FreeOf(heap)) /\ BlocksOut(heap, lent)
      /\ diagnostics.allocated = Cardinality(Bytes(heap)) /\ Diagnosed(diagnostics)
  BY DEF HeapInv
<1>2. amount \in Nat \ {0} /\ SuitableBins(heap, amount) # {}
  BY O1HeapAssumption DEF AllocateServed, CanServe
<1>3. PICK r : /\ r = heap' /\ r = HandedOut(Split(unbin(heap, f), f, FragmentSize(amount)), f)
               /\ lent' = lent \cup {[at |-> f, amount |-> amount]}
               /\ diagnostics' = Counted(amount, diagnostics.allocated + FragmentSize(amount))
  BY Zenon DEF AllocateServed
<1>4. f = heap.bins[Least(SuitableBins(heap, amount))]
  BY DEF Chosen
<1> HIDE DEF f
<1>5. /\ f \in FreeOf(heap)
      /\ Arena(r, FreeOf(r))
      /\ InUse(r) = InUse(heap) \cup {f} /\ f \notin InUse(heap)
      /\ r.size[f] = FragmentSize(amount)
      /\ \A o \in InUse(heap) : r.size[o] = heap.size[o]
  BY <1>1, <1>2, <1>3, <1>4, ServedArena
<1>6. f \in Offset /\ amount > 0
  BY <1>2, <1>5 DEF FreeOf, FragmentsOf
<1>7. BlocksOut(r, lent')
  BY <1>1, <1>3, <1>5, <1>6, BlocksAdded
<1>8. heap \in Heaps /\ Tiled(heap) /\ r \in Heaps /\ Tiled(r)
  BY <1>1, <1>5, ArenaIs
<1>9. /\ Cardinality(Bytes(r)) = Cardinality(Bytes(heap)) + r.size[f]
      /\ Cardinality(Bytes(r)) \in 0 .. Capacity /\ Cardinality(Bytes(heap)) \in 0 .. Capacity
  BY <1>5, <1>8, BytesAdded, BytesCounted
<1>10. PICK allocated : allocated = diagnostics.allocated + FragmentSize(amount)
  OBVIOUS
<1>11. allocated = Cardinality(Bytes(r)) /\ allocated \in 0 .. Capacity
  BY <1>1, <1>5, <1>9, <1>10
<1>12. Multiple(allocated) /\ amount + Alignment <= allocated
  <2>1. /\ FragmentSize(amount) \in Nat /\ amount + Alignment <= FragmentSize(amount)
        /\ Multiple(FragmentSize(amount))
    BY <1>2, FragmentSizeIs
  <2>2. diagnostics.allocated \in Nat /\ Multiple(diagnostics.allocated)
    BY <1>1 DEF Diagnosed, Multiple
  <2>3. Multiple(allocated)
    BY <1>10, <2>1, <2>2, Multiples
  <2> QED BY <1>2, <1>10, <2>1, <2>2, <2>3, Constants
<1>13. Diagnosed(Counted(amount, allocated)) /\ Counted(amount, allocated).allocated = allocated
  <2>1. Diagnosed(Counted(amount, allocated))
    BY <1>1, <1>2, <1>11, <1>12, CountedDiagnosed
  <2>2. Counted(amount, allocated).allocated = allocated
    BY <1>1 DEF Counted, Diagnosed
  <2> QED BY <2>1, <2>2
<1> QED BY <1>3, <1>5, <1>7, <1>10, <1>11, <1>13 DEF HeapInv

LEMMA RefusedHeapInv ==
    ASSUME HeapInv, NEW amount \in Amount, AllocateRefused(amount)
    PROVE  HeapInv'
<1>1. /\ Arena(heap, FreeOf(heap)) /\ BlocksOut(heap, lent)
      /\ diagnostics.allocated = Cardinality(Bytes(heap)) /\ Diagnosed(diagnostics)
  BY DEF HeapInv
<1>2. amount \in Nat
  BY O1HeapAssumption
<1> DEFINE e == diagnostics
           d == Counted(amount, e.allocated)
<1>3. diagnostics' = [d EXCEPT !.oom_count = IF amount > 0 THEN Min2(@ + 1, OomBound) ELSE @]
  BY Zenon DEF AllocateRefused
<1>4. heap' = heap /\ lent' = lent
  BY DEF AllocateRefused
<1>5. /\ e \in [allocated : Nat, peak_allocated : Nat, peak_request_size : Nat, oom_count : Nat]
      /\ e.allocated <= e.peak_allocated /\ e.peak_allocated <= Capacity
      /\ e.allocated % FragmentSizeMin = 0 /\ e.peak_allocated % FragmentSizeMin = 0
      /\ e.peak_request_size < Capacity \/ e.oom_count > 0
      /\ e.peak_request_size = 0 => e.peak_allocated = 0 /\ e.oom_count = 0
      /\ e.peak_request_size # 0 =>
           e.peak_request_size + Alignment <= e.peak_allocated \/ e.oom_count > 0
  BY <1>1, Zenon DEF Diagnosed
<1>6. PICK p \in Nat : p = e.peak_allocated
  BY <1>5
<1>7. PICK q \in Nat : q = e.peak_request_size
  BY <1>5
<1>8. PICK o \in Nat : o = e.oom_count
  BY <1>5
<1>9. PICK a \in Nat : a = e.allocated
  BY <1>5
<1>10. a <= p /\ Max2(p, a) = p /\ Max2(q, amount) \in Nat /\ (amount = 0 => Max2(q, amount) = q)
  BY <1>2, <1>5, <1>6, <1>9 DEF Max2
<1>11. /\ d \in [allocated : Nat, peak_allocated : Nat, peak_request_size : Nat, oom_count : Nat]
       /\ d.allocated = a /\ d.peak_allocated = p
       /\ d.peak_request_size = Max2(q, amount) /\ d.oom_count = o
  BY <1>5, <1>6, <1>7, <1>8, <1>9, <1>10 DEF Counted
<1> HIDE DEF d
<1> DEFINE n == IF amount > 0 THEN Min2(o + 1, OomBound) ELSE o
           x == [d EXCEPT !.oom_count = n]
<1>12. n \in Nat /\ (amount > 0 => n > 0) /\ (amount = 0 => n = o)
  BY <1>2, O1HeapAssumption DEF Min2
<1>13. diagnostics' = x
  BY <1>3, <1>11
<1> HIDE DEF n
<1>14. /\ x \in [allocated : Nat, peak_allocated : Nat, peak_request_size : Nat, oom_count : Nat]
       /\ x.allocated = a /\ x.peak_allocated = p
       /\ x.peak_request_size = Max2(q, amount) /\ x.oom_count = n
  BY <1>11, <1>12
<1> HIDE DEF x
<1>15. CASE amount > 0
  <2>1. Max2(q, amount) # 0
    BY <1>2, <1>15 DEF Max2
  <2> QED
    <3>1. Diagnosed(x)
      BY <1>5, <1>6, <1>9, <1>12, <1>14, <1>15, <2>1 DEF Diagnosed
    <3>2. HeapInv'
      BY <1>1, <1>4, <1>9, <1>13, <1>14, <3>1 DEF HeapInv
    <3> QED BY <3>2
<1>16. CASE amount = 0
  <2>1. Diagnosed(x)
    BY <1>5, <1>6, <1>7, <1>8, <1>9, <1>10, <1>12, <1>14, <1>16 DEF Diagnosed
  <2> QED BY <1>1, <1>4, <1>9, <1>13, <1>14, <2>1 DEF HeapInv
<1> QED BY <1>2, <1>15, <1>16

LEMMA FreedHeapInv ==
    ASSUME HeapInv, NEW b \in lent, Free(b)
    PROVE  HeapInv'
<1>1. /\ Arena(heap, FreeOf(heap)) /\ BlocksOut(heap, lent)
      /\ diagnostics.allocated = Cardinality(Bytes(heap)) /\ Diagnosed(diagnostics)
  BY DEF HeapInv
<1>2. b.at \in InUse(heap)
  BY <1>1 DEF BlocksOut
<1>3. PICK r : /\ r = heap' /\ r = Merged([heap EXCEPT !.used[b.at] = FALSE], b.at)
               /\ lent' = lent \ {b}
               /\ diagnostics' = [diagnostics EXCEPT !.allocated = @ - heap.size[b.at]]
  BY Zenon DEF Free
<1>4. PICK f \in InUse(heap) : f = b.at
  BY <1>2
<1>5. r = Merged([heap EXCEPT !.used[f] = FALSE], f)
  BY <1>3, <1>4
<1>6. /\ Arena(r, FreeOf(r)) /\ InUse(r) = InUse(heap) \ {f}
      /\ \A o \in InUse(r) : r.size[o] = heap.size[o]
  BY <1>1, <1>5, FreedArena
<1>7. BlocksOut(r, lent')
  <2>1. InUse(r) = InUse(heap) \ {b.at}
    BY <1>4, <1>6
  <2> QED BY <1>1, <1>3, <1>6, <2>1, BlocksRemoved
<1>8. heap \in Heaps /\ Tiled(heap) /\ r \in Heaps /\ Tiled(r)
  BY <1>1, <1>6, ArenaIs
<1>9. Cardinality(Bytes(heap)) = Cardinality(Bytes(r)) + heap.size[f]
  <2>1. f \notin InUse(r) /\ InUse(heap) = InUse(r) \cup {f}
    BY <1>6
  <2>2. \A o \in InUse(r) : heap.size[o] = r.size[o]
    BY <1>6
  <2> QED BY <1>8, <2>1, <2>2, BytesAdded
<1>10. Cardinality(Bytes(r)) \in 0 .. Capacity
  BY <1>8, BytesCounted
<1>11. heap.size[f] \in 1 .. Capacity /\ Multiple(heap.size[f])
  <2>1. f \in FragmentsOf(heap)
    BY DEF InUse
  <2> QED BY <1>8, <2>1, FragmentIs
<1>12. PICK s \in Nat : s = heap.size[f] /\ Multiple(s) /\ s > 0
  BY <1>11
<1>13. PICK a \in Nat : a = diagnostics.allocated
  BY <1>1 DEF Diagnosed
<1>14. PICK c \in Nat : c = Cardinality(Bytes(r))
  BY <1>10, Constants
<1>15. a = c + s /\ a - s = c
  BY <1>1, <1>9, <1>12, <1>13, <1>14
<1>16. Multiple(a) /\ Multiple(c)
  <2>1. Multiple(a)
    BY <1>1, <1>13 DEF Diagnosed, Multiple
  <2>2. Multiple(a - s)
    BY <1>12, <2>1, Multiples
  <2> QED BY <1>15, <2>1, <2>2
<1> DEFINE d == [diagnostics EXCEPT !.allocated = c]
<1>17. diagnostics' = d
  BY <1>3, <1>4, <1>12, <1>13, <1>15
<1>18. Diagnosed(d) /\ d.allocated = c
  <2>1. diagnostics.peak_allocated \in Nat /\ a <= diagnostics.peak_allocated /\ c <= a
    BY <1>1, <1>13, <1>15 DEF Diagnosed
  <2>2. c <= diagnostics.peak_allocated
    BY <2>1
  <2>3. c % FragmentSizeMin = 0
    BY <1>16 DEF Multiple
  <2> QED BY <1>1, <2>2, <2>3 DEF Diagnosed
<1> HIDE DEF d
<1> QED BY <1>3, <1>6, <1>7, <1>14, <1>17, <1>18 DEF HeapInv

(***************************************************************************)
(* After every sequence of calls the links, the lists and the diagnostics  *)
(* say the same of the arena (o1heapInit, o1heapAllocate, o1heapFree).     *)
(***************************************************************************)
THEOREM HeapStaysSound == Spec => []HeapInv
<1>1. ASSUME HeapInv, [Next]_vars PROVE HeapInv'
  <2>1. CASE UNCHANGED vars
    BY <1>1, <2>1 DEF vars, HeapInv
  <2>2. ASSUME NEW amount \in Amount, AllocateServed(amount) PROVE HeapInv'
    BY <1>1, <2>2, ServedHeapInv
  <2>3. ASSUME NEW amount \in Amount, AllocateRefused(amount) PROVE HeapInv'
    BY <1>1, <2>3, RefusedHeapInv
  <2>4. ASSUME NEW b \in lent, Free(b) PROVE HeapInv'
    BY <1>1, <2>4, FreedHeapInv
  <2> QED BY <1>1, <2>1, <2>2, <2>3, <2>4 DEF Next
<1> QED BY <1>1, InitHeapInv, PTL DEF Spec

LEMMA HeapInvShows ==
    HeapInv => TypeOK /\ ChainTilesArena /\ BinsHoldFreeFragments /\ SelfCheckHolds
<1> SUFFICES ASSUME HeapInv PROVE TypeOK /\ ChainTilesArena /\ BinsHoldFreeFragments /\ SelfCheckHolds
  OBVIOUS
<1>1. /\ Arena(heap, FreeOf(heap)) /\ BlocksOut(heap, lent)
      /\ diagnostics.allocated = Cardinality(Bytes(heap)) /\ Diagnosed(diagnostics)
  BY DEF HeapInv
<1>2. /\ heap \in Heaps /\ Tiled(heap) /\ Listed(heap, FreeOf(heap))
      /\ \A f \in FreeOf(heap) : End(heap, f) \notin FreeOf(heap) /\ BinOf(heap, f) \in Bin
  BY <1>1, ArenaIs
<1>3. Fragments = FragmentsOf(heap) /\ FreeFragments = FreeOf(heap)
  BY DEF Fragments, FragmentsOf, FreeFragments, FreeOf
<1>4. TypeOK
  <2>1. diagnostics.allocated \in 0 .. Capacity
    BY <1>1, <1>2, BytesCounted
  <2> QED BY <1>1, <1>2, <2>1 DEF TypeOK, Heaps, BlocksOut
<1>5. ChainTilesArena
  <2>1. 0 \in Fragments /\ heap.prev[0] = NULL
    BY <1>2, <1>3 DEF Tiled
  <2>2. \A f, g \in Fragments : f < g => f + heap.size[f] <= g
    BY <1>2, <1>3 DEF Tiled, End
  <2>3. ASSUME NEW f \in Fragments, f + heap.size[f] = Capacity PROVE heap.next[f] = NULL
    BY <1>2, <1>3, <2>3 DEF Tiled, End
  <2>4. ASSUME NEW f \in Fragments, f + heap.size[f] # Capacity
        PROVE  LET end == f + heap.size[f]
               IN  /\ end \in Fragments
                   /\ heap.next[f] = end /\ heap.prev[end] = f
                   /\ heap.used[f] \/ heap.used[end]
    <3> DEFINE end == End(heap, f)
    <3>1. end = f + heap.size[f]
      BY DEF End
    <3>2. f \in FragmentsOf(heap)
      BY <1>3
    <3>3. end \in FragmentsOf(heap) /\ heap.next[f] = end
      BY <1>2, <2>4, <3>1, <3>2 DEF Tiled
    <3> HIDE DEF end
    <3>4. heap.prev[end] = f
      BY <1>2, <3>2, <3>3, Neighbours DEF end
    <3>5. heap.used[f] \/ heap.used[end]
      <4> SUFFICES ASSUME ~heap.used[f], ~heap.used[end] PROVE FALSE
        OBVIOUS
      <4>1. f \in FreeOf(heap) /\ end \in FreeOf(heap)
        BY <3>2, <3>3 DEF FreeOf
      <4> QED BY <1>2, <4>1 DEF end
    <3> QED BY <1>3, <3>1, <3>3, <3>4, <3>5
  <2> QED BY <2>1, <2>2, <2>3, <2>4, Zenon DEF ChainTilesArena
<1>6. BinsHoldFreeFragments
  <2> DEFINE F == FreeOf(heap)
  <2>1. /\ \A k \in Bin : k \in heap.nonempty_bin_mask <=> heap.bins[k] # NULL
        /\ \A k \in Bin : heap.bins[k] # NULL =>
             heap.bins[k] \in F /\ BinOf(heap, heap.bins[k]) = k
             /\ heap.prev_free[heap.bins[k]] = NULL
        /\ \A f \in F :
             IF heap.prev_free[f] = NULL THEN heap.bins[BinOf(heap, f)] = f
             ELSE heap.prev_free[f] \in F /\ heap.next_free[heap.prev_free[f]] = f
        /\ \A f \in F : heap.next_free[f] # NULL =>
             /\ heap.next_free[f] \in F /\ heap.prev_free[heap.next_free[f]] = f
             /\ BinOf(heap, heap.next_free[f]) = BinOf(heap, f)
    BY <1>2, Zenon DEF Listed
  <2>2. F \in SUBSET Offset
    BY <1>1, ArenaIs
  <2>3. \A f \in F : heap.bins[BinOf(heap, f)] # NULL
    BY <1>2, <2>2, BinsHeld
  <2>4. \A k \in Bin : k \in heap.nonempty_bin_mask <=> \E f \in F : BinOf(heap, f) = k
    BY <2>1, <2>3
  <2>5. diagnostics.allocated = Cardinality(BytesInUse)
    <3>1. Fragments \ FreeFragments = InUse(heap)
      BY <1>3 DEF InUse, FreeOf
    <3>2. BytesInUse = Bytes(heap)
      BY <3>1, Zenon DEF BytesInUse, Bytes, End
    <3> QED BY <1>1, <3>2
  <2> HIDE DEF F
  <2>6. FreeFragments = F
    BY <1>3 DEF F
  <2> QED BY <2>1, <2>4, <2>5, <2>6, Zenon DEF BinsHoldFreeFragments
<1>7. SelfCheckHolds
  <2>1. \A k \in Bin : k \in heap.nonempty_bin_mask <=> heap.bins[k] # NULL
    BY <1>2, Zenon DEF Listed
  <2>2. diagnostics.peak_allocated = 0 => diagnostics.allocated = 0
    BY <1>1 DEF Diagnosed
  <2> QED BY <1>1, <2>1, <2>2 DEF SelfCheckHolds, o1heapDoInvariantsHold, Diagnosed
<1> QED BY <1>4, <1>5, <1>6, <1>7

-----------------------------------------------------------------------------
(* What the users see: the blocks lie where the chain has its fragments.   *)

LEMMA BlockIs ==
    ASSUME NEW h \in Heaps, Tiled(h), NEW blocks, BlocksOut(h, blocks), NEW b \in blocks
    PROVE  /\ b = [at |-> b.at, amount |-> b.amount]
           /\ b.at \in InUse(h) /\ b.at \in FragmentsOf(h) /\ b.at \in Offset
           /\ Memory!End(b) = End(h, b.at) /\ Memory!End(b) \in b.at + 1 .. Capacity
<1>1. b \in [at : Offset, amount : Amount]
  BY DEF BlocksOut
<1>2. b.at \in InUse(h) /\ h.size[b.at] = FragmentSize(b.amount)
  BY DEF BlocksOut
<1>3. b.at \in FragmentsOf(h)
  BY <1>2 DEF InUse
<1>4. b.at \in Offset /\ End(h, b.at) \in b.at + 1 .. Capacity
  BY <1>3, FragmentIs
<1>5. Memory!End(b) = End(h, b.at)
  BY <1>2, Zenon DEF Memory!End, End
<1> QED BY <1>1, <1>2, <1>3, <1>4, <1>5

LEMMA ServedIsLent ==
    ASSUME HeapInv, HeapInv', NEW amount \in Amount, AllocateServed(amount)
    PROVE  amount \in Amount \ {0} /\ Memory!Lend(amount)
<1> DEFINE f == Chosen(amount)
           b == [at |-> f, amount |-> amount]
<1>1. /\ Arena(heap, FreeOf(heap)) /\ BlocksOut(heap, lent)
  BY DEF HeapInv
<1>2. PICK r : /\ r = heap' /\ Arena(r, FreeOf(r)) /\ BlocksOut(r, lent')
  BY DEF HeapInv
<1>3. amount \in Nat \ {0} /\ SuitableBins(heap, amount) # {}
  BY O1HeapAssumption DEF AllocateServed, CanServe
<1>4. /\ r = HandedOut(Split(unbin(heap, f), f, FragmentSize(amount)), f)
      /\ lent' = lent \cup {b} /\ reply' = <<amount, f>>
  BY <1>2, Zenon DEF AllocateServed
<1>5. f = heap.bins[Least(SuitableBins(heap, amount))]
  BY DEF Chosen
<1>6. b.at = f /\ b.amount = amount
  OBVIOUS
<1> HIDE DEF f, b
<1>7. f \in FreeOf(heap)
  BY <1>1, <1>3, <1>4, <1>5, ServedArena
<1>8. heap \in Heaps /\ Tiled(heap) /\ r \in Heaps /\ Tiled(r)
  BY <1>1, <1>2, ArenaIs
<1>9. b \in lent'
  BY <1>4
<1>10. /\ f \in FragmentsOf(r) /\ f \in Offset
       /\ Memory!End(b) = End(r, f) /\ Memory!End(b) \in f + 1 .. Capacity
  BY <1>2, <1>6, <1>8, <1>9, BlockIs
<1>11. ASSUME NEW c \in lent PROVE Memory!End(b) <= c.at \/ Memory!End(c) <= b.at
  <2>1. c \in lent'
    BY <1>4
  <2>2. c.at \in FragmentsOf(r) /\ Memory!End(c) = End(r, c.at)
    BY <1>2, <1>8, <2>1, BlockIs
  <2>3. c.at \in InUse(heap)
    BY <1>1, <1>8, BlockIs
  <2>4. c.at # f
    BY <1>7, <2>3 DEF FreeOf, InUse
  <2>5. f = c.at \/ End(r, f) <= c.at \/ End(r, c.at) <= f
    BY <1>8, <1>10, <2>2, Neighbours
  <2> QED BY <1>6, <1>10, <2>2, <2>4, <2>5
<1>12. Memory!End(b) <= Capacity
  <2>1. f \in Nat /\ Capacity \in Nat
    BY <1>10, Constants, OffsetIs
  <2> QED BY <1>10, <2>1
<1>13. Memory!Fits(b)
  BY <1>11, <1>12, Zenon DEF Memory!Fits
<1> QED BY <1>3, <1>4, <1>10, <1>13, Zenon DEF Memory!Lend, b

(* Wherever a gap begins, a free fragment begins there and fills it.       *)
LEMMA GapIsFree ==
    ASSUME NEW h, Arena(h, FreeOf(h)), NEW blocks, BlocksOut(h, blocks),
           NEW wanted \in Nat \ {0},
           NEW at \in {0} \cup {Memory!End(c) : c \in blocks},
           at + wanted <= Capacity,
           \A c \in blocks : at + wanted <= c.at \/ Memory!End(c) <= at
    PROVE  at \in FreeOf(h) /\ wanted <= h.size[at]
<1>1. h \in Heaps /\ Tiled(h) /\ \A g \in FreeOf(h) : End(h, g) \notin FreeOf(h)
  BY ArenaIs
<1>2. Capacity \in Nat
  BY Constants
<1>3. at \in Nat /\ at < Capacity /\ at \in FragmentsOf(h)
  <2>1. CASE at = 0
    BY <1>1, <1>2, <2>1 DEF Tiled
  <2>2. ASSUME NEW c \in blocks, at = Memory!End(c)
        PROVE  at \in Nat /\ at < Capacity /\ at \in FragmentsOf(h)
    <3>1. /\ c.at \in FragmentsOf(h) /\ at = End(h, c.at) /\ at \in c.at + 1 .. Capacity
          /\ c.at \in Offset
      BY <1>1, <2>2, BlockIs
    <3>2. at \in Nat /\ at < Capacity
      BY <1>2, <3>1, OffsetIs
    <3>3. at \in FragmentsOf(h)
      BY <1>1, <3>1, <3>2 DEF Tiled
    <3> QED BY <3>2, <3>3
  <2> QED BY <2>1, <2>2
<1>4. /\ End(h, at) = at + h.size[at] /\ End(h, at) \in at + 1 .. Capacity
      /\ h.size[at] \in 1 .. Capacity
  BY <1>1, <1>3, FragmentIs
<1>5. ASSUME NEW g \in InUse(h)
      PROVE  at + wanted <= g \/ End(h, g) <= at
  <2>1. PICK c \in blocks : c.at = g
    BY DEF BlocksOut
  <2>2. Memory!End(c) = End(h, g)
    BY <1>1, <2>1, BlockIs
  <2> QED BY <2>1, <2>2
<1>6. at \in FreeOf(h)
  <2> SUFFICES ASSUME at \in InUse(h) PROVE FALSE
    BY <1>1, <1>3 DEF FreeOf, InUse
  <2>1. at + wanted <= at \/ End(h, at) <= at
    BY <1>5
  <2> QED BY <1>3, <1>4, <2>1
<1>7. wanted <= h.size[at]
  <2>1. CASE End(h, at) = Capacity
    BY <1>2, <1>3, <1>4, <2>1
  <2>2. CASE End(h, at) # Capacity
    <3> DEFINE g == End(h, at)
    <3>1. g \in FragmentsOf(h)
      BY <1>1, <1>3, <2>2 DEF Tiled
    <3>2. g \in InUse(h)
      BY <1>1, <1>6, <3>1 DEF FreeOf, InUse
    <3>3. End(h, g) \in g + 1 .. Capacity
      BY <1>1, <3>1, FragmentIs
    <3>4. at + wanted <= g \/ End(h, g) <= at
      BY <1>5, <3>2
    <3> HIDE DEF g
    <3>5. g \in Nat /\ g = at + h.size[at] /\ h.size[at] \in Nat
      BY <1>3, <1>4 DEF g
    <3> QED BY <1>2, <1>3, <3>3, <3>4, <3>5
  <2> QED BY <2>1, <2>2
<1> QED BY <1>6, <1>7

LEMMA RefusedForWantOfRoom ==
    ASSUME HeapInv, NEW amount \in Amount, AllocateRefused(amount)
    PROVE  IF amount = 0 THEN Memory!AllocateNothing
           ELSE amount \in Amount \ {0} /\ Memory!Refuse(amount)
<1>1. Arena(heap, FreeOf(heap)) /\ BlocksOut(heap, lent)
  BY DEF HeapInv
<1>2. amount \in Nat
  BY O1HeapAssumption
<1>3. ~CanServe(amount) /\ reply' = <<amount, NULL>> /\ UNCHANGED lent
  BY DEF AllocateRefused
<1>4. CASE amount = 0
  BY <1>3, <1>4 DEF Memory!AllocateNothing
<1>5. CASE amount # 0
  <2> DEFINE wanted == FragmentSize(amount)
  <2>1. /\ wanted \in Nat \ {0} /\ amount + Alignment <= wanted
        /\ Alignment \in Nat /\ Capacity \in Nat
    BY <1>2, <1>5, FragmentSizeIs, Constants
  <2>2. ~Memory!HasRoom(amount)
    <3> SUFFICES ASSUME Memory!HasRoom(amount) PROVE FALSE
      OBVIOUS
    <3>1. PICK at \in {0} \cup {Memory!End(c) : c \in lent} :
               Memory!Fits([at |-> at, amount |-> amount])
      BY Zenon DEF Memory!HasRoom
    <3>2. Memory!End([at |-> at, amount |-> amount]) = at + wanted
      BY DEF Memory!End
    <3>3. /\ at + wanted <= Capacity
          /\ \A c \in lent : at + wanted <= c.at \/ Memory!End(c) <= at
      BY <3>1, <3>2 DEF Memory!Fits
    <3> HIDE DEF wanted
    <3>4. at \in FreeOf(heap) /\ wanted <= heap.size[at]
      BY <1>1, <2>1, <3>3, GapIsFree
    <3>5. SuitableBins(heap, amount) # {}
      BY <1>1, <1>2, <1>5, <3>4, RoomIsFound DEF wanted
    <3>6. at \in Nat
      BY <1>1, <3>4, ArenaIs, OffsetIs
    <3>7. amount > 0 /\ amount <= Capacity - Alignment
      BY <1>2, <1>5, <2>1, <3>3, <3>6
    <3> QED BY <1>3, <3>5, <3>7 DEF CanServe
  <2> QED BY <1>3, <1>5, <2>2, Zenon DEF Memory!Refuse
<1> QED BY <1>4, <1>5

LEMMA StepIsMemory ==
    ASSUME HeapInv, HeapInv', [Next]_vars
    PROVE  [Memory!Next]_<<lent, reply>>
<1>1. CASE UNCHANGED vars
  BY <1>1 DEF vars
<1>2. ASSUME NEW amount \in Amount, AllocateServed(amount) PROVE Memory!Next
  BY <1>2, ServedIsLent, Zenon DEF Memory!Next
<1>3. ASSUME NEW amount \in Amount, AllocateRefused(amount) PROVE Memory!Next
  <2>1. CASE amount = 0
    BY <1>3, <2>1, RefusedForWantOfRoom, Zenon DEF Memory!Next
  <2>2. CASE amount # 0
    BY <1>3, <2>2, RefusedForWantOfRoom, Zenon DEF Memory!Next
  <2> QED BY <2>1, <2>2
<1>4. ASSUME NEW b \in lent, Free(b) PROVE Memory!Next
  <2>1. Memory!Free(b)
    BY <1>4, Zenon DEF Free, Memory!Free
  <2> QED BY <2>1, Zenon DEF Memory!Next
<1> QED BY <1>1, <1>2, <1>3, <1>4, Zenon DEF Next

(***************************************************************************)
(* o1heapAllocate and o1heapFree are a malloc for every sequence of calls: *)
(* a block never overlaps one that is out, and a request is refused only   *)
(* when no gap has room for its fragment (half-fit, and the merges).       *)
(***************************************************************************)
THEOREM HeapIsMalloc == Spec => ImplementsMalloc
<1>1. Init => Memory!Init
  BY DEF Init, Memory!Init
<1>2. HeapInv /\ HeapInv' /\ [Next]_vars => [Memory!Next]_<<lent, reply>>
  BY StepIsMemory, Zenon
<1> QED BY <1>1, <1>2, HeapStaysSound, PTL DEF Spec, ImplementsMalloc, Memory!Spec

-----------------------------------------------------------------------------
(* What the runs check, for every value of the constants.                  *)

(***************************************************************************)
(* The links, the sizes, the lists and the counters keep their ranges: the *)
(* bytes that o1heapAllocate counts never exceed the capacity.             *)
(***************************************************************************)
THEOREM HeapTypeOK == Spec => []TypeOK
BY HeapStaysSound, HeapInvShows, PTL

(***************************************************************************)
(* The split and the merges of o1heapAllocate and o1heapFree leave a chain *)
(* that covers the arena, both links agreeing and no two free neighbours.  *)
(***************************************************************************)
THEOREM ChainAlwaysTiles == Spec => []ChainTilesArena
BY HeapStaysSound, HeapInvShows, PTL

(***************************************************************************)
(* rebin and unbin keep exactly the free fragments in the lists, each in   *)
(* that of its size; allocated counts the bytes of the fragments in use.   *)
(***************************************************************************)
THEOREM BinsAlwaysHold == Spec => []BinsHoldFreeFragments
BY HeapStaysSound, HeapInvShows, PTL

(***************************************************************************)
(* o1heapDoInvariantsHold returns true after every sequence of calls.      *)
(***************************************************************************)
THEOREM SelfCheckAlwaysHolds == Spec => []SelfCheckHolds
BY HeapStaysSound, HeapInvShows, PTL
=============================================================================
