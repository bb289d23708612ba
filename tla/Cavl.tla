-------------------------------- MODULE Cavl --------------------------------
(***************************************************************************)
(* The AVL tree of libcanard (_canard_cavl.h), which orders the TX queue   *)
(* by CAN ID and the RX subscriptions by port-ID.  A tree has a root and,  *)
(* for every node, two children, a parent and a balance factor, which is   *)
(* the height of the right subtree less that of the left one.  The right   *)
(* child of n is lr[n][1], as in the code.                                 *)
(*                                                                         *)
(* An operator that changes a tree takes the one before and gives the one  *)
(* after.  A loop of the code is a step that is repeated.  The links of a  *)
(* node that has left the tree are reset; the code never reads them again. *)
(***************************************************************************)
EXTENDS Integers, Sequences, FiniteSets

CONSTANTS Node,  \* TX items or subscriptions, as many as memory holds
          KeyOf  \* their CAN IDs or port-IDs

NULL == 0

ASSUME CavlAssumption ==
    /\ Node \subseteq Nat \ {NULL} /\ IsFiniteSet(Node)
    /\ KeyOf \in [Node -> Nat]

VARIABLE tree

Side == {0, 1}
Link == Node \cup {NULL}
Trees == [root : Link, lr : [Node -> [Side -> Link]], up : [Node -> Link],
          bf : [Node -> -1 .. 1]]

(* A condition as an index of lr.                                          *)
Index(condition) == IF condition THEN 1 ELSE 0

(* A loop, which takes one turn for each node at most: where it has ended, *)
(* its step changes nothing.                                               *)
Repeated(step, start) ==
    LET after[k \in Nat] == IF k = 0 THEN start ELSE step[after[k - 1]]
    IN  after[Cardinality(Node)]

(* Mutant: equal goes before equal.                                       *)
txAVLPredicateStrict(target, other) == IF KeyOf[target] > KeyOf[other] THEN 1 ELSE -1

(* Where the target stands relative to a node of the tree.                 *)
txAVLPredicate(target, other) == IF KeyOf[target] >= KeyOf[other] THEN 1 ELSE -1

rxSubscriptionPredicateOnPortID(sought, other) ==
    CASE sought = KeyOf[other] -> 0
      [] sought > KeyOf[other] -> 1
      [] sought < KeyOf[other] -> -1

Blank ==
    [root |-> NULL, lr |-> [n \in Node |-> [r \in Side |-> NULL]],
     up |-> [n \in Node |-> NULL], bf |-> [n \in Node |-> 0]]

-----------------------------------------------------------------------------
(* cavlFindExtremum: the end of the branch.                                *)
cavlFindExtremum(t, top, maximum) ==
    Repeated([n \in Link |-> IF n = NULL \/ t.lr[n][maximum] = NULL THEN n
                             ELSE t.lr[n][maximum]], top)

(* A child, if there is one, points to its new parent.                     *)
Hang(t, child, parent) ==
    IF child # NULL THEN [t EXCEPT !.up[child] = parent] ELSE t

(* Put another node in the place of an old one, below the old one's parent.*)
Replace(t, old, new) ==
    LET p == t.up[old]
    IN  IF p = NULL THEN t ELSE [t EXCEPT !.lr[p][Index(t.lr[p][1] = old)] = new]

cavlPrivateRotate(t, x, r) ==
    LET z == t.lr[x][1 - r]
    IN  Hang([Replace(t, x, z) EXCEPT !.up[z] = t.up[x], !.up[x] = z,
                                      !.lr[x][1 - r] = t.lr[z][r], !.lr[z][r] = x],
             t.lr[z][r], x)

(* Mutant: the two are balanced after every rotation, as in insertions.    *)
SingleRotationEven(t, x, r) ==
    LET z == t.lr[x][1 - r]
    IN  [top |-> z, tree |-> [cavlPrivateRotate(t, x, r) EXCEPT !.bf[x] = 0, !.bf[z] = 0]]

(* The child is heavy on the side of its parent, or balanced.              *)
SingleRotation(t, x, r) ==
    LET z    == t.lr[x][1 - r]
        sign == IF r = 1 THEN 1 ELSE -1
        even == t.bf[z] = 0
    IN  [top |-> z,
         tree |-> [cavlPrivateRotate(t, x, r) EXCEPT !.bf[x] = IF even THEN -sign ELSE 0,
                                                     !.bf[z] = IF even THEN sign ELSE 0]]

(* The child is heavy on the other side, and is rotated away from it first.*)
DoubleRotation(t, x, r) ==
    LET z    == t.lr[x][1 - r]
        y    == t.lr[z][r]
        sign == IF r = 1 THEN 1 ELSE -1
        lean == t.bf[y] * sign
        both == cavlPrivateRotate(cavlPrivateRotate(t, z, 1 - r), x, r)
    IN  [top |-> y,
         tree |-> [both EXCEPT !.bf[x] = IF lean < 0 THEN sign ELSE 0,
                               !.bf[z] = IF lean > 0 THEN -sign ELSE 0,
                               !.bf[y] = 0]]

(* The subtree after its balance has changed by one, and its new top.      *)
cavlPrivateAdjustBalance(t, x, increment) ==
    LET bf   == t.bf[x] + (IF increment = 1 THEN 1 ELSE -1)
        r    == Index(bf < 0)
        sign == IF r = 1 THEN 1 ELSE -1
    IN  IF bf \in -1 .. 1 THEN [top |-> x, tree |-> [t EXCEPT !.bf[x] = bf]]
        ELSE IF t.bf[t.lr[x][1 - r]] * sign <= 0 THEN SingleRotation(t, x, r)
        ELSE DoubleRotation(t, x, r)

-----------------------------------------------------------------------------
(* The side r of p has become one higher, or one lower, and p accounts for *)
(* it.  The change goes up until the height of a subtree stays as it was.  *)
RetraceStep(s, change) ==
    LET a        == cavlPrivateAdjustBalance(s.tree, s.p, IF change = 1 THEN s.r ELSE 1 - s.r)
        q        == a.tree.up[a.top]
        absorbed == IF change = 1 THEN a.tree.bf[a.top] = 0 ELSE a.tree.bf[a.top] # 0
    IN  IF s.p = NULL THEN s
        ELSE IF q = NULL THEN [tree |-> [a.tree EXCEPT !.root = a.top], p |-> NULL, r |-> 0]
        ELSE [tree |-> a.tree, p |-> IF absorbed THEN NULL ELSE q,
              r |-> Index(a.tree.lr[q][1] = a.top)]

Retrace(t, p, r, change) ==
    Repeated([s \in [tree : Trees, p : Link, r : Side] |-> RetraceStep(s, change)],
             [tree |-> t, p |-> p, r |-> r]).tree

-----------------------------------------------------------------------------
(* cavlSearch with a factory: insertion.                                   *)

cavlPrivateRetraceOnGrowth(t, c) ==
    LET p == t.up[c]
    IN  IF p = NULL THEN [t EXCEPT !.root = c]
        ELSE Retrace(t, p, Index(t.lr[p][1] = c), 1)

(* The node below which the target has to go.                              *)
Descend(t, target, top) ==
    Repeated([n \in Node |->
                 LET onward == t.lr[n][Index(txAVLPredicate(target, n) > 0)]
                 IN  IF onward = NULL THEN n ELSE onward], top)

Inserted(t, n) ==
    LET fresh == [t EXCEPT !.lr[n] = [r \in Side |-> NULL], !.bf[n] = 0]
        up    == Descend(t, n, t.root)
        side  == Index(txAVLPredicate(n, up) > 0)
    IN  cavlPrivateRetraceOnGrowth(
            IF t.root = NULL THEN [fresh EXCEPT !.up[n] = NULL]
            ELSE [fresh EXCEPT !.up[n] = up, !.lr[up][side] = n], n)

(* cavlSearch without a factory, by the port-ID.                           *)
Found(t, sought, top) ==
    Repeated([n \in Link |->
                 IF n = NULL \/ rxSubscriptionPredicateOnPortID(sought, n) = 0 THEN n
                 ELSE t.lr[n][Index(rxSubscriptionPredicateOnPortID(sought, n) > 0)]], top)

-----------------------------------------------------------------------------
(* cavlRemove.  Each of the three ways to take the node out gives the      *)
(* lowest node that lost height, p, and on which side, r.                  *)

(* The next node in order takes over the place and the balance.            *)
Succeed(t, node, re) ==
    LET heir == [Replace(t, node, re) EXCEPT !.bf[re] = t.bf[node],
                    !.lr[re][0] = t.lr[node][0], !.up[re] = t.up[node]]
        top  == IF t.up[node] = NULL THEN [heir EXCEPT !.root = re] ELSE heir
    IN  Hang(top, t.lr[node][0], re)

(* It is the right child: its own right subtree stays where it is.         *)
UnlinkBeforeChild(t, node, re) ==
    [tree |-> Succeed(t, node, re), p |-> re, r |-> 1]

(* Mutant: the heir is taken for a leaf.                                   *)
UnlinkBeforeLeaf(t, node, re) ==
    LET p     == t.up[re]
        taken == [t EXCEPT !.lr[p][0] = NULL]
        heir  == [taken EXCEPT !.lr[re][1] = taken.lr[node][1]]
    IN  [tree |-> Succeed(Hang(heir, taken.lr[node][1], re), node, re), p |-> p, r |-> 0]

(* It is further down: its right subtree takes its place there.            *)
UnlinkBeforeDistant(t, node, re) ==
    LET p     == t.up[re]
        rest  == t.lr[re][1]
        taken == Hang([t EXCEPT !.lr[p][0] = rest], rest, p)
        heir  == [taken EXCEPT !.lr[re][1] = taken.lr[node][1]]
    IN  [tree |-> Succeed(Hang(heir, taken.lr[node][1], re), node, re), p |-> p, r |-> 0]

(* One child at most, which moves up.                                      *)
UnlinkWithOne(t, node) ==
    LET p     == t.up[node]
        child == t.lr[node][Index(t.lr[node][1] # NULL)]
        moved == Hang(Replace(t, node, child), child, p)
    IN  [tree |-> IF p = NULL THEN [moved EXCEPT !.root = child] ELSE moved,
         p |-> p, r |-> Index(p # NULL /\ t.lr[p][1] = node)]

Unlinked(t, node) ==
    LET re == cavlFindExtremum(t, t.lr[node][1], 0)
    IN  IF t.lr[node][0] = NULL \/ t.lr[node][1] = NULL THEN UnlinkWithOne(t, node)
        ELSE IF t.up[re] = node THEN UnlinkBeforeChild(t, node, re)
        ELSE UnlinkBeforeDistant(t, node, re)

Forgotten(t, n) ==
    [t EXCEPT !.lr[n] = [r \in Side |-> NULL], !.up[n] = NULL, !.bf[n] = 0]

Removed(t, node) ==
    LET u == Unlinked(t, node)
    IN  Forgotten(IF u.p = NULL THEN u.tree ELSE Retrace(u.tree, u.p, u.r, -1), node)

-----------------------------------------------------------------------------
InOrder(t) ==
    LET walk[n \in Link] ==
            IF n = NULL THEN <<>> ELSE walk[t.lr[n][0]] \o <<n>> \o walk[t.lr[n][1]]
    IN  walk[t.root]

Members == {n \in Node : n = tree.root \/ tree.up[n] # NULL}

TreeInit == tree = Blank

(* A TX item, or a subscription to a port that has none.                   *)
Insert(n) == n \notin Members /\ tree' = Inserted(tree, n)

(* canardTxPop of what canardTxPeek returned.                              *)
Pop ==
    /\ tree.root # NULL
    /\ tree' = Removed(tree, cavlFindExtremum(tree, tree.root, 0))

(* canardRxUnsubscribe.                                                    *)
Unsubscribe(n) == n \in Members /\ tree' = Removed(tree, n)

TreeNext == Pop \/ \E n \in Node : Insert(n) \/ Unsubscribe(n)

TreeSpec == TreeInit /\ [][TreeNext]_tree

-----------------------------------------------------------------------------
TreeTypeOK == tree \in Trees

Height(t) ==
    LET height[n \in Link] ==
            IF n = NULL THEN 0
            ELSE LET left  == height[t.lr[n][0]]
                     right == height[t.lr[n][1]]
                 IN  1 + (IF left > right THEN left ELSE right)
    IN  height

(***************************************************************************)
(* Every link is answered: a child names its parent, the root has none,    *)
(* and each balance factor is the true difference of two heights, of one   *)
(* at most, through every rotation on the way up.  A tree that is wrong in *)
(* this still sorts, until a later rotation is taken on the wrong side.    *)
(***************************************************************************)
BalancedAndLinked ==
    /\ tree.root # NULL => tree.up[tree.root] = NULL
    /\ \A n \in Members :
         /\ \A r \in Side : tree.lr[n][r] # NULL => tree.up[tree.lr[n][r]] = n
         /\ tree.bf[n] = Height(tree)[tree.lr[n][1]] - Height(tree)[tree.lr[n][0]]
         /\ tree.bf[n] \in -1 .. 1

(***************************************************************************)
(* The tree is a sorted queue: insertion puts a frame behind all those of  *)
(* its CAN ID ("transmitted in the FIFO order", the comment on the TX      *)
(* predicate), removal takes one node and moves no other.                  *)
(***************************************************************************)
Sorted == INSTANCE SortedQueue WITH order <- InOrder(tree)
ImplementsSortedQueue == Sorted!Spec

(***************************************************************************)
(* What is asked of the tree is answered by the order: the next frame to   *)
(* send is the first, and a port is found whenever one is subscribed.      *)
(***************************************************************************)
AnswersByOrder ==
    LET order == InOrder(tree)
    IN  /\ order # <<>> =>
             /\ cavlFindExtremum(tree, tree.root, 0) = order[1]
             /\ cavlFindExtremum(tree, tree.root, 1) = order[Len(order)]
        /\ \A n \in Node :
             LET found == Found(tree, KeyOf[n], tree.root)
             IN  IF \E m \in Members : KeyOf[m] = KeyOf[n]
                 THEN found \in Members /\ KeyOf[found] = KeyOf[n]
                 ELSE found = NULL
=============================================================================
