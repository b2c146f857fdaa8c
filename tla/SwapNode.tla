------------------------------ MODULE SwapNode ------------------------------
(***************************************************************************)
(* BST::swapNode of DataAndAlgorithm/Tree/BinarySearchTree.cpp (and its    *)
(* copy in AVLTree.cpp): a helper meant to exchange the positions of two   *)
(* nodes.  It is private and nothing calls it yet, so it is called here on *)
(* any two nodes of any tree that insert and harmless deletions can build, *)
(* and the program stops after it.                                         *)
(*                                                                         *)
(* Its assignments are folded over the memory in their order: every read   *)
(* sees the writes before it, which matters when the nodes are related.    *)
(***************************************************************************)
EXTENDS BinarySearchTree

VARIABLES NodeA, NodeB,   \* the arguments of swapNode, null until it is called
          old             \* history: the memory when it was called

swapVars == <<vars, NodeA, NodeB, old>>

-----------------------------------------------------------------------------
(* The steps of swapNode as functions of the memory *)

\* The field of the parent that a flag names.
Field(flag) == IF flag = 1 THEN "left" ELSE "right"

\* The flag of NodeA once it has been tested: the second test *assigns* 2 where it
\* should compare with it, so a root would be taken for a right child.
FlagTested(h, a) == IF h[a].LeftOrRight = 1 THEN 1 ELSE 2

\* 1.1 The parents' child pointers are exchanged.  pa and pb are the parents; pb
\* is not used when b is flagged as the root.
ParentsSwapped(h, a, b) ==
    LET pa == h[a].parent   pb == h[b].parent
        fa == Field(FlagTested(h, a))   fb == Field(h[b].LeftOrRight)
        h1 == [h EXCEPT ![a].LeftOrRight = FlagTested(h, a)]
    IN  IF h[b].LeftOrRight = 0
        THEN [h1 EXCEPT ![pa][fa] = b]
        ELSE LET h2 == [h1 EXCEPT ![pa][fa] = h[pb][fb]]
             IN  [h2 EXCEPT ![pb][fb] = h[pa][fa]]

\* Mutant of LinksSwapped: the flags are forgotten.
LinksSwappedFlagsNot(h, a, b) ==
    [h EXCEPT ![a].parent = h[b].parent, ![b].parent = h[a].parent]

\* 1.2, 1.3 The nodes' parent pointers and flags are exchanged.
LinksSwapped(h, a, b) ==
    [h EXCEPT ![a].parent = h[b].parent, ![a].LeftOrRight = h[b].LeftOrRight,
              ![b].parent = h[a].parent, ![b].LeftOrRight = h[a].LeftOrRight]

\* The children of n are told that their parent is p.
Adopted(h, n, p) ==
    [x \in DOMAIN h |->
        IF x \in {h[n].left, h[n].right} THEN [h[x] EXCEPT !.parent = p] ELSE h[x]]

LeafIn(h, n) == h[n].left = NULL /\ h[n].right = NULL

\* 2.1 The children are told of their new parents.  The test of 2.1.C holds when
\* *neither* node is a leaf, and then only the children of a are told.
ChildrenTold(h, a, b) ==
    IF ~LeafIn(h, a) /\ ~LeafIn(h, b)
    THEN Adopted(h, a, b)
    ELSE Adopted(Adopted(h, a, b), b, a)

\* 2.2 The nodes' child pointers are exchanged.
SubtreesSwapped(h, a, b) ==
    [h EXCEPT ![a].left = h[b].left, ![a].right = h[b].right,
              ![b].left = h[a].left, ![b].right = h[a].right]

Swapped(h, a, b) ==
    LET relinked == LinksSwapped(ParentsSwapped(h, a, b), a, b)
    IN  SubtreesSwapped(ChildrenTold(relinked, a, b), a, b)

-----------------------------------------------------------------------------
(* Control *)

SwapInit ==
    /\ Init
    /\ NodeA = NULL /\ NodeB = NULL
    /\ old = heap

TreeStep ==
    /\ NodeA = NULL
    /\ ContractNext
    /\ old' = heap'
    /\ UNCHANGED <<NodeA, NodeB>>

\* swapNode(a, b).  Step 1.1 dereferences the parent of a in every case, and the
\* third branch that a root as NodeA was meant for is never taken.
CallSwapNode ==
    /\ pc = "idle"
    /\ NodeA = NULL
    /\ \E a, b \in Live :
          /\ a # b
          /\ NodeA' = a
          /\ NodeB' = b
          /\ IF heap[a].parent = NULL
             THEN pc' = "crashed" /\ UNCHANGED heap
             ELSE pc' = "idle" /\ heap' = Swapped(heap, a, b)
    /\ UNCHANGED <<RootNode, key, value, CurrentNode, leftMaxNode, ret, old>>

\* Nothing is modelled of a program that goes on after swapNode.
Stopped == NodeA # NULL /\ UNCHANGED swapVars

SwapNext == TreeStep \/ CallSwapNode \/ Stopped

SwapSpec == SwapInit /\ [][SwapNext]_swapVars

-----------------------------------------------------------------------------
(* Properties *)

\* The pointer p, seen after the exchange of a and b.
Renamed(p, a, b) == IF p = a THEN b ELSE IF p = b THEN a ELSE p

\* The memory with a and b in each other's position: every node keeps its key and
\* value, and takes the links of the position it is now in.
Exchanged(h, a, b) ==
    [x \in DOMAIN h |->
        LET at == h[Renamed(x, a, b)]
        IN  [key         |-> h[x].key,
             value       |-> h[x].value,
             left        |-> Renamed(at.left, a, b),
             right       |-> Renamed(at.right, a, b),
             parent      |-> Renamed(at.parent, a, b),
             LeftOrRight |-> at.LeftOrRight]]

\* The two nodes have changed places, in the tree and as its root.
Exchange == heap = Exchanged(old, NodeA, NodeB) /\ RootNode = Renamed(RootNode, NodeA, NodeB)

FlagTrue(h, n) == h[n].LeftOrRight = IF h[h[n].parent].left = n THEN 1 ELSE 2

\* The pairs swapNode is right for: neither node is the root, one of them at least
\* is a leaf, and their flags tell the truth, or are both wrong on siblings (the
\* two errors then cancel).
Swappable(h, a, b) ==
    /\ h[a].parent # NULL /\ h[b].parent # NULL
    /\ LeafIn(h, a) \/ LeafIn(h, b)
    /\ \/ FlagTrue(h, a) /\ FlagTrue(h, b)
       \/ ~FlagTrue(h, a) /\ ~FlagTrue(h, b) /\ h[a].parent = h[b].parent

\* swapNode exchanges the positions of the two nodes exactly for those pairs, be
\* they strangers, siblings, or parent and child: it is right on each of them and
\* wrong on every other.
SwapExchangesExactlySwappable ==
    NodeA # NULL =>
        ((pc = "idle" /\ Exchange) <=> Swappable(old, NodeA, NodeB))

=============================================================================
