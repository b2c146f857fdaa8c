------------------------------ MODULE AVLTree ------------------------------
(***************************************************************************)
(* class AVLTree of DataAndAlgorithm/AVLTree.cpp.                          *)
(*                                                                         *)
(* find, insert, DeleteNode and their helpers are those of class BST, word *)
(* for word, so the tree itself is the one of BinarySearchTree.  What is   *)
(* new is the field heights of a node and MeasureHeights, which computes   *)
(* it on demand: no other operation reads or writes it.  printTree is that *)
(* of PrintTree.                                                           *)
(*                                                                         *)
(* heights is kept beside heap, as a function of the same addresses.  The  *)
(* node's constructor declares a local variable of that name and leaves    *)
(* the field as the allocator returned it: some member of Garbage.         *)
(*                                                                         *)
(* heights is an int.  MeasureHeights adds one to it, which overflows at   *)
(* MaxInt: signed overflow is undefined, and what the sum does to the      *)
(* maximum it is an argument of is left to the compiler (RaisedHeights).   *)
(*                                                                         *)
(* The callers modelled here respect the contract of BinarySearchTree      *)
(* (they never delete a hazardous key), so that MeasureHeights and         *)
(* printTree are seen on good trees only.                                  *)
(***************************************************************************)
EXTENDS PrintTree

CONSTANTS MaxInt,         \* INT_MAX
          Garbage         \* contents of a field that `new' did not initialise

ASSUME MaxIntAssumption == MaxInt \in Nat \ {0}

MinInt == -MaxInt - 1

ASSUME GarbageAssumption == Garbage \subseteq MinInt..MaxInt /\ Garbage # {}

VARIABLES heights,        \* AVLTreeNode::heights of every allocated node
          vAVLTreeNodes,  \* local of MeasureHeights: the leaves still to climb from
          TmpNode         \* local of MeasureHeights: the node being climbed from

measureVars == <<heights, vAVLTreeNodes, TmpNode>>
avlVars == <<vars, printVars, measureVars>>

Measuring == vAVLTreeNodes # <<>> \/ TmpNode # NULL

-----------------------------------------------------------------------------
(* The tree *)

AVLInit ==
    /\ Init
    /\ PrintInit
    /\ heights \in [Live -> Garbage]
    /\ vAVLTreeNodes = <<>>
    /\ TmpNode = NULL

\* Nodes keep their heights, wherever relinking takes them and whatever pair of
\* key and value DeleteNode writes into them; a new node has any.
HeightsFollow ==
    \E g \in Garbage :
        heights' = [a \in Live' |-> IF a \in Live THEN heights[a] ELSE g]

\* find, insert and DeleteNode, with every way they could fail.
TreeStep ==
    /\ ~Measuring /\ ~Printing
    /\ ContractNext
    /\ HeightsFollow
    /\ UNCHANGED <<printVars, vAVLTreeNodes, TmpNode>>

-----------------------------------------------------------------------------
(* MeasureHeights *)

\* The pointers of a good tree.
LivePtr == Live \cup {NULL}

\* VisitNode: the leaves at and below node n, from left to right.
VisitNode[n \in LivePtr] ==
    IF n = NULL THEN <<>>
    ELSE IF IsLeafNode(n) THEN <<n>>
    ELSE VisitNode[heap[n].left] \o VisitNode[heap[n].right]

\* Enter MeasureHeights and collect the leaves.
CallMeasureHeights ==
    /\ pc = "idle"
    /\ ~Measuring /\ ~Printing
    /\ vAVLTreeNodes' = VisitNode[RootNode]
    /\ UNCHANGED <<vars, printVars, heights, TmpNode>>

\* The next leaf, whose height is zero.
TakeLeaf ==
    /\ TmpNode = NULL
    /\ vAVLTreeNodes # <<>>
    /\ TmpNode' = Head(vAVLTreeNodes)
    /\ vAVLTreeNodes' = Tail(vAVLTreeNodes)
    /\ heights' = [heights EXCEPT ![TmpNode'] = 0]
    /\ UNCHANGED <<vars, printVars>>

\* Mutant of RaisedHeights: the parent's height is overwritten, the maximum forgotten.
RaisedOverwrites(p, n) ==
    IF heights[n] < MaxInt THEN {heights[n] + 1} ELSE {MinInt}

\* Mutant of RaisedHeights: every visit adds one to the parent.
RaisedCounts(p, n) ==
    IF heights[n] < MaxInt /\ heights[p] < MaxInt
    THEN {Max({heights[p] + 1, heights[n] + 1})} ELSE {heights[p], MinInt}

\* `std::max(p->heights, n->heights + 1)': if the sum overflows, it wraps and is
\* the smaller one, or the comparison is made as if it had not.
RaisedHeights(p, n) ==
    IF heights[n] < MaxInt THEN {Max({heights[p], heights[n] + 1})} ELSE {heights[p], MinInt}

\* Mutant of Climb: the parent is updated but not gone to.
ClimbStays ==
    /\ TmpNode # NULL
    /\ LET p == heap[TmpNode].parent
       IN  /\ p # NULL
           /\ \E h \in RaisedHeights(p, TmpNode) : heights' = [heights EXCEPT ![p] = h]
    /\ UNCHANGED <<vars, printVars, vAVLTreeNodes, TmpNode>>

\* One turn of the climbing loop: update the parent and go to it.
Climb ==
    /\ TmpNode # NULL
    /\ LET p == heap[TmpNode].parent
       IN  /\ p # NULL
           /\ \E h \in RaisedHeights(p, TmpNode) : heights' = [heights EXCEPT ![p] = h]
           /\ TmpNode' = p
    /\ UNCHANGED <<vars, printVars, vAVLTreeNodes>>

\* The climb ends at the node without parent.
ReachTop ==
    /\ TmpNode # NULL
    /\ heap[TmpNode].parent = NULL
    /\ TmpNode' = NULL
    /\ UNCHANGED <<vars, printVars, heights, vAVLTreeNodes>>

MeasureHeights == CallMeasureHeights \/ TakeLeaf \/ Climb \/ ReachTop

-----------------------------------------------------------------------------

AVLNext ==
    \/ TreeStep
    \/ MeasureHeights
    \/ ~Measuring /\ printTree /\ UNCHANGED measureVars

AVLSpec == AVLInit /\ [][AVLNext]_avlVars

-----------------------------------------------------------------------------
(* Properties *)

\* Leaves are at height zero and every other node is above its children.
Dominating ==
    \A a \in Live : /\ IsLeafNode(a) => heights[a] = 0
                    /\ \A c \in Children(a) : heights[a] > heights[c]

\* The height of the subtree at node n; -1 for no subtree.
Height[n \in LivePtr] ==
    IF n = NULL THEN -1 ELSE 1 + Max({Height[heap[n].left], Height[heap[n].right]})

\* When MeasureHeights returns, leaves are at zero and every node is above its
\* children, whatever garbage and whatever older heights it started from, unless
\* garbage has brought a node below the root to the largest int: no parent can be
\* above that one, and then only.
MeasuredDominate ==
    [][Measuring /\ ~Measuring'
          => (Dominating' <=> \A a \in Live \ {RootNode} : heights'[a] # MaxInt)]_avlVars

\* Measuring again changes nothing, at any of its steps: on heights that are in
\* order, every maximum is the old value.
MeasureAgainKeeps == [][Dominating /\ heap' = heap => heights' = heights]_avlVars

\* Comments of MeasureHeights, lines 538 to 547: it brings the height of every
\* node up to date; the height of a leaf is zero and a parent's is the larger of
\* its children's, plus one.
MeasuredExactly ==
    [][Measuring /\ ~Measuring' => \A a \in Live : heights'[a] = Height[a]]_avlVars

\* The nodes in the subtree at n, n included.
Below[n \in LivePtr] ==
    IF n = NULL THEN {} ELSE {n} \cup Below[heap[n].left] \cup Below[heap[n].right]

\* The ancestors of n, n included, found from the root downwards.
Above(n) == {a \in Live : n \in Below[a]}

\* MeasureHeights is on its way to the end at every step, however many nodes the
\* leaves share: a turn of the climb leaves the nodes above the one it came from
\* and no others, a climb ends at the root alone, and no leaf is taken twice.
MeasureAdvances ==
    [][Measuring => \/ /\ TmpNode # NULL
                       /\ vAVLTreeNodes' = vAVLTreeNodes
                       /\ (IF TmpNode' = NULL THEN {} ELSE Above(TmpNode'))
                             = Above(TmpNode) \ {TmpNode}
                    \/ /\ TmpNode = NULL
                       /\ IsLeafNode(TmpNode')
                       /\ vAVLTreeNodes = <<TmpNode'>> \o vAVLTreeNodes'
                       /\ TmpNode' \notin {vAVLTreeNodes'[i] : i \in DOMAIN vAVLTreeNodes'}]_avlVars

\* Definitions 5 and 6 at the head of the file, lines 17 and 18: the tree
\* balances itself, the heights of two sibling subtrees differ by one at most.
Balanced ==
    \A a \in Live : Height[heap[a].left] - Height[heap[a].right] \in -1..1

=============================================================================
