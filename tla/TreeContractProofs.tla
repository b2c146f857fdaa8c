------------------------- MODULE TreeContractProofs -------------------------
(***************************************************************************)
(* What BinarySearchTree's functions do to a tree that is well formed, for *)
(* every set of keys, values and addresses: find and insert keep it so,    *)
(* DeleteNode does exactly if its key is not hazardous, and a caller who   *)
(* never asks for a hazardous deletion has a search tree for ever.  For    *)
(* such a caller the tree implements the map of OrderedMap: every step of  *)
(* the code is a step of the map or is invisible in it.                    *)
(***************************************************************************)
EXTENDS BinarySearchTreeProofs

-----------------------------------------------------------------------------
(* The definitions that these proofs are about, before and after a step *)

\* WellFormed, of any memory h.
Good(h) == LinkedIn(h) /\ OrderedIn(h) /\ NoLeakIn(h)

LEMMA GoodIsWellFormed == WellFormed <=> Good(heap)
BY ShapeOfHeap DEF WellFormed, Good

LEMMA GoodIsWellFormedNext ==
    ASSUME RootNode' = RootNode
    PROVE  WellFormed' <=> Good(heap')
<1>0. \A a : Subtree(a)' = Sub(heap', a)
  BY DEF Subtree, Sub, Closed, ClosedIn, Children, Live
<1>1. Linked' <=> LinkedIn(heap')
  BY DEF Linked, LinkedIn, Children, Live
<1>2. Ordered' <=> OrderedIn(heap')
  BY <1>0 DEF Ordered, OrderedIn, Live
<1>3. NoLeak' <=> NoLeakIn(heap')
  BY <1>0 DEF NoLeak, NoLeakIn, Live
<1> QED
  BY <1>1, <1>2, <1>3 DEF WellFormed, Good

LEMMA HeapIsMemory == TypeOK => IsMemory(heap) /\ NULL \notin Live
BY AddrAssumption DEF TypeOK, IsMemory, Live

LEMMA HeapIsMemoryNext == TypeOK' => IsMemory(heap')
BY DEF TypeOK, IsMemory, Live

\* Hazardous, in terms of Sub.
LEMMA HazardousIn ==
    \A n : Hazardous(n) <=>
      IF HasTwoChildren(n)
      THEN \E m \in Sub(heap, heap[n].left) :
              /\ heap[m].right = NULL
              /\ \A b \in Sub(heap, heap[n].left) : heap[b].key <= heap[m].key
              /\ heap[m].left # NULL \/ m = heap[n].left
      ELSE n = RootNode
BY SubIsSubtree DEF Hazardous

\* No child pointer leads to the root.
LEMMA RootIsNoChild ==
    ASSUME TypeOK, Good(heap)
    PROVE  \A x \in Live : /\ RootNode \notin Sub(heap, heap[x].left)
                           /\ RootNode \notin Sub(heap, heap[x].right)
<1> SUFFICES ASSUME NEW x \in Live, NEW c \in {heap[x].left, heap[x].right},
                    RootNode \in Sub(heap, c)
             PROVE  FALSE
  OBVIOUS
<1>1. IsMemory(heap) /\ NULL \notin Live /\ LinkedIn(heap)
  BY HeapIsMemory DEF Good
<1>2. c # NULL
  BY <1>1, SubOfNull
<1>3. c \in Live /\ heap[c].parent = x
  BY <1>1, <1>2 DEF LinkedIn, Live
<1>4. RootNode # c
  BY <1>1, <1>3 DEF LinkedIn
<1>5. heap[RootNode].parent \in Sub(heap, c)
  BY <1>1, <1>4, SubHoldsParent
<1>6. NULL \in Live
  BY <1>1, <1>5, SubIsClosed DEF LinkedIn, Live
<1> QED
  BY <1>1, <1>6

-----------------------------------------------------------------------------
(* The steps that write the memory of a good tree *)

\* insert puts a new leaf where its search ended.
LEMMA InsertGrows ==
    ASSUME TypeOK, InsertAttach
    PROVE  \E a : /\ Grown(heap, heap', CurrentNode, a) /\ ret' = a
                  /\ heap'[a].key = key /\ heap'[a].value = value
                  /\ \A b \in Live : heap'[b].value = heap[b].value
<1>1. PICK a \in Addr \ Live : heap' = Attached(CurrentNode, a) /\ ret' = a
  BY DEF InsertAttach, Return
<1>2. CurrentNode \in Live /\ heap[CurrentNode].key # key /\ Toward(CurrentNode, key) = NULL
  BY DEF InsertAttach
<1>3. DOMAIN heap' = Live \cup {a}
  BY <1>1, <1>2, AttachedType
<1>4. \A b \in Live : heap[b] \in Node
  BY DEF TypeOK
<1>5. heap[CurrentNode].key \in Int /\ key \in Int
  BY <1>2, <1>4, KeyAssumption DEF TypeOK, Node
<1>6. /\ heap'[a].left = NULL /\ heap'[a].right = NULL /\ heap'[a].parent = CurrentNode
      /\ heap'[a].key = key /\ heap'[a].value = value
  BY <1>1, <1>2 DEF Attached, BSTNode
<1>7. \A b \in Live \ {CurrentNode} : heap'[b] = heap[b]
  BY <1>1, <1>2 DEF Attached
<1>8. heap'[CurrentNode] = IF key < heap[CurrentNode].key
                           THEN [heap[CurrentNode] EXCEPT !.left = a]
                           ELSE [heap[CurrentNode] EXCEPT !.right = a]
  BY <1>1, <1>2 DEF Attached
<1>9. /\ heap'[CurrentNode].key = heap[CurrentNode].key
      /\ heap'[CurrentNode].value = heap[CurrentNode].value
      /\ heap'[CurrentNode].parent = heap[CurrentNode].parent
      /\ \/ key < heap[CurrentNode].key /\ heap[CurrentNode].left = NULL
            /\ heap'[CurrentNode].left = a /\ heap'[CurrentNode].right = heap[CurrentNode].right
         \/ key > heap[CurrentNode].key /\ heap[CurrentNode].right = NULL
            /\ heap'[CurrentNode].right = a /\ heap'[CurrentNode].left = heap[CurrentNode].left
  BY <1>2, <1>4, <1>5, <1>8 DEF Toward, Node
<1> QED
  BY <1>1, <1>2, <1>3, <1>6, <1>7, <1>9 DEF Grown, Live

\* The nodes of g have the pairs that they have in h.
SamePairs(h, g) == \A b \in DOMAIN g : g[b].key = h[b].key /\ g[b].value = h[b].value

\* What DeleteNode writes to unlink n, which has no child but c.
LEMMA RelinkingUnlinks ==
    ASSUME TypeOK, LinkedIn(heap), NEW n \in Live, NEW c \in Ptr, NEW g,
           heap[n].parent \in Live,
           \/ heap[n].left = c /\ heap[n].right = NULL
           \/ heap[n].left = NULL /\ heap[n].right = c,
           c = NULL => g = Free(Relinked(heap[n].parent, n, c), n),
           c # NULL => g = Free([Relinked(heap[n].parent, n, c)
                                    EXCEPT ![c].parent = heap[n].parent], n)
    PROVE  Unlinked(heap, g, n, c) /\ SamePairs(heap, g)
<1> DEFINE p == heap[n].parent
           h == Relinked(p, n, c)
           f == IF c = NULL THEN h ELSE [h EXCEPT ![c].parent = p]
<1>0. g = Free(f, n)
  OBVIOUS
<1>1. NULL \notin Live /\ n # RootNode /\ n # NULL /\ p \in Live /\ n \in Ptr
  BY HeapIsMemory DEF LinkedIn, TypeOK, Ptr, Live
<1>2. \A b \in Live : heap[b] \in Node
  BY DEF TypeOK
<1>3. n \in {heap[p].left, heap[p].right} /\ heap[p].left # heap[p].right
  BY <1>1 DEF LinkedIn, Live
<1>4. \A b \in Live : n \in {heap[b].left, heap[b].right} => b = p
  BY <1>1 DEF LinkedIn, Live
<1>5. DOMAIN h = Live /\ h \in [Live -> Node]
  BY <1>1, RelinkedType
<1>6. \A b \in Live :
         /\ h[b].left  = IF heap[b].left = n THEN c ELSE heap[b].left
         /\ h[b].right = IF heap[b].right = n THEN c ELSE heap[b].right
         /\ h[b].parent = heap[b].parent
         /\ h[b].key = heap[b].key /\ h[b].value = heap[b].value
  BY <1>1, <1>2, <1>3, <1>4 DEF Relinked, Node, Live
<1>7. c = NULL \/ c \in Live
  BY DEF LinkedIn, Live
<1>8. /\ DOMAIN f = Live
      /\ \A b \in Live : /\ f[b].left = h[b].left /\ f[b].right = h[b].right
                         /\ f[b].key = h[b].key /\ f[b].value = h[b].value
                         /\ f[b].parent = IF b = c THEN p ELSE h[b].parent
  <2>1. CASE c = NULL
    BY <1>1, <1>5, <2>1
  <2>2. CASE c # NULL
    BY <1>5, <1>7, <2>2 DEF Node
  <2> QED
    BY <2>1, <2>2
<1> HIDE DEF f
<1>9. DOMAIN g = Live \ {n} /\ \A b \in Live \ {n} : g[b] = f[b]
  BY <1>0, <1>8 DEF Free, Restrict
<1>10. Unlinked(heap, g, n, c)
  <2>1. \A b \in Live \ {n} :
           /\ g[b].left   = IF heap[b].left = n THEN c ELSE heap[b].left
           /\ g[b].right  = IF heap[b].right = n THEN c ELSE heap[b].right
           /\ g[b].parent = IF b = c THEN p ELSE heap[b].parent
    BY <1>6, <1>8, <1>9
  <2>2. {heap[n].left, heap[n].right, NULL} = {c, NULL}
    OBVIOUS
  <2> QED
    BY <1>1, <1>9, <2>1, <2>2 DEF Unlinked, Live
<1>11. SamePairs(heap, g)
  BY <1>6, <1>8, <1>9 DEF SamePairs
<1> QED
  BY <1>10, <1>11

\* Deleting a node with less than two children.
LEMMA DeleteUnlinks ==
    ASSUME TypeOK, LinkedIn(heap), DeleteLeaf \/ DeleteWithLeftChild \/ DeleteWithRightChild
    PROVE  /\ CurrentNode \in Live \ {RootNode} /\ heap[CurrentNode].key = key
           /\ ~HasTwoChildren(CurrentNode)
           /\ \E c : Unlinked(heap, heap', CurrentNode, c)
           /\ SamePairs(heap, heap')
<1>0. NULL \notin Live
  BY HeapIsMemory
<1>1. CASE DeleteLeaf
  <2>1. /\ CurrentNode \in Live /\ heap[CurrentNode].key = key
        /\ heap[CurrentNode].left = NULL /\ heap[CurrentNode].right = NULL
        /\ heap[CurrentNode].parent \in Live
        /\ heap' = Free(Relinked(heap[CurrentNode].parent, CurrentNode, NULL), CurrentNode)
    BY <1>1 DEF DeleteLeaf, Located, IsLeafNode
  <2>2. NULL \in Ptr
    BY DEF Ptr
  <2>4. /\ Unlinked(heap, heap', CurrentNode, NULL)
        /\ SamePairs(heap, heap')
    BY <2>1, <2>2, RelinkingUnlinks
  <2> QED
    BY <1>0, <2>1, <2>4 DEF LinkedIn, HasTwoChildren, Live
<1>2. ASSUME NEW c, Located, Splice(c), c # NULL,
             \/ heap[CurrentNode].left = c /\ heap[CurrentNode].right = NULL
             \/ heap[CurrentNode].left = NULL /\ heap[CurrentNode].right = c
      PROVE  /\ CurrentNode \in Live \ {RootNode} /\ heap[CurrentNode].key = key
             /\ ~HasTwoChildren(CurrentNode)
             /\ Unlinked(heap, heap', CurrentNode, c)
             /\ SamePairs(heap, heap')
  <2>1. /\ CurrentNode \in Live /\ heap[CurrentNode].key = key /\ c \in Live
        /\ heap[CurrentNode].parent \in Live
        /\ heap' = Free([Relinked(heap[CurrentNode].parent, CurrentNode, c)
                            EXCEPT ![c].parent = heap[CurrentNode].parent], CurrentNode)
    BY <1>2 DEF Located, Splice
  <2>2. c \in Ptr
    BY <2>1 DEF Ptr, TypeOK
  <2>3. /\ Unlinked(heap, heap', CurrentNode, c)
        /\ SamePairs(heap, heap')
    BY <1>2, <2>1, <2>2, RelinkingUnlinks
  <2> QED
    BY <1>0, <1>2, <2>1, <2>3 DEF LinkedIn, HasTwoChildren, Live
<1>3. CASE DeleteWithLeftChild
  BY <1>2, <1>3 DEF DeleteWithLeftChild
<1>4. CASE DeleteWithRightChild
  BY <1>2, <1>4 DEF DeleteWithRightChild
<1> QED
  BY <1>1, <1>3, <1>4

\* Moving the pair of a leaf that is a right child up, and freeing it.
LEMMA ReplaceUnlinks ==
    ASSUME TypeOK, LinkedIn(heap), CurrentNode \in Live, LeftMaxReplace,
           leftMaxNode # CurrentNode, heap[heap[leftMaxNode].parent].right = leftMaxNode
    PROVE  /\ Unlinked(heap, heap', leftMaxNode, NULL)
           /\ \A b \in Live' :
                 LET from == IF b = CurrentNode THEN leftMaxNode ELSE b
                 IN  heap'[b].key = heap[from].key /\ heap'[b].value = heap[from].value
<1> DEFINE max   == heap[leftMaxNode]
           moved == [heap EXCEPT ![CurrentNode].key = max.key,
                                 ![CurrentNode].value = max.value]
           h     == [moved EXCEPT ![max.parent].right = NULL]
<1>1. /\ leftMaxNode \in Live /\ max.parent \in Live /\ heap' = Free(h, leftMaxNode)
      /\ max.left = NULL /\ max.right = NULL
  BY DEF LeftMaxReplace, IsLeafNode
<1>2. NULL \notin Live /\ leftMaxNode # RootNode /\ leftMaxNode # NULL
  BY <1>1, HeapIsMemory DEF LinkedIn, Live
<1>3. \A b \in Live : heap[b] \in Node
  BY DEF TypeOK
<1>4. \A b \in Live : /\ heap[b].left # leftMaxNode
                      /\ heap[b].right = leftMaxNode => b = max.parent
  BY <1>1, <1>2 DEF LinkedIn, Live
<1>5. moved \in [Live -> Node]
  BY <1>1, UnlinkType DEF TypeOK
<1>6. \A b \in Live : /\ moved[b].left = heap[b].left /\ moved[b].right = heap[b].right
                      /\ moved[b].parent = heap[b].parent
                      /\ moved[b].key = IF b = CurrentNode THEN max.key ELSE heap[b].key
                      /\ moved[b].value = IF b = CurrentNode THEN max.value ELSE heap[b].value
  BY <1>1, <1>3 DEF Node, Live
<1> HIDE DEF moved
<1>7. /\ DOMAIN h = Live
      /\ \A b \in Live : /\ h[b].left = moved[b].left
                         /\ h[b].right = IF b = max.parent THEN NULL ELSE moved[b].right
                         /\ h[b].parent = moved[b].parent
                         /\ h[b].key = moved[b].key /\ h[b].value = moved[b].value
  BY <1>1, <1>5 DEF Node
<1> HIDE DEF h
<1>8. DOMAIN heap' = Live \ {leftMaxNode} /\ \A b \in Live \ {leftMaxNode} : heap'[b] = h[b]
  BY <1>1, <1>7 DEF Free, Restrict
<1>9. Unlinked(heap, heap', leftMaxNode, NULL)
  BY <1>1, <1>2, <1>4, <1>6, <1>7, <1>8 DEF Unlinked, Live
<1> QED
  BY <1>6, <1>7, <1>8, <1>9 DEF Live

-----------------------------------------------------------------------------
(* The walks *)

\* In a walk that looks for key, every node with that key is at or below CurrentNode;
\* insert, which ends at a node without the child it looks for, has turned the right
\* way at every node.
SearchInv ==
    /\ pc \in {"find", "delete"} => CurrentNode \in Live \cup {NULL}
    /\ pc = "insert" => CurrentNode \in Live /\ PathTo(heap, CurrentNode, key)
    /\ pc \in {"find", "insert", "delete"}
          => \A b \in Live : heap[b].key = key => b \in Sub(heap, CurrentNode)

\* The second loop of DeleteNode is in the left subtree of the only node with the key,
\* on the way to the largest key of that subtree; below its first node it has gone to
\* the right only; and it runs past the last node only if the node that it should have
\* found has a left child, which makes the deletion hazardous.
LeftMaxInv ==
    pc = "leftmax" =>
        /\ CurrentNode \in Live /\ heap[CurrentNode].key = key
        /\ HasTwoChildren(CurrentNode)
        /\ \A b \in Live : heap[b].key = key => b = CurrentNode
        /\ leftMaxNode \in Live \cup {NULL}
        /\ leftMaxNode = NULL => Hazardous(CurrentNode)
        /\ leftMaxNode \in Live =>
              /\ leftMaxNode \in Sub(heap, heap[CurrentNode].left)
              /\ \A b \in Sub(heap, heap[CurrentNode].left) :
                    \/ b \in Sub(heap, leftMaxNode)
                    \/ \E m \in Sub(heap, leftMaxNode) : heap[b].key < heap[m].key
              /\ \/ leftMaxNode = heap[CurrentNode].left
                 \/ heap[heap[leftMaxNode].parent].right = leftMaxNode

\* Nothing is said of a walk through a tree that is damaged.
WalkInv == Good(heap) => SearchInv /\ LeftMaxInv

\* One step of a search in a good tree turns to the child that has the key below it.
LEMMA TowardHoldsKey ==
    ASSUME TypeOK, Good(heap), NEW n \in Live, heap[n].key # key
    PROVE  /\ Toward(n, key) \in Live \cup {NULL}
           /\ \A b \in Sub(heap, n) : heap[b].key = key => b \in Sub(heap, Toward(n, key))
           /\ Toward(n, key) # NULL /\ PathTo(heap, n, key) => PathTo(heap, Toward(n, key), key)
<1>1. IsMemory(heap) /\ NULL \notin Live /\ LinkedIn(heap) /\ OrderedIn(heap)
  BY HeapIsMemory DEF Good
<1>2. Toward(n, key) \in {heap[n].left, heap[n].right}
  BY DEF Toward
<1>3. Toward(n, key) \in Live \cup {NULL}
  BY <1>1, <1>2 DEF LinkedIn, Live
<1>4. \A b \in Live : heap[b].key \in Int
  BY KeyAssumption DEF TypeOK, Node
<1>5. key \in Int
  BY KeyAssumption DEF TypeOK
<1>6. Sub(heap, n) = {n} \cup Sub(heap, heap[n].left) \cup Sub(heap, heap[n].right)
  BY <1>1, SubByChildren DEF Live
<1>7. \A b \in Sub(heap, n) : heap[b].key = key => b \in Sub(heap, Toward(n, key))
  <2>1. \A b \in Sub(heap, heap[n].left) : heap[b].key < heap[n].key
    BY <1>1 DEF OrderedIn, Live
  <2>2. \A b \in Sub(heap, heap[n].right) : heap[b].key > heap[n].key
    BY <1>1 DEF OrderedIn, Live
  <2> QED
    BY <1>4, <1>5, <1>6, <2>1, <2>2 DEF Toward
<1>8. ASSUME Toward(n, key) # NULL, PathTo(heap, n, key)
      PROVE  PathTo(heap, Toward(n, key), key)
  <2> DEFINE t == Toward(n, key)
  <2>1. t \in Live /\ heap[t].parent = n
    BY <1>1, <1>2, <1>8 DEF LinkedIn, Live
  <2>2. ASSUME NEW x \in Live, NEW c \in {heap[x].left, heap[x].right}, t \in Sub(heap, c), t # c
        PROVE  n \in Sub(heap, c)
    BY <1>1, <2>1, <2>2, SubHoldsParent
  <2>3. ASSUME NEW x \in Live, t \in {heap[x].left, heap[x].right} PROVE x = n
    BY <1>1, <2>1, <2>3 DEF LinkedIn, Live
  <2>4. heap[n].left # heap[n].right
    BY <1>1, <1>2, <1>8 DEF LinkedIn, Live
  <2>5. t = heap[n].left => key < heap[n].key
    BY <1>4, <1>5, <2>4 DEF Toward
  <2>6. t = heap[n].right => key > heap[n].key
    BY <1>4, <1>5, <2>4 DEF Toward
  <2>7. ASSUME NEW x \in Live, t \in Sub(heap, heap[x].left) PROVE key < heap[x].key
    <3>1. CASE t = heap[x].left
      BY <2>3, <2>5, <3>1
    <3>2. CASE t # heap[x].left
      BY <1>8, <2>2, <2>7, <3>2 DEF PathTo, Live
    <3> QED
      BY <3>1, <3>2
  <2>8. ASSUME NEW x \in Live, t \in Sub(heap, heap[x].right) PROVE key > heap[x].key
    <3>1. CASE t = heap[x].right
      BY <2>3, <2>6, <3>1
    <3>2. CASE t # heap[x].right
      BY <1>8, <2>2, <2>8, <3>2 DEF PathTo, Live
    <3> QED
      BY <3>1, <3>2
  <2> QED
    BY <2>7, <2>8 DEF PathTo, Live
<1> QED
  BY <1>3, <1>7, <1>8

\* The node that a search has found is the only one with the key.
LEMMA FoundIsOnly ==
    ASSUME TypeOK, Good(heap), NEW n \in Live, heap[n].key = key,
           \A b \in Live : heap[b].key = key => b \in Sub(heap, n)
    PROVE  \A b \in Live : heap[b].key = key => b = n
<1>1. IsMemory(heap) /\ OrderedIn(heap)
  BY HeapIsMemory DEF Good
<1>2. Sub(heap, n) = {n} \cup Sub(heap, heap[n].left) \cup Sub(heap, heap[n].right)
  BY <1>1, SubByChildren DEF Live
<1>3. \A b \in Live : heap[b].key \in Int
  BY KeyAssumption DEF TypeOK, Node
<1> QED
  BY <1>1, <1>2, <1>3 DEF OrderedIn, Live

\* A call starts at the root, below which everything is.
LEMMA CallStartsSearch ==
    ASSUME TypeOK, Good(heap), NEW k, NEW function, Call(function, k),
           function \in {"find", "insert", "delete"}
    PROVE  SearchInv' /\ LeftMaxInv'
<1>1. /\ CurrentNode' = RootNode /\ heap' = heap /\ pc' = function /\ key' = k
  BY DEF Call
<1>2. RootNode \in Live /\ Sub(heap, RootNode) = Live
  BY DEF Good, LinkedIn, NoLeakIn, Live
<1>3. PathTo(heap, RootNode, k)
  BY RootIsNoChild DEF PathTo, Live
<1> QED
  BY <1>1, <1>2, <1>3 DEF SearchInv, LeftMaxInv, Live

\* A step of one of the three searches.
LEMMA SearchGoesOn ==
    ASSUME TypeOK, Good(heap), SearchInv, FindDescend \/ InsertDescend
    PROVE  SearchInv' /\ LeftMaxInv'
<1>1. /\ CurrentNode \in Live /\ heap[CurrentNode].key # key
      /\ CurrentNode' = Toward(CurrentNode, key) /\ UNCHANGED <<heap, pc, key>>
      /\ pc \in {"find", "insert", "delete"}
      /\ pc = "insert" => Toward(CurrentNode, key) # NULL
  BY DEF FindDescend, InsertDescend
<1>2. /\ Toward(CurrentNode, key) \in Live \cup {NULL}
      /\ \A b \in Sub(heap, CurrentNode) :
            heap[b].key = key => b \in Sub(heap, Toward(CurrentNode, key))
      /\ Toward(CurrentNode, key) # NULL /\ PathTo(heap, CurrentNode, key)
            => PathTo(heap, Toward(CurrentNode, key), key)
  BY <1>1, TowardHoldsKey
<1> QED
  BY <1>1, <1>2 DEF SearchInv, LeftMaxInv, Live

\* The second loop begins.
LEMMA LeftMaxStarts ==
    ASSUME TypeOK, Good(heap), SearchInv, DeleteWithTwoChildren
    PROVE  SearchInv' /\ LeftMaxInv'
<1>1. /\ CurrentNode \in Live /\ heap[CurrentNode].key = key /\ pc = "delete"
      /\ HasTwoChildren(CurrentNode)
      /\ pc' = "leftmax" /\ leftMaxNode' = heap[CurrentNode].left
      /\ UNCHANGED <<heap, key, CurrentNode>>
  BY DEF DeleteWithTwoChildren, Located
<1>2. \A b \in Live : heap[b].key = key => b = CurrentNode
  BY <1>1, FoundIsOnly DEF SearchInv
<1>3. heap[CurrentNode].left \in Live /\ heap[CurrentNode].left # NULL
  BY <1>1 DEF Good, LinkedIn, HasTwoChildren, Live
<1>4. heap[CurrentNode].left \in Sub(heap, heap[CurrentNode].left)
  BY <1>3, SubIsClosed DEF Live
<1>5. HasTwoChildren(CurrentNode)'
  BY <1>1 DEF HasTwoChildren
<1>6. NULL \notin Live
  BY HeapIsMemory
<1> QED
  BY <1>1, <1>2, <1>3, <1>4, <1>5, <1>6 DEF SearchInv, LeftMaxInv, Live

\* A node without a right child is the largest of its subtree.
LEMMA LargestHasNoRight ==
    ASSUME TypeOK, Good(heap), NEW n \in Live, heap[n].right = NULL
    PROVE  \A b \in Sub(heap, n) : heap[b].key <= heap[n].key
<1>1. IsMemory(heap) /\ OrderedIn(heap) /\ Sub(heap, NULL) = {}
  BY HeapIsMemory, SubOfNull DEF Good
<1>2. Sub(heap, n) = {n} \cup Sub(heap, heap[n].left)
  BY <1>1, SubByChildren DEF Live
<1>3. \A b \in Sub(heap, n) : heap[b].key \in Int
  <2>1. Sub(heap, n) \subseteq Live
    BY SubIsClosed DEF Live
  <2> QED
    BY <2>1, KeyAssumption DEF TypeOK, Node
<1>4. n \in Sub(heap, n)
  BY <1>2
<1> QED
  BY <1>1, <1>2, <1>3, <1>4 DEF OrderedIn, Live

\* It is the largest of the whole left subtree if the second loop stands there.
LEMMA LoopStandsAtLargest ==
    ASSUME TypeOK, Good(heap), LeftMaxInv, pc = "leftmax", leftMaxNode \in Live,
           heap[leftMaxNode].right = NULL
    PROVE  \A b \in Sub(heap, heap[CurrentNode].left) : heap[b].key <= heap[leftMaxNode].key
<1>1. \A b \in Sub(heap, leftMaxNode) : heap[b].key <= heap[leftMaxNode].key
  BY LargestHasNoRight
<1>2. \A b \in Live : heap[b].key \in Int
  BY KeyAssumption DEF TypeOK, Node
<1>3. \A a : Sub(heap, a) \subseteq Live
  BY SubIsClosed DEF Live
<1> SUFFICES ASSUME NEW b \in Sub(heap, heap[CurrentNode].left)
             PROVE  heap[b].key <= heap[leftMaxNode].key
  OBVIOUS
<1>4. b \in Sub(heap, leftMaxNode) \/ \E m \in Sub(heap, leftMaxNode) : heap[b].key < heap[m].key
  BY DEF LeftMaxInv
<1> QED
  BY <1>1, <1>2, <1>3, <1>4

\* A step of the second loop.
LEMMA LeftMaxGoesOn ==
    ASSUME TypeOK, Good(heap), LeftMaxInv, LeftMaxDescend
    PROVE  SearchInv' /\ LeftMaxInv'
<1> DEFINE x == leftMaxNode
           r == heap[x].right
           L == Sub(heap, heap[CurrentNode].left)
<1>0. IsMemory(heap) /\ NULL \notin Live /\ LinkedIn(heap) /\ OrderedIn(heap)
  BY HeapIsMemory DEF Good
<1>1. /\ pc = "leftmax" /\ x \in Live
      /\ heap[x].left # NULL \/ r # NULL
      /\ leftMaxNode' = r /\ UNCHANGED <<heap, pc, key, CurrentNode>>
  BY <1>0 DEF LeftMaxDescend, IsLeafNode
<1>2. x \in L /\ (\A b \in L : b \in Sub(heap, x)
                              \/ \E m \in Sub(heap, x) : heap[b].key < heap[m].key)
  BY <1>1 DEF LeftMaxInv
<1>3. CASE r = NULL
  <2>1. Hazardous(CurrentNode)
    <3>1. \A b \in L : heap[b].key <= heap[x].key
      BY <1>1, <1>3, LoopStandsAtLargest
    <3>2. HasTwoChildren(CurrentNode)
      BY <1>1 DEF LeftMaxInv
    <3> QED
      BY <1>1, <1>2, <1>3, <3>1, <3>2, HazardousIn
  <2>2. Hazardous(CurrentNode)' /\ HasTwoChildren(CurrentNode)'
    <3>1. RootNode' = RootNode
      BY DEF LeftMaxDescend
    <3> QED
      BY <1>1, <2>1, <3>1
      DEF Hazardous, HasTwoChildren, Subtree, Closed, Children, Live, LeftMaxInv
  <2> QED
    BY <1>0, <1>1, <1>3, <2>2 DEF SearchInv, LeftMaxInv, Live
<1>4. CASE r # NULL
  <2>1. r \in Live /\ heap[r].parent = x
    BY <1>0, <1>1, <1>4 DEF LinkedIn, Live
  <2>2. r \in Sub(heap, r) /\ Sub(heap, x) = {x} \cup Sub(heap, heap[x].left) \cup Sub(heap, r)
    BY <1>0, <1>1, <2>1, SubByChildren, SubIsClosed DEF Live
  <2>3. r \in L
    <3>1. Sub(heap, x) \subseteq L
      BY <1>2, SubIsTransitive
    <3> QED
      BY <2>2, <3>1
  <2>4. \A b \in Live : heap[b].key \in Int
    BY KeyAssumption DEF TypeOK, Node
  <2>5. \A a : Sub(heap, a) \subseteq Live
    BY SubIsClosed DEF Live
  <2>6. \A b \in Sub(heap, x) : b \in Sub(heap, r) \/ heap[b].key < heap[r].key
    <3>1. /\ \A b \in Sub(heap, heap[x].left) : heap[b].key < heap[x].key
          /\ heap[r].key > heap[x].key
      BY <1>0, <1>1, <2>2 DEF OrderedIn, Live
    <3> QED
      BY <1>1, <2>1, <2>2, <2>4, <2>5, <3>1
  <2>7. \A b \in L : b \in Sub(heap, r) \/ \E m \in Sub(heap, r) : heap[b].key < heap[m].key
    <3> SUFFICES ASSUME NEW b \in L, b \notin Sub(heap, r)
                 PROVE  \E m \in Sub(heap, r) : heap[b].key < heap[m].key
      OBVIOUS
    <3>1. CASE b \in Sub(heap, x)
      BY <2>2, <2>6, <3>1
    <3>2. CASE b \notin Sub(heap, x)
      <4>1. PICK m \in Sub(heap, x) : heap[b].key < heap[m].key
        BY <1>2, <3>2
      <4>2. heap[b].key \in Int /\ heap[m].key \in Int /\ heap[r].key \in Int
        BY <2>1, <2>4, <2>5
      <4> QED
        BY <2>2, <2>6, <4>1, <4>2
    <3> QED
      BY <3>1, <3>2
  <2>8. HasTwoChildren(CurrentNode)'
    BY <1>1 DEF HasTwoChildren, LeftMaxInv
  <2> QED
    BY <1>0, <1>1, <1>4, <2>1, <2>3, <2>7, <2>8 DEF SearchInv, LeftMaxInv, Live
<1> QED
  BY <1>3, <1>4

LEMMA InitWalk == Init => WalkInv
BY DEF Init, WalkInv, SearchInv, LeftMaxInv

\* Every step keeps what is known of the walk, if the tree is good.
LEMMA NextWalk == IInv /\ WalkInv /\ [Next]_vars => WalkInv'
<1> SUFFICES ASSUME IInv, WalkInv, [Next]_vars, Good(heap)' PROVE SearchInv' /\ LeftMaxInv'
  BY DEF WalkInv
<1>1. CASE Writes
  <2>1. pc' = "idle"
    BY <1>1 DEF Writes, InsertAttach, DeleteLeaf, DeleteWithLeftChild, DeleteWithRightChild,
                Splice, LeftMaxReplace, Return
  <2> QED
    BY <2>1 DEF SearchInv, LeftMaxInv
<1>2. CASE ~Writes
  <2>1. \/ Caller \/ FindDescend \/ FindReturn \/ InsertDescend \/ InsertExisting
        \/ DeleteAbsent \/ DeleteWithTwoChildren \/ LeftMaxDescend
        \/ WalkFault \/ LeftMaxFault \/ ParentFault \/ ChildFault
        \/ UNCHANGED vars
    BY <1>2 DEF Next, Run, Deleting, Ended, Writes
  <2>2. TypeOK /\ UNCHANGED <<RootNode, heap>>
    BY <2>1, QuietStepType DEF IInv
  <2>3. Good(heap)
    BY <2>2 DEF Good, LinkedIn, OrderedIn, NoLeakIn
  <2>4. SearchInv /\ LeftMaxInv
    BY <2>3 DEF WalkInv
  <2>5. CASE Caller
    BY <2>2, <2>3, <2>5, CallStartsSearch DEF Caller, CallFind, CallInsert, CallDelete
  <2>6. CASE FindDescend \/ InsertDescend
    BY <2>2, <2>3, <2>4, <2>6, SearchGoesOn
  <2>7. CASE FindReturn \/ InsertExisting \/ DeleteAbsent
    BY <2>7 DEF FindReturn, InsertExisting, DeleteAbsent, Return, SearchInv, LeftMaxInv
  <2>8. CASE DeleteWithTwoChildren
    BY <2>2, <2>3, <2>4, <2>8, LeftMaxStarts
  <2>9. CASE LeftMaxDescend
    BY <2>2, <2>3, <2>4, <2>9, LeftMaxGoesOn
  <2>10. CASE WalkFault \/ LeftMaxFault \/ ParentFault \/ ChildFault
    BY <2>10 DEF WalkFault, LeftMaxFault, ParentFault, ChildFault, Fault, SearchInv, LeftMaxInv
  <2>11. CASE UNCHANGED vars
    BY <2>4, <2>11
    DEF vars, SearchInv, LeftMaxInv, Live, HasTwoChildren, Hazardous, Subtree, Closed,
        Children
  <2> QED
    BY <2>1, <2>5, <2>6, <2>7, <2>8, <2>9, <2>10, <2>11
<1> QED
  BY <1>1, <1>2

-----------------------------------------------------------------------------
(* What the functions do to a good tree *)

\* insert keeps a good tree good.
LEMMA InsertKeepsTree ==
    ASSUME IInv, WalkInv, Good(heap), InsertAttach, TypeOK'
    PROVE  Good(heap')
<1>1. PICK a : Grown(heap, heap', CurrentNode, a) /\ heap'[a].key = key
  BY InsertGrows DEF IInv
<1>2. PathTo(heap, CurrentNode, heap'[a].key)
  BY <1>1 DEF InsertAttach, WalkInv, SearchInv
<1>3. IsMemory(heap) /\ IsMemory(heap')
  BY HeapIsMemory, HeapIsMemoryNext DEF IInv
<1> QED
  BY <1>1, <1>2, <1>3, GrownIsTree DEF Good

\* So does DeleteNode of a node that has at most one child and a parent.
LEMMA UnlinkKeepsTree ==
    ASSUME TypeOK, Good(heap), TypeOK', DeleteLeaf \/ DeleteWithLeftChild \/ DeleteWithRightChild
    PROVE  Good(heap')
<1>1. PICK c : Unlinked(heap, heap', CurrentNode, c)
  BY DeleteUnlinks DEF Good
<1>2. \A b \in DOMAIN heap' : heap'[b].key = heap[b].key
  BY DeleteUnlinks DEF Good, SamePairs
<1>3. IsMemory(heap) /\ IsMemory(heap')
  BY HeapIsMemory, HeapIsMemoryNext
<1>4. LinkedIn(heap') /\ NoLeakIn(heap')
  BY <1>1, <1>3, UnlinkedIsLinked DEF Good
<1>5. OrderedIn(heap')
  BY <1>1, <1>2, <1>3, UnlinkedIsOrdered DEF Good
<1> QED
  BY <1>4, <1>5 DEF Good

\* The pair moved up by the second loop comes from the largest node of the left
\* subtree, and is larger than everything else there.
LEMMA ReplacementIsLargest ==
    ASSUME TypeOK, Good(heap), LeftMaxInv, LeftMaxReplace
    PROVE  /\ CurrentNode \in Live /\ leftMaxNode \in Live /\ HasTwoChildren(CurrentNode)
           /\ leftMaxNode \in Sub(heap, heap[CurrentNode].left)
           /\ heap[leftMaxNode].left = NULL /\ heap[leftMaxNode].right = NULL
           /\ CurrentNode \notin Sub(heap, heap[CurrentNode].left)
           /\ \A b \in Sub(heap, heap[CurrentNode].left) \ {leftMaxNode} :
                 heap[b].key < heap[leftMaxNode].key
<1>1. /\ pc = "leftmax" /\ leftMaxNode \in Live
      /\ heap[leftMaxNode].left = NULL /\ heap[leftMaxNode].right = NULL
  BY DEF LeftMaxReplace, IsLeafNode
<1>2. /\ CurrentNode \in Live /\ HasTwoChildren(CurrentNode)
      /\ leftMaxNode \in Sub(heap, heap[CurrentNode].left)
      /\ \A b \in Sub(heap, heap[CurrentNode].left) :
            \/ b \in Sub(heap, leftMaxNode)
            \/ \E m \in Sub(heap, leftMaxNode) : heap[b].key < heap[m].key
  BY <1>1 DEF LeftMaxInv
<1>3. Sub(heap, leftMaxNode) = {leftMaxNode}
  BY <1>1, HeapIsMemory, SubByChildren, SubOfNull DEF Live
<1>4. CurrentNode \notin Sub(heap, heap[CurrentNode].left)
  <2>1. heap[CurrentNode].key \in Int
    BY <1>2, KeyAssumption DEF TypeOK, Node
  <2> QED
    BY <1>2, <2>1 DEF Good, OrderedIn, Live
<1> QED
  BY <1>1, <1>2, <1>3, <1>4

\* If the deletion is not hazardous that node is a right child, as the code expects.
LEMMA ReplacementIsRightChild ==
    ASSUME TypeOK, Good(heap), LeftMaxInv, LeftMaxReplace, ~Hazardous(CurrentNode)
    PROVE  heap[heap[leftMaxNode].parent].right = leftMaxNode
<1>1. /\ leftMaxNode \in Live /\ HasTwoChildren(CurrentNode)
      /\ leftMaxNode \in Sub(heap, heap[CurrentNode].left)
      /\ heap[leftMaxNode].right = NULL
  BY ReplacementIsLargest
<1>2. pc = "leftmax"
  BY DEF LeftMaxReplace
<1>3. \A b \in Sub(heap, heap[CurrentNode].left) : heap[b].key <= heap[leftMaxNode].key
  BY <1>1, <1>2, LoopStandsAtLargest
<1>4. leftMaxNode # heap[CurrentNode].left
  BY <1>1, <1>3, HazardousIn
<1> QED
  BY <1>1, <1>2, <1>4 DEF LeftMaxInv

\* Replacing keeps a good tree good if the deletion is not hazardous.
LEMMA ReplaceKeepsTree ==
    ASSUME TypeOK, Good(heap), LeftMaxInv, LeftMaxReplace, TypeOK', ~Hazardous(CurrentNode)
    PROVE  Good(heap')
<1> DEFINE n == CurrentNode
           m == leftMaxNode
<1>1. /\ n \in Live /\ m \in Live /\ HasTwoChildren(n)
      /\ m \in Sub(heap, heap[n].left)
      /\ heap[m].left = NULL /\ heap[m].right = NULL
      /\ n \notin Sub(heap, heap[n].left)
      /\ \A b \in Sub(heap, heap[n].left) \ {m} : heap[b].key < heap[m].key
  BY ReplacementIsLargest
<1>2. heap[heap[m].parent].right = m /\ m # n
  BY <1>1, ReplacementIsRightChild
<1>3. /\ Unlinked(heap, heap', m, NULL)
      /\ \A b \in Live' : heap'[b].key = IF b = n THEN heap[m].key ELSE heap[b].key
  BY <1>1, <1>2, ReplaceUnlinks DEF Good
<1>4. IsMemory(heap) /\ IsMemory(heap')
  BY HeapIsMemory, HeapIsMemoryNext
<1>5. LinkedIn(heap') /\ NoLeakIn(heap')
  BY <1>3, <1>4, UnlinkedIsLinked DEF Good
<1>6. \A b \in DOMAIN heap' : /\ Sub(heap', heap'[b].left) = Sub(heap, heap[b].left) \ {m}
                             /\ Sub(heap', heap'[b].right) = Sub(heap, heap[b].right) \ {m}
  BY <1>3, <1>4, UnlinkedChildren DEF Good
<1>7. DOMAIN heap' = Live \ {m}
  BY <1>3 DEF Unlinked, Live
<1>8. \A b \in Live : heap[b].key \in Int
  BY KeyAssumption DEF TypeOK, Node
<1>9. \A a : Sub(heap, a) \subseteq Live
  BY SubIsClosed DEF Live
<1>10. \A a : n \in Sub(heap, a) => m \in Sub(heap, a)
  <2>1. m \in Sub(heap, n)
    BY <1>1, <1>4, SubByChildren DEF Live
  <2> QED
    BY <2>1, SubIsTransitive
<1>11. \A a \in Live : /\ \A b \in Sub(heap, heap[a].left) : heap[b].key < heap[a].key
                       /\ \A b \in Sub(heap, heap[a].right) : heap[b].key > heap[a].key
  BY DEF Good, OrderedIn, Live
<1>12. ASSUME NEW a \in Live \ {m}, NEW b \in Sub(heap, heap[a].left) \ {m}
       PROVE  heap'[b].key < heap'[a].key
  <2>1. /\ heap'[a].key = IF a = n THEN heap[m].key ELSE heap[a].key
        /\ heap'[b].key = IF b = n THEN heap[m].key ELSE heap[b].key
    BY <1>3, <1>7, <1>9, <1>12 DEF Live
  <2>2. CASE a = n
    BY <1>1, <1>12, <2>1, <2>2
  <2>3. CASE a # n /\ b = n
    BY <1>10, <1>11, <1>12, <2>1, <2>3
  <2>4. CASE a # n /\ b # n
    BY <1>11, <1>12, <2>1, <2>4
  <2> QED
    BY <2>2, <2>3, <2>4
<1>13. ASSUME NEW a \in Live \ {m}, NEW b \in Sub(heap, heap[a].right) \ {m}
       PROVE  heap'[b].key > heap'[a].key
  <2>1. /\ heap'[a].key = IF a = n THEN heap[m].key ELSE heap[a].key
        /\ heap'[b].key = IF b = n THEN heap[m].key ELSE heap[b].key
    BY <1>3, <1>7, <1>9, <1>13 DEF Live
  <2>2. CASE a = n
    <3>1. heap[b].key > heap[n].key /\ heap[m].key < heap[n].key
      BY <1>1, <1>11, <1>13, <2>2
    <3>2. b # n
      BY <1>1, <1>8, <3>1
    <3>3. b \in Live
      BY <1>9, <1>13
    <3> QED
      BY <1>1, <1>8, <2>1, <2>2, <3>1, <3>2, <3>3
  <2>3. CASE a # n /\ b = n
    BY <1>10, <1>11, <1>13, <2>1, <2>3
  <2>4. CASE a # n /\ b # n
    BY <1>11, <1>13, <2>1, <2>4
  <2> QED
    BY <2>2, <2>3, <2>4
<1>14. OrderedIn(heap')
  BY <1>6, <1>7, <1>12, <1>13 DEF OrderedIn
<1> QED
  BY <1>5, <1>14 DEF Good

\* Replacing damages a good tree if the deletion is hazardous: the freed leaf was the
\* left child itself, and stays it.
LEMMA HazardousReplaceBreaks ==
    ASSUME TypeOK, Good(heap), LeftMaxInv, LeftMaxReplace, Hazardous(CurrentNode)
    PROVE  ~Good(heap')
<1> DEFINE n == CurrentNode
           x == leftMaxNode
<1>0. NULL \notin Live
  BY HeapIsMemory
<1>1. /\ n \in Live /\ x \in Live /\ HasTwoChildren(n)
      /\ x \in Sub(heap, heap[n].left)
      /\ heap[x].left = NULL /\ heap[x].right = NULL
      /\ n \notin Sub(heap, heap[n].left)
      /\ \A b \in Sub(heap, heap[n].left) \ {x} : heap[b].key < heap[x].key
  BY ReplacementIsLargest
<1>2. PICK m \in Sub(heap, heap[n].left) :
         /\ \A b \in Sub(heap, heap[n].left) : heap[b].key <= heap[m].key
         /\ heap[m].left # NULL \/ m = heap[n].left
  BY <1>1, HazardousIn
<1>3. m = x
  <2>1. heap[m].key \in Int /\ heap[x].key \in Int
    <3>1. m \in Live
      BY SubIsClosed DEF Live
    <3> QED
      BY <1>1, <3>1, KeyAssumption DEF TypeOK, Node
  <2> QED
    BY <1>1, <1>2, <2>1
<1>4. x = heap[n].left /\ x # n /\ x # NULL
  BY <1>0, <1>1, <1>2, <1>3
<1>5. heap[x].parent \in Live
  BY DEF LeftMaxReplace
<1>6. DOMAIN heap' = Live \ {x} /\ heap'[n].left = heap[n].left
  <2>1. \A b \in Live : heap[b] \in Node
    BY DEF TypeOK
  <2>2. heap' = Free([[heap EXCEPT ![n].key = heap[x].key, ![n].value = heap[x].value]
                         EXCEPT ![heap[x].parent].right = NULL], x)
    BY DEF LeftMaxReplace
  <2>3. DOMAIN heap' = Live \ {x}
    BY <1>1, <2>2 DEF Free, Restrict, Live
  <2>4. heap'[n].left = heap[n].left
    BY <1>1, <1>4, <1>5, <2>1, <2>2 DEF Free, Restrict, Live, Node
  <2> QED
    BY <2>3, <2>4
<1>7. ~LinkedIn(heap')
  BY <1>1, <1>4, <1>6 DEF LinkedIn
<1> QED
  BY <1>7 DEF Good

\* The constructor makes a good tree.
LEMMA InitGood == Init => Good(heap)
<1> SUFFICES ASSUME Init PROVE Good(heap)
  OBVIOUS
<1>1. /\ DOMAIN heap = {RootNode} /\ RootNode # NULL
      /\ heap[RootNode].left = NULL /\ heap[RootNode].right = NULL
      /\ heap[RootNode].parent = NULL
  BY AddrAssumption DEF Init, BSTNode
<1>2. IsMemory(heap)
  BY InitType, HeapIsMemory
<1>3. Sub(heap, NULL) = {} /\ Sub(heap, RootNode) = {RootNode}
  BY <1>1, <1>2, SubOfNull, SubByChildren
<1> QED
  BY <1>1, <1>3 DEF Good, LinkedIn, OrderedIn, NoLeakIn

\* Where the steps of find and insert lead from a good tree.
LEMMA FindAndInsert ==
    ASSUME IInv, WalkInv, [Next]_vars, WellFormed, pc \in {"idle", "find", "insert"}
    PROVE  WellFormed' /\ pc' \notin {"crashed", "undefined"}
<1>1. Good(heap) /\ TypeOK /\ TypeOK' /\ RootNode' = RootNode
  <2>1. RootNode' = RootNode
    BY DEF Next, Run, Deleting, Ended, vars, Caller, CallFind, CallDelete, CallInsert, Call,
           FindDescend, FindReturn, InsertDescend, InsertAttach, InsertExisting,
           DeleteAbsent, DeleteLeaf, DeleteWithLeftChild, DeleteWithRightChild, Splice,
           DeleteWithTwoChildren, LeftMaxDescend, LeftMaxReplace, Return,
           WalkFault, LeftMaxFault, ParentFault, ChildFault, Fault
  <2> QED
    BY <2>1, NextIInv, GoodIsWellFormed DEF IInv
<1>2. SUFFICES Good(heap') /\ pc' \notin {"crashed", "undefined"}
  BY <1>1, GoodIsWellFormedNext
<1>3. SearchInv
  BY <1>1 DEF WalkInv
<1>4. CASE InsertAttach
  BY <1>1, <1>4, InsertKeepsTree DEF InsertAttach, Return
<1>5. CASE Caller \/ FindDescend \/ FindReturn \/ InsertDescend \/ InsertExisting
           \/ UNCHANGED vars
  <2>1. heap' = heap /\ pc' \notin {"crashed", "undefined"}
    BY <1>5 DEF Caller, CallFind, CallDelete, CallInsert, Call, FindDescend, FindReturn,
                InsertDescend, InsertExisting, Return, vars
  <2> QED
    BY <1>1, <2>1
<1>6. CASE Deleting \/ LeftMaxFault \/ ParentFault \/ ChildFault \/ Ended
  BY <1>6 DEF Deleting, DeleteAbsent, DeleteLeaf, DeleteWithLeftChild, DeleteWithRightChild,
              DeleteWithTwoChildren, LeftMaxDescend, LeftMaxReplace, Located,
              LeftMaxFault, ParentFault, ChildFault, Unlinking, Ended
<1>7. CASE WalkFault
  BY <1>3, <1>7 DEF WalkFault, Fault, SearchInv
<1> QED
  BY <1>4, <1>5, <1>6, <1>7 DEF Next, Run

\* The node that DeleteNode found is the one that HazardousKey speaks of.
LEMMA HazardOfFound ==
    ASSUME TypeOK, Good(heap), NEW n \in Live, heap[n].key = key,
           \A b \in Live : heap[b].key = key => b = n
    PROVE  HazardousKey(key) <=> Hazardous(n)
BY DEF HazardousKey

\* How a deletion ends that began with a good tree.
LEMMA DeleteIsExact ==
    ASSUME IInv, WalkInv, [Next]_vars, WellFormed, pc \in {"delete", "leftmax"},
           pc' \notin {"delete", "leftmax"}
    PROVE  (WellFormed' /\ pc' = "idle") <=> ~HazardousKey(key)
<1>1. Good(heap) /\ TypeOK /\ TypeOK' /\ LinkedIn(heap) /\ NULL \notin Live
  BY NextIInv, GoodIsWellFormed, HeapIsMemory DEF IInv, Good
<1>2. SearchInv /\ LeftMaxInv
  BY <1>1 DEF WalkInv
<1>3. ASSUME Located PROVE HazardousKey(key) <=> Hazardous(CurrentNode)
  <2>1. /\ CurrentNode \in Live /\ heap[CurrentNode].key = key
        /\ \A b \in Live : heap[b].key = key => b \in Sub(heap, CurrentNode)
    BY <1>2, <1>3 DEF Located, SearchInv
  <2>2. \A b \in Live : heap[b].key = key => b = CurrentNode
    BY <1>1, <2>1, FoundIsOnly
  <2> QED
    BY <1>1, <2>1, <2>2, HazardOfFound
<1>4. ASSUME pc = "leftmax" PROVE HazardousKey(key) <=> Hazardous(CurrentNode)
  BY <1>1, <1>2, <1>4, HazardOfFound DEF LeftMaxInv
<1>5. CASE DeleteAbsent
  <2>1. heap' = heap /\ pc' = "idle" /\ RootNode' = RootNode /\ CurrentNode = NULL /\ pc = "delete"
    BY <1>5 DEF DeleteAbsent, Return
  <2>2. Sub(heap, NULL) = {}
    BY <1>1, HeapIsMemory, SubOfNull
  <2>3. ~HazardousKey(key)
    BY <1>2, <2>1, <2>2 DEF SearchInv, HazardousKey
  <2>4. WellFormed'
    BY <1>1, <2>1, GoodIsWellFormedNext
  <2> QED
    BY <2>1, <2>3, <2>4
<1>6. CASE DeleteLeaf \/ DeleteWithLeftChild \/ DeleteWithRightChild
  <2>1. pc' = "idle" /\ RootNode' = RootNode /\ Located
    BY <1>6 DEF DeleteLeaf, DeleteWithLeftChild, DeleteWithRightChild, Splice, Return
  <2>2. Good(heap')
    BY <1>1, <1>6, UnlinkKeepsTree
  <2>3. ~HasTwoChildren(CurrentNode) /\ CurrentNode # RootNode
    BY <1>1, <1>6, DeleteUnlinks
  <2>4. ~Hazardous(CurrentNode)
    BY <2>3 DEF Hazardous
  <2> QED
    BY <1>3, <2>1, <2>2, <2>4, GoodIsWellFormedNext
<1>7. CASE LeftMaxReplace
  <2>1. pc' = "idle" /\ RootNode' = RootNode /\ pc = "leftmax"
    BY <1>7 DEF LeftMaxReplace, Return
  <2>2. Good(heap') <=> ~Hazardous(CurrentNode)
    BY <1>1, <1>2, <1>7, ReplaceKeepsTree, HazardousReplaceBreaks
  <2> QED
    BY <1>4, <2>1, <2>2, GoodIsWellFormedNext
<1>8. CASE WalkFault
  BY <1>2, <1>8 DEF WalkFault, Fault, SearchInv
<1>9. CASE LeftMaxFault
  <2>1. pc = "leftmax" /\ leftMaxNode \notin Live /\ pc' \in {"crashed", "undefined"}
    BY <1>9 DEF LeftMaxFault, Fault
  <2>2. Hazardous(CurrentNode)
    BY <1>2, <2>1 DEF LeftMaxInv
  <2> QED
    BY <1>4, <2>1, <2>2
<1>10. CASE ParentFault
  <2>1. PICK n \in Live : Unlinking(n) /\ Fault(heap[n].parent)
    BY <1>10 DEF ParentFault
  <2>2. pc' \in {"crashed", "undefined"} /\ heap[n].parent \notin Live
    BY <2>1 DEF Fault
  <2>3. n = RootNode
    BY <1>1, <2>2 DEF LinkedIn, Live
  <2>4. CASE Located /\ ~HasTwoChildren(CurrentNode) /\ n = CurrentNode
    BY <1>3, <2>2, <2>3, <2>4 DEF Hazardous
  <2>5. CASE pc = "leftmax" /\ n = leftMaxNode
    BY <1>1, <1>2, <2>3, <2>5, RootIsNoChild DEF LeftMaxInv
  <2> QED
    BY <2>1, <2>4, <2>5 DEF Unlinking
<1>11. CASE ChildFault
  BY <1>1, <1>11 DEF ChildFault, Located, Fault, LinkedIn, Live
<1>12. CASE DeleteWithTwoChildren \/ LeftMaxDescend \/ UNCHANGED vars
  BY <1>12 DEF DeleteWithTwoChildren, LeftMaxDescend, vars
<1>13. CASE Caller \/ FindReturn \/ InsertDescend \/ InsertAttach \/ InsertExisting \/ Ended
  BY <1>13 DEF Caller, CallFind, CallDelete, CallInsert, Call, FindReturn, InsertDescend,
               InsertAttach, InsertExisting, Ended
<1>14. CASE FindDescend
  BY <1>14 DEF FindDescend
<1> QED
  BY <1>5, <1>6, <1>7, <1>8, <1>9, <1>10, <1>11, <1>12, <1>13, <1>14 DEF Next, Run, Deleting

-----------------------------------------------------------------------------
(* Theorems about every caller *)

LEMMA SpecInvariants == Spec => [](IInv /\ WalkInv)
BY InitIInv, InitWalk, NextIInv, NextWalk, PTL DEF Spec

\* find and insert never damage a well formed tree and never fault on one, whatever
\* was called before.
THEOREM OnlyDeleteDamages == Spec => OnlyDeleteBreaks
<1>1. IInv /\ WalkInv /\ [Next]_vars
        => [WellFormed /\ pc \in {"idle", "find", "insert"}
              => WellFormed' /\ pc' \notin {"crashed", "undefined"}]_vars
  BY FindAndInsert
<1> QED
  BY <1>1, SpecInvariants, PTL DEF Spec, OnlyDeleteBreaks

\* DeleteNode returns with a well formed tree exactly if the shape of the tree is none
\* of the three that Hazardous describes.
THEOREM HazardIsExact == Spec => DeleteBreaksExactlyOnHazard
<1>1. IInv /\ WalkInv /\ [Next]_vars
        => [WellFormed /\ pc \in {"delete", "leftmax"} /\ pc' \notin {"delete", "leftmax"}
              => ((WellFormed' /\ pc' = "idle") <=> ~HazardousKey(key))]_vars
  BY DeleteIsExact
<1> QED
  BY <1>1, SpecInvariants, PTL DEF Spec, DeleteBreaksExactlyOnHazard

-----------------------------------------------------------------------------
(* Theorems about callers who keep to the contract *)

\* Under the contract a deletion under way is never hazardous.
ContractInv ==
    /\ IInv /\ WalkInv
    /\ WellFormed
    /\ NoFault
    /\ pc \in {"delete", "leftmax"} => ~HazardousKey(key)

LEMMA ContractSteps == ContractInv /\ [ContractNext]_vars => ContractInv'
<1> SUFFICES ASSUME ContractInv, [ContractNext]_vars PROVE ContractInv'
  OBVIOUS
<1> USE DEF ContractInv
<1>1. [Next]_vars
  BY DEF ContractNext
<1>2. IInv' /\ WalkInv'
  BY <1>1, NextIInv, NextWalk
<1>3. pc \in {"idle", "find", "insert", "delete", "leftmax"}
  BY DEF NoFault, IInv, TypeOK
<1>4. CASE pc' \in {"delete", "leftmax"}
  <2>1. heap' = heap /\ RootNode' = RootNode
    BY <1>1, <1>4
    DEF Next, Run, Deleting, Ended, vars, Caller, CallFind, CallDelete, CallInsert, Call,
        FindDescend, FindReturn, InsertDescend, InsertAttach, InsertExisting,
        DeleteAbsent, DeleteLeaf, DeleteWithLeftChild, DeleteWithRightChild, Splice,
        DeleteWithTwoChildren, LeftMaxDescend, LeftMaxReplace, Return,
        WalkFault, LeftMaxFault, ParentFault, ChildFault, Fault
  <2>2. WellFormed'
    BY <2>1, GoodIsWellFormed, GoodIsWellFormedNext
  <2>3. HazardousKey(key)' <=> HazardousKey(key')
    BY <2>1 DEF HazardousKey, Hazardous, HasTwoChildren, Subtree, Closed, Children, Live
  <2>4. \/ pc = "idle" /\ pc' = "delete"
        \/ pc \in {"delete", "leftmax"} /\ key' = key
    <3>1. CASE Caller
      BY <1>4, <3>1 DEF Caller, CallFind, CallDelete, CallInsert, Call
    <3>2. CASE ~Caller
      BY <1>1, <1>4, <3>2
      DEF Next, Run, Deleting, Ended, vars,
          FindDescend, FindReturn, InsertDescend, InsertAttach, InsertExisting,
          DeleteAbsent, DeleteLeaf, DeleteWithLeftChild, DeleteWithRightChild, Splice,
          DeleteWithTwoChildren, Located, LeftMaxDescend, LeftMaxReplace, Return,
          WalkFault, LeftMaxFault, ParentFault, ChildFault, Fault
    <3> QED
      BY <3>1, <3>2
  <2>5. pc = "idle" /\ pc' = "delete" => ~HazardousKey(key')
    BY DEF ContractNext, vars
  <2>6. ~HazardousKey(key')
    BY <2>4, <2>5
  <2> QED
    BY <1>2, <1>4, <2>2, <2>3, <2>6 DEF NoFault
<1>5. CASE pc' \notin {"delete", "leftmax"} /\ pc \in {"idle", "find", "insert"}
  BY <1>1, <1>2, <1>5, FindAndInsert DEF NoFault
<1>6. CASE pc' \notin {"delete", "leftmax"} /\ pc \in {"delete", "leftmax"}
  BY <1>1, <1>2, <1>6, DeleteIsExact DEF NoFault
<1> QED
  BY <1>3, <1>4, <1>5, <1>6

LEMMA ContractInvHolds == ContractSpec => []ContractInv
<1>1. Init => ContractInv
  BY InitIInv, InitWalk, InitGood, GoodIsWellFormed DEF ContractInv, NoFault, Init
<1> QED
  BY <1>1, ContractSteps, PTL DEF ContractSpec

\* A caller who never asks for a hazardous deletion has a search tree after every step
\* of every call: linked, ordered, with no node lost.
THEOREM ContractKeepsTree == ContractSpec => []WellFormed
BY ContractInvHolds, PTL DEF ContractInv

\* And the program never dereferences null and never touches freed memory for it.
THEOREM ContractNeverFaults == ContractSpec => []NoFault
BY ContractInvHolds, PTL DEF ContractInv

\* The loops close in on what they look for.
THEOREM ContractWalksNarrow == ContractSpec => []WalkNarrows
<1>1. ContractInv => WalkNarrows
  <2> SUFFICES ASSUME ContractInv PROVE WalkNarrows
    OBVIOUS
  <2>1. Good(heap) /\ SearchInv /\ LeftMaxInv
    BY GoodIsWellFormed DEF ContractInv, WalkInv
  <2>2. ASSUME pc \in {"find", "insert", "delete"}, key \in Keys
        PROVE  \E b \in Subtree(CurrentNode) : heap[b].key = key
    <3>1. PICK a \in Sub(heap, RootNode) : heap[a].key = key
      BY <2>2, SubIsSubtree DEF Keys
    <3>2. a \in Live
      BY <3>1, SubIsClosed DEF Live
    <3> QED
      BY <2>1, <2>2, <3>1, <3>2, SubIsSubtree DEF SearchInv
  <2>3. ASSUME pc = "leftmax", NEW b \in Subtree(heap[CurrentNode].left)
        PROVE  \/ b \in Subtree(leftMaxNode)
               \/ \E m \in Subtree(leftMaxNode) : heap[b].key < heap[m].key
    <3>1. ~Hazardous(CurrentNode)
      BY <2>1, <2>3 DEF LeftMaxInv, ContractInv, HazardousKey
    <3>2. leftMaxNode \in Live
      BY <2>1, <2>3, <3>1 DEF LeftMaxInv
    <3> QED
      BY <2>1, <2>3, <3>2, SubIsSubtree DEF LeftMaxInv
  <2> QED
    BY <2>2, <2>3 DEF WalkNarrows
<1> QED
  BY <1>1, ContractInvHolds, PTL


-----------------------------------------------------------------------------
(* The map that is in a memory *)

\* No two nodes have the same key.
UniqueIn(h) == \A a, b \in DOMAIN h : h[a].key = h[b].key => a = b

MapOf(h) ==
    [k \in {h[a].key : a \in DOMAIN h} |-> h[CHOOSE a \in DOMAIN h : h[a].key = k].value]

LEMMA MapNowIsMapOf == MapNow = MapOf(heap) /\ MapNow' = MapOf(heap')
<1>1. MapNow = MapOf(heap)
  BY DEF MapNow, MapOf, NodeOf, Live
<1>2. MapNow' = MapOf(heap')
  BY DEF MapNow, MapOf, NodeOf, Live
<1> QED
  BY <1>1, <1>2

\* If keys are unique the map gives every node's key its value.
LEMMA MapOfUnique ==
    ASSUME NEW h, UniqueIn(h)
    PROVE  /\ DOMAIN MapOf(h) = {h[a].key : a \in DOMAIN h}
           /\ \A a \in DOMAIN h : MapOf(h)[h[a].key] = h[a].value
<1>1. ASSUME NEW a \in DOMAIN h PROVE MapOf(h)[h[a].key] = h[a].value
  <2>1. (CHOOSE b \in DOMAIN h : h[b].key = h[a].key) = a
    BY DEF UniqueIn
  <2> QED
    BY <2>1 DEF MapOf
<1>2. DOMAIN MapOf(h) = {h[a].key : a \in DOMAIN h}
  BY DEF MapOf
<1> QED
  BY <1>1, <1>2

\* A function that does so is the map.
LEMMA MapOfIs ==
    ASSUME NEW h, UniqueIn(h), NEW f, f = [k \in DOMAIN f |-> f[k]],
           DOMAIN f = {h[a].key : a \in DOMAIN h},
           \A a \in DOMAIN h : f[h[a].key] = h[a].value
    PROVE  MapOf(h) = f
<1>1. DOMAIN MapOf(h) = DOMAIN f
  BY MapOfUnique
<1>2. ASSUME NEW k \in DOMAIN f PROVE MapOf(h)[k] = f[k]
  <2>1. PICK a \in DOMAIN h : k = h[a].key
    BY <1>2
  <2> QED
    BY <2>1, MapOfUnique
<1>3. MapOf(h) = [k \in DOMAIN MapOf(h) |-> MapOf(h)[k]]
  BY DEF MapOf
<1> QED
  BY <1>1, <1>2, <1>3

-----------------------------------------------------------------------------
(* What the writes do to the map *)

\* The function f, with v for k if it had nothing for k.
Extended(f, k, v) == [l \in DOMAIN f \cup {k} |-> IF l \in DOMAIN f THEN f[l] ELSE v]

\* A new leaf with the pair <<k, v>> of a key that was not there.
LEMMA GrownMap ==
    ASSUME NEW h, NEW g, UniqueIn(h), NEW a,
           DOMAIN g = DOMAIN h \cup {a}, a \notin DOMAIN h,
           SamePairs(g, h), \A b \in DOMAIN h : h[b].key # g[a].key
    PROVE  /\ UniqueIn(g)
           /\ g[a].key \notin DOMAIN MapOf(h)
           /\ MapOf(g) = Extended(MapOf(h), g[a].key, g[a].value)
<1> DEFINE f == Extended(MapOf(h), g[a].key, g[a].value)
<1>1. UniqueIn(g)
  BY DEF UniqueIn, SamePairs
<1>2. /\ DOMAIN MapOf(h) = {h[b].key : b \in DOMAIN h}
      /\ \A b \in DOMAIN h : MapOf(h)[h[b].key] = h[b].value
  BY MapOfUnique
<1>3. g[a].key \notin DOMAIN MapOf(h)
  BY <1>2
<1>4. DOMAIN f = {g[b].key : b \in DOMAIN g}
  BY <1>2 DEF SamePairs, Extended
<1>5. \A b \in DOMAIN g : f[g[b].key] = g[b].value
  BY <1>2, <1>3 DEF SamePairs, Extended
<1>6. f = [k \in DOMAIN f |-> f[k]]
  BY DEF Extended
<1> HIDE DEF f
<1>7. MapOf(g) = f
  BY <1>1, <1>4, <1>5, <1>6, MapOfIs
<1> QED
  BY <1>1, <1>3, <1>7 DEF f

\* The nodes of g have the pairs of the nodes of h but n, each that of pos[b].
PairsMoved(h, g, n, pos) ==
    /\ \A b \in DOMAIN g : /\ pos[b] \in DOMAIN h \ {n}
                           /\ g[b].key = h[pos[b]].key /\ g[b].value = h[pos[b]].value
    /\ \A b, c \in DOMAIN g : pos[b] = pos[c] => b = c
    /\ \A d \in DOMAIN h \ {n} : \E b \in DOMAIN g : pos[b] = d

\* The pair of node n goes; the others stay, be it in another node.
LEMMA ShrunkMap ==
    ASSUME NEW h, NEW g, UniqueIn(h), NEW n \in DOMAIN h, NEW pos, PairsMoved(h, g, n, pos)
    PROVE  /\ UniqueIn(g)
           /\ h[n].key \in DOMAIN MapOf(h)
           /\ MapOf(g) = Restrict(MapOf(h), DOMAIN MapOf(h) \ {h[n].key})
<1> DEFINE f == Restrict(MapOf(h), DOMAIN MapOf(h) \ {h[n].key})
<1>1. UniqueIn(g)
  BY DEF UniqueIn, PairsMoved
<1>2. /\ DOMAIN MapOf(h) = {h[b].key : b \in DOMAIN h}
      /\ \A b \in DOMAIN h : MapOf(h)[h[b].key] = h[b].value
  BY MapOfUnique
<1>3. DOMAIN f = {g[b].key : b \in DOMAIN g}
  BY <1>2 DEF Restrict, UniqueIn, PairsMoved
<1>4. ASSUME NEW b \in DOMAIN g PROVE f[g[b].key] = g[b].value
  <2>1. g[b].key \in DOMAIN f
    BY <1>3
  <2>2. f[g[b].key] = MapOf(h)[g[b].key]
    BY <2>1 DEF Restrict
  <2> QED
    BY <1>2, <2>2 DEF PairsMoved
<1>5. f = [k \in DOMAIN f |-> f[k]]
  BY DEF Restrict
<1> HIDE DEF f
<1>6. MapOf(g) = f
  BY <1>1, <1>3, <1>4, <1>5, MapOfIs
<1> QED
  BY <1>1, <1>2, <1>6 DEF f

-----------------------------------------------------------------------------
(* The steps of the code in the map *)

TreeInv == ContractInv /\ UniqueIn(heap)

\* A search of a good tree that finds the key finds the pair of the map; one that ends
\* at null has a key that the map does not have.
LEMMA SearchEnds ==
    ASSUME TreeInv, pc \in {"find", "insert", "delete"}
    PROVE  /\ CurrentNode = NULL => key \notin DOMAIN MapNow
           /\ CurrentNode \in Live /\ heap[CurrentNode].key = key
                 => key \in DOMAIN MapNow /\ MapNow[key] = heap[CurrentNode].value
           /\ CurrentNode \in Live /\ heap[CurrentNode].key # key
                 /\ Toward(CurrentNode, key) = NULL
                 => \A b \in Live : heap[b].key # key
<1>1. /\ TypeOK /\ Good(heap) /\ SearchInv /\ UniqueIn(heap)
      /\ Sub(heap, NULL) = {} /\ MapNow = MapOf(heap)
  BY GoodIsWellFormed, HeapIsMemory, SubOfNull, MapNowIsMapOf
  DEF TreeInv, ContractInv, IInv, WalkInv
<1>2. /\ DOMAIN MapNow = {heap[b].key : b \in Live}
      /\ \A b \in Live : MapNow[heap[b].key] = heap[b].value
  BY <1>1, MapOfUnique DEF Live
<1>3. \A b \in Live : heap[b].key = key => b \in Sub(heap, CurrentNode)
  BY <1>1 DEF SearchInv
<1>4. CurrentNode = NULL => key \notin DOMAIN MapNow
  BY <1>1, <1>2, <1>3
<1>5. CurrentNode \in Live /\ heap[CurrentNode].key = key
         => key \in DOMAIN MapNow /\ MapNow[key] = heap[CurrentNode].value
  BY <1>2
<1>6. ASSUME CurrentNode \in Live, heap[CurrentNode].key # key, Toward(CurrentNode, key) = NULL
      PROVE  \A b \in Live : heap[b].key # key
  BY <1>1, <1>3, <1>6, TowardHoldsKey
<1> QED
  BY <1>4, <1>5, <1>6

\* find answers with the pair of the map, or that there is none.
LEMMA FindIsFind ==
    ASSUME TreeInv, FindReturn
    PROVE  UniqueIn(heap') /\ Map!Find
<1>1. /\ pc = "find" /\ pc' = "idle" /\ heap' = heap /\ ret' = CurrentNode
      /\ CurrentNode = NULL \/ (CurrentNode \in Live /\ heap[CurrentNode].key = key)
      /\ UNCHANGED <<key, value>>
  BY DEF FindReturn, Return
<1>2. MapNow' = MapNow /\ NULL \notin Live /\ Live' = Live
  BY <1>1, MapNowIsMapOf, HeapIsMemory DEF TreeInv, ContractInv, IInv, Live
<1>3. CallNow = "find" /\ CallNow' = "idle"
  BY <1>1 DEF CallNow
<1>4. AnswerNow' = IF key \in DOMAIN MapNow THEN [key |-> key, value |-> MapNow[key]] ELSE NULL
  BY <1>1, <1>2, SearchEnds DEF AnswerNow
<1> QED
  BY <1>1, <1>2, <1>3, <1>4 DEF Map!Find, Map!Answer, Map!Entry, TreeInv

\* insert of a key that is there.
LEMMA InsertExistingIsInsert ==
    ASSUME TreeInv, InsertExisting
    PROVE  UniqueIn(heap') /\ Map!Insert
<1>1. /\ pc = "insert" /\ pc' = "idle" /\ heap' = heap /\ ret' = CurrentNode
      /\ CurrentNode \in Live /\ heap[CurrentNode].key = key
      /\ UNCHANGED <<key, value>>
  BY DEF InsertExisting, Return
<1>2. MapNow' = MapNow /\ Live' = Live
  BY <1>1, MapNowIsMapOf DEF Live
<1>3. CallNow = "insert" /\ CallNow' = "idle"
  BY <1>1 DEF CallNow
<1>4. key \in DOMAIN MapNow /\ MapNow[key] = heap[CurrentNode].value
  BY <1>1, SearchEnds
<1>5. AnswerNow' = [key |-> key, value |-> MapNow[key]]
  BY <1>1, <1>2, <1>4 DEF AnswerNow
<1>6. MapNow = [k \in DOMAIN MapNow \cup {key} |->
                   IF k \in DOMAIN MapNow THEN MapNow[k] ELSE value]
  <2>1. MapNow = [k \in DOMAIN MapNow |-> MapNow[k]]
    BY DEF MapNow
  <2> QED
    BY <1>4, <2>1
<1> QED
  BY <1>1, <1>2, <1>3, <1>5, <1>6 DEF Map!Insert, Map!Answer, Map!Entry, TreeInv

\* insert of a key that is not there.
LEMMA InsertAttachIsInsert ==
    ASSUME TreeInv, InsertAttach
    PROVE  UniqueIn(heap') /\ Map!Insert
<1>1. /\ pc = "insert" /\ pc' = "idle" /\ UNCHANGED <<key, value>>
      /\ CurrentNode \in Live /\ heap[CurrentNode].key # key /\ Toward(CurrentNode, key) = NULL
  BY DEF InsertAttach, Return
<1>2. PICK a : /\ Grown(heap, heap', CurrentNode, a) /\ ret' = a
               /\ heap'[a].key = key /\ heap'[a].value = value
               /\ \A b \in Live : heap'[b].value = heap[b].value
  BY InsertGrows DEF TreeInv, ContractInv, IInv
<1>3. /\ DOMAIN heap' = DOMAIN heap \cup {a} /\ a \notin DOMAIN heap
      /\ SamePairs(heap', heap)
  BY <1>2 DEF Grown, SamePairs, Live
<1>4. \A b \in DOMAIN heap : heap[b].key # key
  BY <1>1, SearchEnds DEF Live
<1>5. /\ UniqueIn(heap')
      /\ key \notin DOMAIN MapNow
      /\ MapNow' = [k \in DOMAIN MapNow \cup {key} |->
                       IF k \in DOMAIN MapNow THEN MapNow[k] ELSE value]
  <2>1. UniqueIn(heap) /\ \A b \in DOMAIN heap : heap[b].key # heap'[a].key
    BY <1>2, <1>4 DEF TreeInv
  <2>2. /\ UniqueIn(heap')
        /\ heap'[a].key \notin DOMAIN MapOf(heap)
        /\ MapOf(heap') = Extended(MapOf(heap), heap'[a].key, heap'[a].value)
    BY <1>3, <2>1, GrownMap
  <2> QED
    BY <1>2, <2>2, MapNowIsMapOf DEF Extended
<1>6. CallNow = "insert" /\ CallNow' = "idle"
  BY <1>1 DEF CallNow
<1>7. AnswerNow' = [key |-> key, value |-> MapNow'[key]]
  BY <1>2, <1>3, <1>5 DEF AnswerNow, Live
<1> QED
  BY <1>1, <1>5, <1>6, <1>7 DEF Map!Insert, Map!Answer, Map!Entry

\* DeleteNode of a key that is not there.
LEMMA DeleteAbsentIsDelete ==
    ASSUME TreeInv, DeleteAbsent
    PROVE  UniqueIn(heap') /\ Map!Delete
<1>1. /\ pc = "delete" /\ pc' = "idle" /\ heap' = heap /\ ret' = NULL
      /\ CurrentNode = NULL /\ UNCHANGED <<key, value>>
  BY DEF DeleteAbsent, Return
<1>2. MapNow' = MapNow /\ NULL \notin Live /\ Live' = Live
  BY <1>1, MapNowIsMapOf, HeapIsMemory DEF TreeInv, ContractInv, IInv, Live
<1>3. CallNow = "delete" /\ CallNow' = "idle"
  BY <1>1 DEF CallNow
<1>4. AnswerNow' = NULL /\ key \notin DOMAIN MapNow
  BY <1>1, <1>2, SearchEnds DEF AnswerNow
<1>5. MapNow = Map!Restrict(MapNow, DOMAIN MapNow \ {key})
  <2>1. MapNow = [k \in DOMAIN MapNow |-> MapNow[k]]
    BY DEF MapNow
  <2> QED
    BY <1>4, <2>1 DEF Map!Restrict
<1> QED
  BY <1>1, <1>2, <1>3, <1>4, <1>5 DEF Map!Delete, Map!Answer, TreeInv

\* DeleteNode of a key that is there, when the node of the key, or the one that takes
\* its pair, is freed.
LEMMA DeleteIsDelete ==
    ASSUME TreeInv, DeleteLeaf \/ DeleteWithLeftChild \/ DeleteWithRightChild \/ LeftMaxReplace
    PROVE  UniqueIn(heap') /\ Map!Delete
<1>1. /\ pc \in {"delete", "leftmax"} /\ pc' = "idle" /\ ret' = Indeterminate
      /\ UNCHANGED <<key, value>>
  BY DEF DeleteLeaf, DeleteWithLeftChild, DeleteWithRightChild, Splice, LeftMaxReplace,
         Located, Return
<1>2. /\ TypeOK /\ Good(heap) /\ SearchInv /\ LeftMaxInv /\ UniqueIn(heap)
      /\ ~HazardousKey(key)
  BY <1>1, GoodIsWellFormed DEF TreeInv, ContractInv, IInv, WalkInv
<1>3. TypeOK'
  BY NextIInv DEF TreeInv, ContractInv, IInv, Next, Run, Deleting
<1>4. /\ CurrentNode \in Live /\ heap[CurrentNode].key = key
      /\ UniqueIn(heap')
      /\ key \in DOMAIN MapOf(heap)
      /\ MapOf(heap') = Restrict(MapOf(heap), DOMAIN MapOf(heap) \ {key})
  <2>1. CASE DeleteLeaf \/ DeleteWithLeftChild \/ DeleteWithRightChild
    <3> DEFINE pos == [b \in Live' |-> b]
    <3>1. /\ CurrentNode \in Live /\ heap[CurrentNode].key = key
          /\ DOMAIN heap' = DOMAIN heap \ {CurrentNode}
          /\ SamePairs(heap, heap')
      BY <1>2, <2>1, DeleteUnlinks DEF Good, Unlinked
    <3>2. \A b \in DOMAIN heap' :
             /\ pos[b] \in DOMAIN heap \ {CurrentNode}
             /\ heap'[b].key = heap[pos[b]].key /\ heap'[b].value = heap[pos[b]].value
      BY <3>1 DEF SamePairs, Live
    <3>3. \A b, c \in DOMAIN heap' : pos[b] = pos[c] => b = c
      BY DEF Live
    <3>4. \A d \in DOMAIN heap \ {CurrentNode} : \E b \in DOMAIN heap' : pos[b] = d
      BY <3>1 DEF Live
    <3>10. CurrentNode \in DOMAIN heap
      BY <3>1 DEF Live
    <3>11. PairsMoved(heap, heap', CurrentNode, pos)
      BY <3>2, <3>3, <3>4 DEF PairsMoved
    <3>12. /\ UniqueIn(heap')
          /\ heap[CurrentNode].key \in DOMAIN MapOf(heap)
          /\ MapOf(heap') = Restrict(MapOf(heap), DOMAIN MapOf(heap) \ {heap[CurrentNode].key})
      BY <1>2, <3>10, <3>11, ShrunkMap
    <3> QED
      BY <3>1, <3>12
  <2>2. CASE LeftMaxReplace
    <3> DEFINE pos == [b \in Live' |-> IF b = CurrentNode THEN leftMaxNode ELSE b]
    <3>1. /\ CurrentNode \in Live /\ leftMaxNode \in Live /\ leftMaxNode # CurrentNode
      BY <1>2, <2>2, ReplacementIsLargest
    <3>2. pc = "leftmax" /\ heap[CurrentNode].key = key
      BY <1>2, <2>2 DEF LeftMaxReplace, LeftMaxInv
    <3>3. ~Hazardous(CurrentNode)
      BY <1>2, <3>1, <3>2 DEF HazardousKey
    <3>4. heap[heap[leftMaxNode].parent].right = leftMaxNode
      BY <1>2, <2>2, <3>3, ReplacementIsRightChild
    <3>5. /\ Unlinked(heap, heap', leftMaxNode, NULL)
          /\ \A b \in Live' :
                LET from == IF b = CurrentNode THEN leftMaxNode ELSE b
                IN  heap'[b].key = heap[from].key /\ heap'[b].value = heap[from].value
      BY <1>2, <2>2, <3>1, <3>4, ReplaceUnlinks DEF Good
    <3>6. DOMAIN heap' = DOMAIN heap \ {leftMaxNode}
      BY <3>5 DEF Unlinked
    <3>7. \A b \in DOMAIN heap' :
             /\ pos[b] \in DOMAIN heap \ {CurrentNode}
             /\ heap'[b].key = heap[pos[b]].key /\ heap'[b].value = heap[pos[b]].value
      BY <3>1, <3>5, <3>6 DEF Live
    <3>8. \A b, c \in DOMAIN heap' : pos[b] = pos[c] => b = c
      BY <3>6 DEF Live
    <3>9. \A d \in DOMAIN heap \ {CurrentNode} : \E b \in DOMAIN heap' : pos[b] = d
      <4> TAKE d \in DOMAIN heap \ {CurrentNode}
      <4>1. CASE d = leftMaxNode
        BY <3>1, <3>6, <4>1 DEF Live
      <4>2. CASE d # leftMaxNode
        BY <3>6, <4>2 DEF Live
      <4> QED
        BY <4>1, <4>2
    <3>10. CurrentNode \in DOMAIN heap
      BY <3>1 DEF Live
    <3>11. PairsMoved(heap, heap', CurrentNode, pos)
      BY <3>7, <3>8, <3>9 DEF PairsMoved
    <3>12. /\ UniqueIn(heap')
          /\ heap[CurrentNode].key \in DOMAIN MapOf(heap)
          /\ MapOf(heap') = Restrict(MapOf(heap), DOMAIN MapOf(heap) \ {heap[CurrentNode].key})
      BY <1>2, <3>10, <3>11, ShrunkMap
    <3> QED
      BY <3>1, <3>12, <3>2
  <2> QED
    BY <2>1, <2>2
<1>5. MapNow' = Map!Restrict(MapNow, DOMAIN MapNow \ {key}) /\ key \in DOMAIN MapNow
  BY <1>4, MapNowIsMapOf DEF Map!Restrict, Restrict
<1>6. AnswerNow' = Indeterminate
  BY <1>1, <1>3, AddrAssumption DEF AnswerNow, TypeOK
<1>7. CallNow = "delete" /\ CallNow' = "idle"
  BY <1>1 DEF CallNow
<1> QED
  BY <1>1, <1>4, <1>5, <1>6, <1>7 DEF Map!Delete, Map!Answer

-----------------------------------------------------------------------------
(* The refinement *)

LEMMA InitIsMapInit == Init => TreeInv /\ Map!Init
<1> SUFFICES ASSUME Init PROVE TreeInv /\ Map!Init
  OBVIOUS
<1>1. ContractInv
  BY InitIInv, InitWalk, InitGood, GoodIsWellFormed DEF ContractInv, NoFault, Init
<1>2. /\ DOMAIN heap = {RootNode} /\ heap[RootNode].key = key /\ heap[RootNode].value = value
      /\ pc = "idle" /\ ret = NULL /\ key \in Key /\ value \in Value
  BY DEF Init, BSTNode
<1>3. UniqueIn(heap)
  BY <1>2 DEF UniqueIn
<1>4. MapNow = [k \in {key} |-> value]
  <2> DEFINE f == [k \in {key} |-> value]
  <2>1. f = [k \in DOMAIN f |-> f[k]] /\ DOMAIN f = {heap[a].key : a \in DOMAIN heap}
    BY <1>2
  <2>2. \A a \in DOMAIN heap : f[heap[a].key] = heap[a].value
    BY <1>2
  <2> HIDE DEF f
  <2>3. MapOf(heap) = f
    BY <1>3, <2>1, <2>2, MapOfIs
  <2> QED
    BY <2>3, MapNowIsMapOf DEF f
<1>5. CallNow = "idle" /\ AnswerNow = NULL
  BY <1>2, <1>1, HeapIsMemory DEF CallNow, AnswerNow, ContractInv, IInv
<1> QED
  BY <1>1, <1>2, <1>3, <1>4, <1>5 DEF TreeInv, Map!Init

\* A caller's call.
LEMMA CallerIsInvoke ==
    ASSUME TreeInv, Caller
    PROVE  UniqueIn(heap') /\ Map!Invoke
<1>1. /\ pc = "idle" /\ pc' \in {"find", "insert", "delete"} /\ ret' = NULL /\ heap' = heap
      /\ key' \in Key
  BY DEF Caller, CallFind, CallInsert, CallDelete, Call
<1>2. TypeOK /\ NULL \notin Live /\ Live' = Live
  BY <1>1, HeapIsMemory DEF TreeInv, ContractInv, IInv, Live
<1>3. value' \in Value
  BY <1>2 DEF Caller, CallFind, CallInsert, CallDelete, TypeOK
<1>4. MapNow' = MapNow
  BY <1>1, MapNowIsMapOf
<1>5. CallNow = "idle" /\ CallNow' \in {"find", "insert", "delete"} /\ AnswerNow' = NULL
  BY <1>1, <1>2 DEF CallNow, AnswerNow
<1> QED
  BY <1>1, <1>3, <1>4, <1>5 DEF Map!Invoke, TreeInv

\* Every other step of the code is invisible in the map.
LEMMA WalkIsInvisible ==
    ASSUME TreeInv, \/ FindDescend \/ InsertDescend \/ DeleteWithTwoChildren \/ LeftMaxDescend
                    \/ Ended \/ UNCHANGED vars
    PROVE  UniqueIn(heap') /\ UNCHANGED Map!vars
<1>1. /\ heap' = heap /\ ret' = ret /\ UNCHANGED <<key, value>>
      /\ pc' = pc \/ (pc = "delete" /\ pc' = "leftmax")
  BY DEF FindDescend, InsertDescend, DeleteWithTwoChildren, Located, LeftMaxDescend, Ended, vars
<1>2. MapNow' = MapNow /\ CallNow' = CallNow /\ AnswerNow' = AnswerNow
  BY <1>1, MapNowIsMapOf DEF CallNow, AnswerNow, Live
<1> QED
  BY <1>1, <1>2 DEF Map!vars, TreeInv

LEMMA NextIsMapNext == TreeInv /\ [ContractNext]_vars => TreeInv' /\ [Map!Next]_(Map!vars)
<1> SUFFICES ASSUME TreeInv, [ContractNext]_vars
             PROVE  TreeInv' /\ [Map!Next]_(Map!vars)
  OBVIOUS
<1>1. ContractInv'
  BY ContractSteps DEF TreeInv
<1>2. ~(WalkFault \/ LeftMaxFault \/ ParentFault \/ ChildFault)
  BY <1>1 DEF ContractInv, NoFault, WalkFault, LeftMaxFault, ParentFault, ChildFault, Fault
<1>3. UniqueIn(heap') /\ [Map!Next]_(Map!vars)
  <2>1. CASE Caller
    BY <2>1, CallerIsInvoke DEF Map!Next
  <2>2. CASE FindReturn
    BY <2>2, FindIsFind DEF Map!Next
  <2>3. CASE InsertAttach
    BY <2>3, InsertAttachIsInsert DEF Map!Next
  <2>4. CASE InsertExisting
    BY <2>4, InsertExistingIsInsert DEF Map!Next
  <2>5. CASE DeleteAbsent
    BY <2>5, DeleteAbsentIsDelete DEF Map!Next
  <2>6. CASE DeleteLeaf \/ DeleteWithLeftChild \/ DeleteWithRightChild \/ LeftMaxReplace
    BY <2>6, DeleteIsDelete DEF Map!Next
  <2>7. CASE \/ FindDescend \/ InsertDescend \/ DeleteWithTwoChildren \/ LeftMaxDescend
             \/ Ended \/ UNCHANGED vars
    BY <2>7, WalkIsInvisible
  <2> QED
    BY <1>2, <2>1, <2>2, <2>3, <2>4, <2>5, <2>6, <2>7 DEF ContractNext, Next, Run, Deleting
<1> QED
  BY <1>1, <1>3 DEF TreeInv

\* The tree is a map for every caller who keeps to the contract: find answers with what
\* was inserted first under the key and not deleted since, insert never overwrites, and
\* DeleteNode takes away one key and no other, wherever in the tree its node is.
THEOREM TreeIsMap == ContractSpec => ImplementsMap
<1> USE DEF ImplementsMap, ContractSpec, Map!Spec
<1> QED
  BY InitIsMapInit, NextIsMapNext, PTL

=============================================================================
