--------------------------- MODULE AVLTreeProofs ---------------------------
(***************************************************************************)
(* Theorems about MeasureHeights and printTree of AVLTree, for every tree  *)
(* that callers who keep to the contract can build, and every garbage that *)
(* is in the heights of new nodes.                                         *)
(*                                                                         *)
(* What holds of every node is proved from the leaves upwards (LowestOf),  *)
(* what holds of every level of the picture from the root downwards        *)
(* (LevelByLevel).                                                         *)
(***************************************************************************)
EXTENDS AVLTree, TreeContractProofs, FiniteSetTheorems, FunctionTheorems, NaturalsInduction

-----------------------------------------------------------------------------
(* Induction on the tree *)

\* Nothing is below itself, and nothing is on both sides of a node.
LEMMA SidesAreApart ==
    ASSUME NEW h, IsMemory(h), OrderedIn(h), NEW a \in DOMAIN h
    PROVE  /\ a \notin Sub(h, h[a].left) /\ a \notin Sub(h, h[a].right)
           /\ Sub(h, h[a].left) \cap Sub(h, h[a].right) = {}
<1>1. \A b \in DOMAIN h : h[b].key \in Int
  BY KeyAssumption DEF IsMemory, Node
<1>2. Sub(h, h[a].left) \subseteq DOMAIN h /\ Sub(h, h[a].right) \subseteq DOMAIN h
  BY SubIsClosed
<1> QED
  BY <1>1, <1>2 DEF OrderedIn

\* A set of nodes of a finite tree has a lowest one: a claim about the nodes that fails
\* for one of them fails for one below which it holds.
LEMMA LowestOf ==
    ASSUME NEW h, IsMemory(h), OrderedIn(h), IsFiniteSet(DOMAIN h),
           NEW T, T \subseteq DOMAIN h, T # {}
    PROVE  \E a \in T : T \cap (Sub(h, h[a].left) \cup Sub(h, h[a].right)) = {}
<1> DEFINE D == DOMAIN h
           U == {Sub(h, a) : a \in T}
<1>1. U \subseteq FiniteSubsetsOf(D) /\ U # {}
  BY SubIsClosed, FS_FiniteSubsetsOfFinite
<1>2. PICK S \in U : \A R \in U : ~(<<R, S>> \in StrictSubsetOrdering(D))
  <2> HIDE DEF U, D
  <2> QED
    BY <1>1, WFMin, FS_StrictSubsetOrderingWellFounded
<1>3. PICK a \in T : S = Sub(h, a)
  OBVIOUS
<1>4. ASSUME NEW c \in {h[a].left, h[a].right}, NEW b \in T \cap Sub(h, c) PROVE FALSE
  <2>1. Sub(h, b) \subseteq Sub(h, c)
    BY SubIsTransitive
  <2>2. Sub(h, c) \subseteq Sub(h, a) /\ a \in Sub(h, a) /\ a \notin Sub(h, c)
    BY SubByChildren, SidesAreApart
  <2>3. Sub(h, b) \in U /\ Sub(h, b) \subseteq D /\ Sub(h, a) \subseteq D
    BY SubIsClosed
  <2>4. <<Sub(h, b), S>> \in StrictSubsetOrdering(D)
    BY <1>3, <2>1, <2>2, <2>3 DEF StrictSubsetOrdering
  <2> QED
    BY <1>2, <2>3, <2>4
<1> QED
  BY <1>4

\* The heap of a caller who keeps to the contract.
GoodHeap == IsMemory(heap) /\ Good(heap) /\ IsFiniteSet(Live)

\* What is used of it: pointers lead to nodes or nowhere.
LEMMA GoodPointers ==
    ASSUME GoodHeap
    PROVE  /\ RootNode \in Live /\ Live = Sub(heap, RootNode) /\ NULL \notin Live
           /\ \A a \in Live : /\ heap[a].left \in LivePtr /\ heap[a].right \in LivePtr
                              /\ heap[a].left \in Live => heap[heap[a].left].parent = a
                              /\ heap[a].right \in Live => heap[heap[a].right].parent = a
           /\ \A a : Sub(heap, a) \subseteq Live
           /\ \A a \in Live : a \in Sub(heap, a)
           /\ \A a \in Live : \A b \in Sub(heap, a) : /\ heap[b].left \in Sub(heap, a) \cup {NULL}
                                                      /\ heap[b].right \in Sub(heap, a) \cup {NULL}
<1>1. IsMemory(heap) /\ LinkedIn(heap) /\ NoLeakIn(heap)
  BY DEF GoodHeap, Good
<1>2. RootNode \in Live /\ Live = Sub(heap, RootNode) /\ NULL \notin Live
  BY <1>1, AddrAssumption DEF LinkedIn, NoLeakIn, IsMemory, Live
<1>3. \A a \in Live : /\ heap[a].left \in LivePtr /\ heap[a].right \in LivePtr
                      /\ heap[a].left \in Live => heap[heap[a].left].parent = a
                      /\ heap[a].right \in Live => heap[heap[a].right].parent = a
  BY <1>1, <1>2 DEF LinkedIn, Live, LivePtr
<1>4. \A a : Sub(heap, a) \subseteq Live /\ ClosedIn(heap, Sub(heap, a))
  BY SubIsClosed DEF Live
<1>5. \A a \in Live : a \in Sub(heap, a)
  BY SubIsClosed DEF Live
<1>6. \A a \in Live : \A b \in Sub(heap, a) : /\ heap[b].left \in Sub(heap, a) \cup {NULL}
                                             /\ heap[b].right \in Sub(heap, a) \cup {NULL}
  BY <1>2, <1>3, <1>4 DEF ClosedIn, Live, LivePtr
<1> QED
  BY <1>2, <1>3, <1>4, <1>5, <1>6

\* The subtrees of a node, in terms of the heap.
LEMMA GoodSubtrees ==
    ASSUME GoodHeap, NEW a \in Live
    PROVE  /\ Sub(heap, NULL) = {}
           /\ Sub(heap, a) = {a} \cup Sub(heap, heap[a].left) \cup Sub(heap, heap[a].right)
           /\ a \notin Sub(heap, heap[a].left) /\ a \notin Sub(heap, heap[a].right)
           /\ Sub(heap, heap[a].left) \cap Sub(heap, heap[a].right) = {}
BY SubOfNull, SubByChildren, SidesAreApart DEF GoodHeap, Good, Live

LEMMA LowestNode ==
    ASSUME GoodHeap, NEW T, T \subseteq Live, T # {}
    PROVE  \E a \in T : /\ T \cap Sub(heap, heap[a].left) = {}
                        /\ T \cap Sub(heap, heap[a].right) = {}
BY LowestOf DEF GoodHeap, Good, Live

-----------------------------------------------------------------------------
(* VisitNode *)

\* One unfolding of VisitNode, if f has the values for the children.
Visit(f, n) ==
    IF n = NULL THEN <<>>
    ELSE IF IsLeafNode(n) THEN <<n>>
    ELSE f[heap[n].left] \o f[heap[n].right]

\* f has the values of VisitNode on S.
VisitsOn(f, S) == \A n \in S \cup {NULL} : f[n] = Visit(f, n)

\* The values for a node are made of those for its children.
LEMMA VisitsOnNode ==
    ASSUME GoodHeap, NEW a \in Live,
           NEW fl, VisitsOn(fl, Sub(heap, heap[a].left)),
           NEW fr, VisitsOn(fr, Sub(heap, heap[a].right))
    PROVE  \E f : VisitsOn(f, Sub(heap, a))
<1> DEFINE l == heap[a].left
           r == heap[a].right
           L == Sub(heap, l)
           R == Sub(heap, r)
           S == Sub(heap, a)
           top == IF IsLeafNode(a) THEN <<a>> ELSE fl[l] \o fr[r]
           g == [n \in S \cup {NULL} |-> IF n = NULL THEN <<>>
                                         ELSE IF n \in L THEN fl[n]
                                         ELSE IF n \in R THEN fr[n]
                                         ELSE top]
<1>1. /\ S = {a} \cup L \cup R /\ a \notin L /\ a \notin R /\ L \cap R = {}
      /\ NULL \notin S /\ l \in L \cup {NULL} /\ r \in R \cup {NULL}
  <2>1. l \in LivePtr /\ r \in LivePtr /\ NULL \notin Live /\ S \subseteq Live
    BY GoodPointers
  <2>2. (l \in Live => l \in L) /\ (r \in Live => r \in R)
    BY GoodPointers
  <2> QED
    BY <2>1, <2>2, GoodSubtrees DEF LivePtr
<1>2. /\ L \subseteq Live /\ R \subseteq Live /\ NULL \notin Live
      /\ \A n \in L : heap[n].left \in L \cup {NULL} /\ heap[n].right \in L \cup {NULL}
      /\ \A n \in R : heap[n].left \in R \cup {NULL} /\ heap[n].right \in R \cup {NULL}
  <2>1. L \subseteq Live /\ R \subseteq Live /\ NULL \notin Live
    BY GoodPointers
  <2>2. (l \in Live \/ L = {}) /\ (r \in Live \/ R = {})
    <3>1. l \in LivePtr /\ r \in LivePtr
      BY GoodPointers
    <3> QED
      BY <3>1, GoodSubtrees DEF LivePtr
  <2> QED
    BY <2>1, <2>2, GoodPointers
<1>3. /\ fl[NULL] = <<>> /\ fr[NULL] = <<>>
      /\ \A n \in L : fl[n] = Visit(fl, n)
      /\ \A n \in R : fr[n] = Visit(fr, n)
  BY DEF VisitsOn, Visit
<1>4. g[NULL] = <<>> /\ g[a] = top /\ \A n \in L : g[n] = fl[n]
  BY <1>1
<1>5. \A n \in R : g[n] = fr[n]
  BY <1>1
<1> HIDE DEF g, L, R, l, r
<1>6. ASSUME NEW n \in L PROVE g[n] = Visit(g, n)
  <2>1. g[heap[n].left] = fl[heap[n].left] /\ g[heap[n].right] = fl[heap[n].right]
    BY <1>2, <1>3, <1>4
  <2> QED
    BY <1>3, <1>4, <2>1 DEF Visit
<1>7. ASSUME NEW n \in R PROVE g[n] = Visit(g, n)
  <2>1. g[heap[n].left] = fr[heap[n].left] /\ g[heap[n].right] = fr[heap[n].right]
    BY <1>2, <1>3, <1>4, <1>5
  <2> QED
    BY <1>3, <1>5, <2>1 DEF Visit
<1>8. g[a] = Visit(g, a)
  <2>1. g[l] = fl[l] /\ g[r] = fr[r]
    BY <1>1, <1>3, <1>4, <1>5
  <2>2. a # NULL
    BY <1>2
  <2> QED
    BY <1>4, <2>1, <2>2 DEF Visit, l, r
<1>9. g[NULL] = Visit(g, NULL)
  BY <1>4 DEF Visit
<1>10. VisitsOn(g, S)
  <2> HIDE DEF S
  <2> QED
    BY <1>1, <1>6, <1>7, <1>8, <1>9 DEF VisitsOn
<1> QED
  BY <1>10

LEMMA VisitExists ==
    ASSUME GoodHeap
    PROVE  \A a \in Live : \E f : VisitsOn(f, Sub(heap, a))
<1> DEFINE Has(c) == \E f : VisitsOn(f, Sub(heap, c))
           T == {a \in Live : ~Has(a)}
<1> SUFFICES ASSUME T # {} PROVE FALSE
  OBVIOUS
<1>1. PICK a \in T : T \cap Sub(heap, heap[a].left) = {} /\ T \cap Sub(heap, heap[a].right) = {}
  <2>1. T \subseteq Live
    OBVIOUS
  <2> HIDE DEF T
  <2> QED
    BY <2>1, LowestNode
<1>2. ASSUME NEW c \in {heap[a].left, heap[a].right} PROVE Has(c)
  <2>1. CASE c = NULL
    <3>1. VisitsOn([n \in {NULL} |-> <<>>], {})
      BY DEF VisitsOn, Visit
    <3>2. Sub(heap, NULL) = {}
      BY SubOfNull DEF GoodHeap
    <3> QED
      BY <2>1, <3>1, <3>2
  <2>2. CASE c # NULL
    <3>1. c \in Live /\ c \in Sub(heap, c)
      BY <2>2, GoodPointers DEF LivePtr
    <3> QED
      BY <1>1, <3>1
  <2> QED
    BY <2>1, <2>2
<1>3. Has(a)
  BY <1>2, VisitsOnNode
<1> QED
  BY <1>3

\* VisitNode is what it says.
LEMMA VisitIs ==
    ASSUME GoodHeap
    PROVE  \A n \in LivePtr : VisitNode[n] = Visit(VisitNode, n)
<1> DEFINE F(f) == [n \in LivePtr |-> Visit(f, n)]
<1>1. PICK f : VisitsOn(f, Live)
  BY VisitExists, GoodPointers
<1> DEFINE g == [n \in LivePtr |-> f[n]]
<1>2. g = F(g)
  <2>1. ASSUME NEW n \in LivePtr PROVE g[n] = Visit(g, n)
    <3>1. f[n] = Visit(f, n)
      BY <1>1 DEF VisitsOn, LivePtr
    <3>2. n = NULL \/ (heap[n].left \in LivePtr /\ heap[n].right \in LivePtr)
      BY GoodPointers DEF LivePtr
    <3>3. Visit(g, n) = Visit(f, n)
      BY <3>2 DEF Visit
    <3> QED
      BY <3>1, <3>3
  <2> QED
    BY <2>1
<1>3. VisitNode = CHOOSE v : v = F(v)
  BY DEF VisitNode, Visit
<1> HIDE DEF F, g
<1>4. VisitNode = F(VisitNode)
  BY <1>2, <1>3
<1> QED
  BY <1>4 DEF F

Leaves == {a \in Live : IsLeafNode(a)}

ElementsOf(s) == {s[k] : k \in DOMAIN s}

Injective(s) == \A k, m \in DOMAIN s : s[k] = s[m] => k = m

LEMMA ConcatElements ==
    ASSUME NEW S, NEW s \in Seq(S), NEW t \in Seq(S)
    PROVE  /\ s \o t \in Seq(S)
           /\ ElementsOf(s \o t) = ElementsOf(s) \cup ElementsOf(t)
           /\ Injective(s) /\ Injective(t) /\ ElementsOf(s) \cap ElementsOf(t) = {}
                 => Injective(s \o t)
<1> DEFINE u == s \o t
<1>1. u \in Seq(S) /\ Len(u) = Len(s) + Len(t)
  OBVIOUS
<1>2. /\ DOMAIN s = 1..Len(s) /\ DOMAIN t = 1..Len(t) /\ DOMAIN u = 1..Len(u)
      /\ Len(s) \in Nat /\ Len(t) \in Nat
  BY <1>1
<1>3. /\ \A k \in DOMAIN s : k \in DOMAIN u /\ u[k] = s[k]
      /\ \A k \in DOMAIN t : Len(s) + k \in DOMAIN u /\ u[Len(s) + k] = t[k]
  BY <1>1, <1>2
<1>4. \A k \in DOMAIN u : k \in DOMAIN s \/ (k - Len(s) \in DOMAIN t /\ k = Len(s) + (k - Len(s)))
  BY <1>1, <1>2
<1> HIDE DEF u
<1>5. ElementsOf(u) = ElementsOf(s) \cup ElementsOf(t)
  BY <1>3, <1>4 DEF ElementsOf
<1>6. /\ \A k \in DOMAIN s : u[k] \in ElementsOf(s)
      /\ \A k \in DOMAIN u \ DOMAIN s : u[k] \in ElementsOf(t)
  <2>1. \A k \in DOMAIN s : u[k] \in ElementsOf(s)
    BY <1>3 DEF ElementsOf
  <2>2. ASSUME NEW k \in DOMAIN u \ DOMAIN s PROVE u[k] \in ElementsOf(t)
    <3>1. PICK m \in DOMAIN t : k = Len(s) + m
      BY <1>4
    <3> QED
      BY <1>3, <3>1 DEF ElementsOf
  <2> QED
    BY <2>1, <2>2
<1>7. ASSUME Injective(s), Injective(t), ElementsOf(s) \cap ElementsOf(t) = {},
             NEW k \in DOMAIN u, NEW m \in DOMAIN u, u[k] = u[m]
      PROVE  k = m
  <2>1. CASE k \in DOMAIN s /\ m \in DOMAIN s
    BY <1>3, <1>7, <2>1 DEF Injective
  <2>2. CASE k \notin DOMAIN s /\ m \notin DOMAIN s
    <3>1. k - Len(s) = m - Len(s)
      BY <1>3, <1>4, <1>7, <2>2 DEF Injective
    <3> QED
      BY <1>2, <3>1
  <2>3. CASE k \in DOMAIN s /\ m \notin DOMAIN s
    BY <1>6, <1>7, <2>3
  <2>4. CASE k \notin DOMAIN s /\ m \in DOMAIN s
    BY <1>6, <1>7, <2>4
  <2> QED
    BY <2>1, <2>2, <2>3, <2>4
<1> QED
  BY <1>1, <1>5, <1>7 DEF u, Injective

\* VisitNode has every leaf at and below a node, once.
Collects(n) ==
    /\ VisitNode[n] \in Seq(Leaves)
    /\ ElementsOf(VisitNode[n]) = Leaves \cap Sub(heap, n)
    /\ Injective(VisitNode[n])

LEMMA VisitCollects ==
    ASSUME GoodHeap
    PROVE  \A n \in Live : Collects(n)
<1> DEFINE T == {a \in Live : ~Collects(a)}
<1> SUFFICES ASSUME T # {} PROVE FALSE
  OBVIOUS
<1>1. PICK a \in T : T \cap Sub(heap, heap[a].left) = {} /\ T \cap Sub(heap, heap[a].right) = {}
  <2>1. T \subseteq Live
    OBVIOUS
  <2> HIDE DEF T
  <2> QED
    BY <2>1, LowestNode
<1> DEFINE l == heap[a].left
           r == heap[a].right
<1>2. a \in LivePtr /\ a # NULL /\ l \in LivePtr /\ r \in LivePtr
  BY GoodPointers DEF LivePtr
<1>3. /\ Sub(heap, NULL) = {}
      /\ Sub(heap, a) = {a} \cup Sub(heap, l) \cup Sub(heap, r)
      /\ Sub(heap, l) \cap Sub(heap, r) = {}
  BY GoodSubtrees
<1>4. ASSUME NEW c \in {l, r} PROVE Collects(c)
  <2>1. CASE c = NULL
    <3>1. VisitNode[NULL] = <<>>
      BY VisitIs DEF Visit, LivePtr
    <3> QED
      BY <1>3, <2>1, <3>1 DEF Collects, ElementsOf, Injective
  <2>2. CASE c # NULL
    <3>1. c \in Live /\ c \in Sub(heap, c)
      BY <1>2, <2>2, GoodPointers DEF LivePtr
    <3> QED
      BY <1>1, <3>1
  <2> QED
    BY <2>1, <2>2
<1>5. CASE IsLeafNode(a)
  <2>1. VisitNode[a] = <<a>>
    BY <1>2, <1>5, VisitIs DEF Visit
  <2>2. a \in Leaves /\ l = NULL /\ r = NULL
    BY <1>5 DEF Leaves, IsLeafNode
  <2>3. Leaves \cap Sub(heap, a) = {a}
    BY <1>3, <2>2
  <2>4. Collects(a)
    BY <2>1, <2>2, <2>3 DEF Collects, ElementsOf, Injective
  <2> QED
    BY <2>4
<1>6. CASE ~IsLeafNode(a)
  <2>1. VisitNode[a] = VisitNode[l] \o VisitNode[r]
    BY <1>2, <1>6, VisitIs DEF Visit
  <2>2. Leaves \cap Sub(heap, a) = (Leaves \cap Sub(heap, l)) \cup (Leaves \cap Sub(heap, r))
    BY <1>3, <1>6 DEF Leaves
  <2>3. ElementsOf(VisitNode[l]) \cap ElementsOf(VisitNode[r]) = {}
    BY <1>3, <1>4 DEF Collects
  <2>4. Collects(l) /\ Collects(r)
    BY <1>4
  <2> HIDE DEF l, r
  <2>5. Collects(a)
    BY <2>1, <2>2, <2>3, <2>4, ConcatElements DEF Collects
  <2> QED
    BY <2>5
<1> QED
  BY <1>5, <1>6

-----------------------------------------------------------------------------
(* The inductive invariant *)

\* The caller keeps to the contract, so the tree is good at every step.
KeptTree == ContractInv /\ IsFiniteSet(Live)

HeightsInv ==
    /\ heights \in [Live -> MinInt..MaxInt]
    /\ vAVLTreeNodes \in Seq(Leaves) /\ Injective(vAVLTreeNodes)
    /\ TmpNode \in LivePtr

\* A leaf below c is still to be climbed from, or the climb is there now.
Pending(c) == TmpNode \in Sub(heap, c) \/ \E l \in ElementsOf(vAVLTreeNodes) : l \in Sub(heap, c)

\* Garbage has brought a node that is neither the root nor a leaf to the largest int.
\* Such a node stays there until MeasureHeights returns: only a child there can lower it,
\* and that child is of the same kind.
Overflowed == \E a \in Live \ {RootNode} : a \notin Leaves /\ heights[a] = MaxInt

\* Unless the largest int was reached, a node can be too low only where a climb has
\* still to pass.
OrderInv ==
    Measuring =>
        /\ \A a \in Leaves : heights[a] = 0 \/ (a \in ElementsOf(vAVLTreeNodes) /\ a # TmpNode)
        /\ \/ Overflowed
           \/ \A a \in Live : \A c \in Children(a) : heights[a] > heights[c] \/ Pending(c)

AVLInv == KeptTree /\ HeightsInv /\ OrderInv

LEMMA KeptTreeIsGood == KeptTree => GoodHeap
BY HeapIsMemory, GoodIsWellFormed DEF KeptTree, ContractInv, IInv, GoodHeap

LEMMA MaxOf ==
    ASSUME NEW x \in Int, NEW y \in Int
    PROVE  Max({x, y}) = IF x >= y THEN x ELSE y
<1> DEFINE IsMax(z) == \A w \in {x, y} : z >= w
<1>1. \E z \in {x, y} : IsMax(z)
  OBVIOUS
<1>2. Max({x, y}) = CHOOSE z \in {x, y} : IsMax(z)
  BY DEF Max
<1>3. Max({x, y}) \in {x, y} /\ IsMax(Max({x, y}))
  <2> HIDE DEF IsMax
  <2> QED
    BY <1>1, <1>2
<1> QED
  BY <1>3

\* The operations of the tree are steps of a caller who keeps to the contract.
LEMMA TreeStepKeepsContract == AVLNext \/ UNCHANGED avlVars => [ContractNext]_vars
<1>1. TreeStep => ContractNext
  BY DEF TreeStep
<1>2. MeasureHeights \/ printTree \/ UNCHANGED avlVars => UNCHANGED vars
  BY DEF MeasureHeights, CallMeasureHeights, TakeLeaf, Climb, ReachTop,
         printTree, CallPrintTree, PrintLevel, PrintReturn, avlVars
<1> QED
  BY <1>1, <1>2 DEF AVLNext

\* Every height is an int, and the largest is positive.
LEMMA Ints == MinInt \in Int /\ MaxInt \in Int /\ MaxInt > 0 /\ 0 \in MinInt..MaxInt
BY MaxIntAssumption DEF MinInt

\* A call allocates one node at most.
LEMMA FewAllocated == TypeOK /\ [Next]_vars => \E a : Live' \subseteq Live \cup {a}
<1> SUFFICES ASSUME TypeOK, [Next]_vars PROVE \E a : Live' \subseteq Live \cup {a}
  OBVIOUS
<1>1. CASE InsertAttach
  <2>1. PICK a : Grown(heap, heap', CurrentNode, a)
    BY <1>1, InsertGrows
  <2> QED
    BY <2>1 DEF Grown, Live
<1>2. \A h, n : DOMAIN Free(h, n) \subseteq DOMAIN h
  BY DEF Free, Restrict
<1>3. \A q, n, c : DOMAIN Relinked(q, n, c) = Live
  BY DEF Relinked, Live
<1>4. CASE DeleteLeaf
  BY <1>2, <1>3, <1>4 DEF DeleteLeaf, Live
<1>5. CASE DeleteWithLeftChild \/ DeleteWithRightChild
  <2>1. PICK c : Splice(c)
    BY <1>5 DEF DeleteWithLeftChild, DeleteWithRightChild
  <2>2. \A q, n : DOMAIN [Relinked(q, n, c) EXCEPT ![c].parent = q] = Live
    BY <1>3
  <2> QED
    BY <1>2, <2>1, <2>2 DEF Splice, Live
<1>6. CASE LeftMaxReplace
  <2>1. PICK h : DOMAIN h = Live /\ heap' = Free(h, leftMaxNode)
    BY <1>6 DEF LeftMaxReplace, Live
  <2> QED
    BY <1>2, <2>1 DEF Live
<1>7. CASE ~Writes
  <2>1. heap' = heap
    BY <1>7
    DEF Next, Run, Deleting, Ended, vars, Caller, CallFind, CallDelete, CallInsert, Call, Writes,
        FindDescend, FindReturn, InsertDescend, InsertExisting,
        DeleteAbsent, DeleteWithTwoChildren, LeftMaxDescend, Return,
        WalkFault, LeftMaxFault, ParentFault, ChildFault, Fault
  <2> QED
    BY <2>1 DEF Live
<1> QED
  BY <1>1, <1>4, <1>5, <1>6, <1>7 DEF Writes

LEMMA NextKeptTree == KeptTree /\ (AVLNext \/ UNCHANGED avlVars) => KeptTree'
<1> SUFFICES ASSUME KeptTree, AVLNext \/ UNCHANGED avlVars PROVE KeptTree'
  OBVIOUS
<1>1. [ContractNext]_vars
  BY TreeStepKeepsContract
<1>2. ContractInv'
  BY <1>1, ContractSteps DEF KeptTree
<1>3. PICK a : Live' \subseteq Live \cup {a}
  <2>1. [Next]_vars
    BY <1>1 DEF ContractNext
  <2> QED
    BY <2>1, FewAllocated DEF KeptTree, ContractInv, IInv
<1>4. IsFiniteSet(Live')
  BY <1>3, FS_AddElement, FS_Subset DEF KeptTree
<1> QED
  BY <1>2, <1>4 DEF KeptTree

\* Every subtree has a leaf.
LEMMA HasLeaf ==
    ASSUME GoodHeap, NEW c \in Live
    PROVE  \E l \in Leaves : l \in Sub(heap, c)
<1>1. Sub(heap, c) \subseteq Live /\ Sub(heap, c) # {}
  BY GoodPointers
<1>2. PICK a \in Sub(heap, c) : /\ Sub(heap, c) \cap Sub(heap, heap[a].left) = {}
                                /\ Sub(heap, c) \cap Sub(heap, heap[a].right) = {}
  BY <1>1, LowestNode
<1>3. a \in Live
  BY <1>1
<1>4. ASSUME NEW d \in {heap[a].left, heap[a].right} PROVE d = NULL
  <2> SUFFICES ASSUME d # NULL PROVE FALSE
    OBVIOUS
  <2>1. d \in Live /\ d \in Sub(heap, c) /\ d \in Sub(heap, d)
    BY <1>3, GoodPointers DEF LivePtr
  <2> QED
    BY <1>2, <2>1
<1>5. a # NULL
  BY <1>3, GoodPointers
<1> QED
  BY <1>3, <1>4, <1>5 DEF Leaves, IsLeafNode

\* A step that leaves the memory alone leaves what is said of it alone.
LEMMA QuietHeap ==
    ASSUME heap' = heap
    PROVE  /\ Live' = Live /\ Leaves' = Leaves /\ LivePtr' = LivePtr
           /\ \A a : Children(a)' = Children(a)
           /\ \A a : IsLeafNode(a)' = IsLeafNode(a)
BY DEF Live, Leaves, LivePtr, Children, IsLeafNode

LEMMA InitAVLInv == AVLInit => AVLInv
<1> SUFFICES ASSUME AVLInit PROVE AVLInv
  OBVIOUS
<1>1. Init /\ vAVLTreeNodes = <<>> /\ TmpNode = NULL /\ heights \in [Live -> Garbage]
  BY DEF AVLInit
<1>2. KeptTree
  <2>1. ContractInv
    BY <1>1, InitIInv, InitWalk, InitGood, GoodIsWellFormed DEF ContractInv, NoFault, Init
  <2>2. Live = {RootNode}
    BY <1>1 DEF Init, Live
  <2> QED
    BY <2>1, <2>2, FS_Singleton DEF KeptTree
<1>3. HeightsInv
  <2>1. heights \in [Live -> MinInt..MaxInt]
    BY <1>1, GarbageAssumption
  <2>2. <<>> \in Seq(Leaves) /\ Injective(<<>>)
    BY DEF Injective
  <2> QED
    BY <1>1, <2>1, <2>2 DEF HeightsInv, LivePtr
<1>4. OrderInv
  BY <1>1 DEF OrderInv, Measuring
<1> QED
  BY <1>2, <1>3, <1>4 DEF AVLInv

\* The tree changes only while nothing is measured.
LEMMA TreeStepAVLInv == AVLInv /\ TreeStep => HeightsInv' /\ OrderInv'
<1> SUFFICES ASSUME AVLInv, TreeStep PROVE HeightsInv' /\ OrderInv'
  OBVIOUS
<1>1. /\ vAVLTreeNodes' = <<>> /\ TmpNode' = NULL
      /\ HeightsFollow
  BY DEF TreeStep, Measuring
<1>2. heights' \in [Live' -> MinInt..MaxInt]
  BY <1>1, GarbageAssumption DEF HeightsFollow, AVLInv, HeightsInv
<1> QED
  BY <1>1, <1>2 DEF HeightsInv, OrderInv, Measuring, Injective, LivePtr

LEMMA CallAVLInv == AVLInv /\ CallMeasureHeights => HeightsInv' /\ OrderInv'
<1> SUFFICES ASSUME AVLInv, CallMeasureHeights PROVE HeightsInv' /\ OrderInv'
  OBVIOUS
<1>1. GoodHeap /\ HeightsInv
  BY KeptTreeIsGood DEF AVLInv
<1>2. /\ heap' = heap /\ heights' = heights /\ TmpNode' = TmpNode
      /\ vAVLTreeNodes' = VisitNode[RootNode]
  BY DEF CallMeasureHeights, vars
<1>3. /\ VisitNode[RootNode] \in Seq(Leaves) /\ Injective(VisitNode[RootNode])
      /\ ElementsOf(VisitNode[RootNode]) = Leaves
  BY <1>1, VisitCollects, GoodPointers DEF Collects, Leaves
<1>4. HeightsInv'
  BY <1>1, <1>2, <1>3, QuietHeap DEF HeightsInv
<1>5. \A a \in Live : \A c \in Children(a) : \E l \in Leaves : l \in Sub(heap, c)
  BY <1>1, GoodPointers, HasLeaf DEF Children, LivePtr
<1>6. ElementsOf(vAVLTreeNodes)' = Leaves
  BY <1>2, <1>3 DEF ElementsOf
<1>7. NULL \notin Leaves /\ TmpNode = NULL
  BY <1>1, GoodPointers DEF Leaves, CallMeasureHeights, Measuring
<1>8. OrderInv'
  BY <1>2, <1>5, <1>6, <1>7, QuietHeap DEF OrderInv, Pending
<1> QED
  BY <1>4, <1>8

\* The next leaf is taken from the front.
LEMMA TakenLeaf ==
    ASSUME HeightsInv, vAVLTreeNodes # <<>>
    PROVE  /\ Head(vAVLTreeNodes) \in Leaves
           /\ Tail(vAVLTreeNodes) \in Seq(Leaves) /\ Injective(Tail(vAVLTreeNodes))
           /\ vAVLTreeNodes = <<Head(vAVLTreeNodes)>> \o Tail(vAVLTreeNodes)
           /\ ElementsOf(vAVLTreeNodes) = {Head(vAVLTreeNodes)} \cup ElementsOf(Tail(vAVLTreeNodes))
           /\ Head(vAVLTreeNodes) \notin ElementsOf(Tail(vAVLTreeNodes))
<1> DEFINE v == vAVLTreeNodes
           t == Tail(v)
<1>1. v \in Seq(Leaves) /\ Injective(v)
  BY DEF HeightsInv
<1> HIDE DEF v
<1>2. Head(v) \in Leaves /\ t \in Seq(Leaves) /\ Head(v) = v[1] /\ Len(v) = Len(t) + 1 /\ v # <<>>
  BY <1>1 DEF v
<1>3. /\ DOMAIN v = 1..Len(v) /\ DOMAIN t = 1..Len(t) /\ Len(t) \in Nat
      /\ \A k \in DOMAIN t : t[k] = v[k + 1] /\ k + 1 \in DOMAIN v
  BY <1>1, <1>2
<1>4. \A k \in DOMAIN v : k = 1 \/ (k - 1 \in DOMAIN t /\ v[k] = t[k - 1])
  BY <1>2, <1>3
<1>5. v = <<Head(v)>> \o t
  BY <1>1, <1>2
<1> HIDE DEF t
<1>6. 1 \in DOMAIN v /\ \A k \in DOMAIN t : k + 1 # 1
  BY <1>2, <1>3
<1>7. Injective(t) /\ Head(v) \notin ElementsOf(t)
  <2>1. ASSUME NEW k \in DOMAIN t, NEW m \in DOMAIN t, t[k] = t[m] PROVE k = m
    <3>1. k + 1 = m + 1
      BY <1>1, <1>3, <2>1 DEF Injective
    <3> QED
      BY <1>3, <3>1
  <2>2. ASSUME NEW k \in DOMAIN t, t[k] = Head(v) PROVE FALSE
    BY <1>1, <1>2, <1>3, <1>6, <2>2 DEF Injective
  <2> QED
    BY <2>1, <2>2 DEF Injective, ElementsOf
<1>8. ElementsOf(v) = {Head(v)} \cup ElementsOf(t)
  BY <1>2, <1>3, <1>4, <1>6 DEF ElementsOf
<1> QED
  BY <1>2, <1>5, <1>7, <1>8 DEF v, t

LEMMA TakeLeafAVLInv == AVLInv /\ TakeLeaf => HeightsInv' /\ OrderInv'
<1> SUFFICES ASSUME AVLInv, TakeLeaf PROVE HeightsInv' /\ OrderInv'
  OBVIOUS
<1> DEFINE l == Head(vAVLTreeNodes)
           t == Tail(vAVLTreeNodes)
<1>1. GoodHeap /\ HeightsInv /\ OrderInv
  BY KeptTreeIsGood DEF AVLInv
<1>2. /\ heap' = heap /\ RootNode' = RootNode /\ vAVLTreeNodes # <<>> /\ TmpNode = NULL
      /\ TmpNode' = l /\ vAVLTreeNodes' = t
      /\ heights' = [heights EXCEPT ![l] = 0]
  BY DEF TakeLeaf, vars
<1>3. /\ l \in Leaves /\ t \in Seq(Leaves) /\ Injective(t)
      /\ ElementsOf(vAVLTreeNodes) = {l} \cup ElementsOf(t)
  BY <1>1, <1>2, TakenLeaf
<1> HIDE DEF l, t
<1>4. l \in Live /\ NULL \notin Live /\ \A a : Sub(heap, a) \subseteq Live
  BY <1>1, <1>3, GoodPointers DEF Leaves
<1>5. heights \in [Live -> MinInt..MaxInt] /\ heights' \in [Live -> MinInt..MaxInt]
  BY <1>1, <1>2, <1>4, Ints DEF HeightsInv
<1>6. HeightsInv'
  BY <1>2, <1>3, <1>4, <1>5, QuietHeap DEF HeightsInv, LivePtr
<1>7. ElementsOf(vAVLTreeNodes)' = ElementsOf(t) /\ Measuring
  BY <1>2 DEF ElementsOf, Measuring
<1>8. \A a \in Live : heights'[a] = IF a = l THEN 0 ELSE heights[a]
  BY <1>2, <1>4, <1>5
<1>9. \A a \in Leaves : heights'[a] = 0 \/ (a \in ElementsOf(t) /\ a # l)
  BY <1>1, <1>3, <1>7, <1>8 DEF OrderInv, Leaves
<1>10. ASSUME ~Overflowed, NEW a \in Live, NEW c \in Children(a)
       PROVE  \/ heights'[a] > heights'[c]
              \/ l \in Sub(heap, c) \/ \E m \in ElementsOf(t) : m \in Sub(heap, c)
  <2>1. c \in Live /\ c \in Sub(heap, c)
    BY <1>1, GoodPointers DEF Children, LivePtr
  <2>2. a # l
    BY <1>3 DEF Leaves, IsLeafNode, Children
  <2>3. heights[a] > heights[c] \/ l \in Sub(heap, c) \/ \E m \in ElementsOf(t) : m \in Sub(heap, c)
    BY <1>1, <1>2, <1>3, <1>4, <1>7, <1>10 DEF OrderInv, Pending
  <2>4. heights[a] \in Int /\ heights[c] \in Int
    BY <1>5, <2>1, Ints
  <2>5. c = l => l \in Sub(heap, c)
    BY <2>1
  <2> QED
    BY <1>8, <2>1, <2>2, <2>3, <2>5
<1>11. Overflowed => Overflowed'
  BY <1>2, <1>3, <1>8, QuietHeap DEF Overflowed
<1>12. OrderInv'
  BY <1>2, <1>7, <1>9, <1>10, <1>11, QuietHeap DEF OrderInv, Pending
<1> QED
  BY <1>6, <1>12

\* Where a climb goes: to the parent, which is in all subtrees that have more above.
LEMMA Parents ==
    ASSUME GoodHeap, NEW x \in Live
    PROVE  /\ heap[x].parent = NULL <=> x = RootNode
           /\ heap[x].parent # NULL => heap[x].parent \in Live /\ x \in Children(heap[x].parent)
           /\ \A a : x \in Sub(heap, a) /\ x # a => heap[x].parent \in Sub(heap, a)
<1>1. IsMemory(heap) /\ LinkedIn(heap)
  BY DEF GoodHeap, Good
<1>2. \A a : x \in Sub(heap, a) /\ x # a => heap[x].parent \in Sub(heap, a)
  BY <1>1, SubHoldsParent
<1>3. NULL \notin Live
  BY GoodPointers
<1> QED
  BY <1>1, <1>2, <1>3 DEF LinkedIn, Live, Children

\* A turn of the climb.
LEMMA ClimbStep ==
    ASSUME AVLInv, Climb
    PROVE  \E p \in Live : /\ p = heap[TmpNode].parent
                           /\ TmpNode \in Live /\ TmpNode \in Children(p)
                           /\ heap' = heap /\ RootNode' = RootNode
                           /\ vAVLTreeNodes' = vAVLTreeNodes /\ TmpNode' = p
                           /\ heights' \in [Live -> MinInt..MaxInt]
                           /\ \A a \in Live \ {p} : heights'[a] = heights[a]
                           /\ heights[TmpNode] # MaxInt =>
                                heights'[p] = IF heights[p] >= heights[TmpNode] + 1
                                              THEN heights[p] ELSE heights[TmpNode] + 1
<1> DEFINE p == heap[TmpNode].parent
           x == TmpNode
<1>1. GoodHeap /\ HeightsInv
  BY KeptTreeIsGood DEF AVLInv
<1>2. /\ x # NULL /\ p # NULL /\ heap' = heap /\ RootNode' = RootNode
                           /\ vAVLTreeNodes' = vAVLTreeNodes /\ TmpNode' = p
      /\ \E h \in RaisedHeights(p, x) : heights' = [heights EXCEPT ![p] = h]
  BY DEF Climb, vars
<1>3. x \in Live
  BY <1>1, <1>2 DEF HeightsInv, LivePtr
<1>4. p \in Live /\ x \in Children(p)
  BY <1>1, <1>2, <1>3, Parents
<1>5. heights \in [Live -> MinInt..MaxInt]
  BY <1>1 DEF HeightsInv
<1>6. heights[p] \in MinInt..MaxInt /\ heights[x] \in MinInt..MaxInt
  BY <1>3, <1>4, <1>5
<1>7. heights[p] \in Int /\ heights[x] + 1 \in Int
  BY <1>6, Ints
<1>8. Max({heights[p], heights[x] + 1}) =
         IF heights[p] >= heights[x] + 1 THEN heights[p] ELSE heights[x] + 1
  BY <1>7, MaxOf
<1>9. PICK h \in RaisedHeights(p, x) : heights' = [heights EXCEPT ![p] = h]
  BY <1>2
<1>10. heights[x] # MaxInt => h = IF heights[p] >= heights[x] + 1 THEN heights[p] ELSE heights[x] + 1
  <2>1. heights[x] # MaxInt => heights[x] < MaxInt
    BY <1>6, Ints
  <2> QED
    BY <1>8, <2>1 DEF RaisedHeights
<1>11. h \in MinInt..MaxInt
  <2>1. CASE heights[x] < MaxInt
    BY <1>6, <1>10, <2>1, Ints
  <2>2. CASE ~(heights[x] < MaxInt)
    BY <1>6, <2>2, Ints DEF RaisedHeights
  <2> QED
    BY <2>1, <2>2
<1> HIDE DEF p, x
<1>12. /\ heights' \in [Live -> MinInt..MaxInt]
       /\ \A a \in Live \ {p} : heights'[a] = heights[a]
       /\ heights'[p] = h
  BY <1>4, <1>5, <1>9, <1>11
<1> QED
  BY <1>2, <1>3, <1>4, <1>10, <1>12 DEF p, x

LEMMA ClimbAVLInv == AVLInv /\ Climb => HeightsInv' /\ OrderInv'
<1> SUFFICES ASSUME AVLInv, Climb PROVE HeightsInv' /\ OrderInv'
  OBVIOUS
<1> DEFINE x == TmpNode
<1>1. GoodHeap /\ HeightsInv /\ OrderInv /\ Measuring
  BY KeptTreeIsGood DEF AVLInv, Climb, Measuring
<1>2. PICK p \in Live : /\ p = heap[x].parent /\ x \in Live /\ x \in Children(p)
                        /\ heap' = heap /\ RootNode' = RootNode
                           /\ vAVLTreeNodes' = vAVLTreeNodes /\ TmpNode' = p
                        /\ heights' \in [Live -> MinInt..MaxInt]
                        /\ \A a \in Live \ {p} : heights'[a] = heights[a]
                        /\ heights[x] # MaxInt =>
                             heights'[p] = IF heights[p] >= heights[x] + 1
                                           THEN heights[p] ELSE heights[x] + 1
  BY ClimbStep
<1>3. HeightsInv'
  BY <1>1, <1>2, QuietHeap DEF HeightsInv, LivePtr
<1>4. heights \in [Live -> MinInt..MaxInt] /\ NULL \notin Live
  BY <1>1, GoodPointers DEF HeightsInv
<1>5. \A a \in Live : /\ heights[a] \in Int /\ heights[a] <= MaxInt
                      /\ heights'[a] \in Int /\ heights'[a] <= MaxInt
  BY <1>2, <1>4, Ints
<1>6. p \notin Leaves /\ x # p
  <2>1. p # NULL /\ x \in Sub(heap, x) /\ p \notin Sub(heap, x)
    BY <1>1, <1>2, GoodPointers, GoodSubtrees DEF Children
  <2> QED
    BY <1>2, <2>1 DEF Leaves, IsLeafNode, Children
<1>7. ElementsOf(vAVLTreeNodes)' = ElementsOf(vAVLTreeNodes) /\ Leaves' = Leaves /\ Live' = Live
  BY <1>2, QuietHeap DEF ElementsOf
<1>8. \A a \in Leaves : heights'[a] = 0 \/ (a \in ElementsOf(vAVLTreeNodes) /\ a # p)
  BY <1>1, <1>2, <1>6 DEF OrderInv, Leaves
<1>9. CASE heights[x] = MaxInt
  <2>1. x \notin Leaves
    BY <1>1, <1>9, Ints DEF OrderInv
  <2>2. x # RootNode
    BY <1>1, <1>2, <1>4, Parents
  <2>3. heights'[x] = MaxInt
    BY <1>2, <1>6, <1>9
  <2>4. Overflowed'
    BY <1>2, <1>7, <2>1, <2>2, <2>3 DEF Overflowed
  <2> QED
    BY <1>3, <1>7, <1>8, <2>4, <1>2 DEF OrderInv
<1>10. CASE heights[x] # MaxInt
  <2>1. \A a \in Live : heights'[a] >= heights[a]
    BY <1>2, <1>5, <1>10
  <2>2. Overflowed => Overflowed'
    <3>1. \A a \in Live : heights[a] = MaxInt => heights'[a] = MaxInt
      BY <1>5, <2>1, Ints
    <3> QED
      BY <1>2, <1>7, <3>1 DEF Overflowed
  <2>3. ASSUME ~Overflowed, NEW a \in Live, NEW c \in Children(a)
        PROVE  \/ heights'[a] > heights'[c]
               \/ p \in Sub(heap, c) \/ \E m \in ElementsOf(vAVLTreeNodes) : m \in Sub(heap, c)
    <3>1. c \in Live /\ c \in Sub(heap, c) /\ heap[c].parent = a
      BY <1>1, GoodPointers DEF Children, LivePtr
    <3>2. CASE c = p
      BY <3>1, <3>2
    <3>3. CASE c = x
      <4>1. a = p
        BY <1>2, <3>1, <3>3
      <4> QED
        BY <1>2, <1>5, <1>6, <1>10, <3>3, <4>1
    <3>4. CASE c # p /\ c # x
      <4>1. heights'[c] = heights[c]
        BY <1>2, <3>1, <3>4
      <4>2. x \in Sub(heap, c) => p \in Sub(heap, c)
        BY <1>1, <1>2, <3>4, Parents
      <4>3. \/ heights[a] > heights[c] \/ x \in Sub(heap, c)
            \/ \E m \in ElementsOf(vAVLTreeNodes) : m \in Sub(heap, c)
        BY <1>1, <2>3 DEF OrderInv, Pending
      <4> QED
        BY <1>5, <2>1, <3>1, <4>1, <4>2, <4>3
    <3> QED
      BY <3>2, <3>3, <3>4
  <2>4. OrderInv'
    BY <1>1, <1>2, <1>7, <1>8, <2>2, <2>3, QuietHeap DEF OrderInv, Pending
  <2> QED
    BY <1>3, <2>4
<1> QED
  BY <1>9, <1>10

LEMMA ReachTopAVLInv == AVLInv /\ ReachTop => HeightsInv' /\ OrderInv'
<1> SUFFICES ASSUME AVLInv, ReachTop PROVE HeightsInv' /\ OrderInv'
  OBVIOUS
<1>1. GoodHeap /\ HeightsInv /\ OrderInv /\ Measuring
  BY KeptTreeIsGood DEF AVLInv, ReachTop, Measuring
<1>2. /\ TmpNode \in Live /\ heap[TmpNode].parent = NULL /\ TmpNode' = NULL
      /\ heap' = heap /\ RootNode' = RootNode
      /\ vAVLTreeNodes' = vAVLTreeNodes /\ heights' = heights
  BY <1>1 DEF ReachTop, vars, HeightsInv, LivePtr
<1>3. HeightsInv'
  BY <1>1, <1>2, QuietHeap DEF HeightsInv, LivePtr
<1>4. \A a \in Live : \A c \in Children(a) : TmpNode \notin Sub(heap, c)
  <2> SUFFICES ASSUME NEW a \in Live, NEW c \in Children(a), TmpNode \in Sub(heap, c) PROVE FALSE
    OBVIOUS
  <2>1. c \in Live /\ heap[c].parent = a /\ NULL \notin Live /\ Sub(heap, c) \subseteq Live
    BY <1>1, GoodPointers DEF Children, LivePtr
  <2> QED
    BY <1>1, <1>2, <2>1, Parents
<1>5. ElementsOf(vAVLTreeNodes)' = ElementsOf(vAVLTreeNodes)
  BY <1>2 DEF ElementsOf
<1>6. Overflowed' = Overflowed
  BY <1>2, QuietHeap DEF Overflowed
<1>7. NULL \notin Leaves
  BY <1>1, GoodPointers DEF Leaves
<1>8. OrderInv'
  BY <1>1, <1>2, <1>4, <1>5, <1>6, <1>7, QuietHeap DEF OrderInv, Pending
<1> QED
  BY <1>3, <1>8

LEMMA PrintAVLInv ==
    AVLInv /\ heap' = heap /\ RootNode' = RootNode /\ UNCHANGED measureVars
      => HeightsInv' /\ OrderInv'
<1> SUFFICES ASSUME AVLInv, heap' = heap, RootNode' = RootNode, UNCHANGED measureVars
             PROVE  HeightsInv' /\ OrderInv'
  OBVIOUS
<1>1. heights' = heights /\ vAVLTreeNodes' = vAVLTreeNodes /\ TmpNode' = TmpNode
  BY DEF measureVars
<1>2. ElementsOf(vAVLTreeNodes)' = ElementsOf(vAVLTreeNodes)
  BY <1>1 DEF ElementsOf
<1>3. HeightsInv'
  BY <1>1, QuietHeap DEF AVLInv, HeightsInv
<1>4. Overflowed' = Overflowed
  BY <1>1, QuietHeap DEF Overflowed
<1>5. OrderInv'
  BY <1>1, <1>2, <1>4, QuietHeap DEF AVLInv, OrderInv, Measuring, Pending
<1> QED
  BY <1>3, <1>5

LEMMA NextAVLInv == AVLInv /\ (AVLNext \/ UNCHANGED avlVars) => AVLInv'
<1> SUFFICES ASSUME AVLInv, AVLNext \/ UNCHANGED avlVars PROVE AVLInv'
  OBVIOUS
<1>1. KeptTree'
  BY NextKeptTree DEF AVLInv
<1>2. CASE TreeStep
  BY <1>1, <1>2, TreeStepAVLInv DEF AVLInv
<1>3. CASE MeasureHeights
  BY <1>1, <1>3, CallAVLInv, TakeLeafAVLInv, ClimbAVLInv, ReachTopAVLInv DEF AVLInv, MeasureHeights
<1>4. CASE (printTree /\ UNCHANGED measureVars) \/ UNCHANGED avlVars
  <2>1. heap' = heap /\ RootNode' = RootNode /\ UNCHANGED measureVars
    BY <1>4 DEF printTree, CallPrintTree, PrintLevel, PrintReturn, avlVars, vars
  <2> QED
    BY <1>1, <2>1, PrintAVLInv DEF AVLInv
<1> QED
  BY <1>2, <1>3, <1>4 DEF AVLNext

LEMMA AVLInvHolds == AVLSpec => []AVLInv
<1>1. AVLInv /\ [AVLNext]_avlVars => AVLInv'
  BY NextAVLInv
<1> QED
  BY InitAVLInv, <1>1, PTL DEF AVLSpec

-----------------------------------------------------------------------------
(* The theorems about MeasureHeights *)

\* The node without parent is the root, and the root is in the subtree of no child.
LEMMA TopIsBelowNone ==
    ASSUME GoodHeap, NEW x \in Live, heap[x].parent = NULL
    PROVE  \A a \in Live : x \in Sub(heap, a) => a = x
<1> SUFFICES ASSUME NEW a \in Live, x \in Sub(heap, a), a # x PROVE FALSE
  OBVIOUS
<1>1. heap[x].parent \in Sub(heap, a)
  BY Parents
<1> QED
  BY <1>1, GoodPointers

\* The last step of MeasureHeights leaves heights that are in order unless, and only
\* unless, garbage brought a node below the root to the largest int; for every tree of
\* every size and whatever heights it started from.
THEOREM MeasuringPutsInOrder == AVLSpec => MeasuredDominate
<1> DEFINE NoneAtMax == \A a \in Live \ {RootNode} : heights'[a] # MaxInt
<1>1. AVLInv /\ [AVLNext]_avlVars => (Measuring /\ ~Measuring' => (Dominating' <=> NoneAtMax))
  <2> SUFFICES ASSUME AVLInv, AVLNext \/ UNCHANGED avlVars, Measuring, ~Measuring'
               PROVE  Dominating' <=> NoneAtMax
    OBVIOUS
  <2>1. GoodHeap /\ HeightsInv /\ OrderInv
    BY KeptTreeIsGood DEF AVLInv
  <2>2. ~TakeLeaf
    BY <2>1, TakenLeaf, GoodPointers DEF TakeLeaf, Measuring, Leaves
  <2>3. ReachTop
    BY <2>2 DEF AVLNext, TreeStep, MeasureHeights, CallMeasureHeights, Climb, avlVars, measureVars,
                Measuring
  <2>4. /\ TmpNode \in Live /\ heap[TmpNode].parent = NULL /\ vAVLTreeNodes = <<>>
        /\ heap' = heap /\ heights' = heights
    BY <2>1, <2>3 DEF ReachTop, HeightsInv, LivePtr, Measuring, vars
  <2>5. ElementsOf(vAVLTreeNodes) = {}
    BY <2>4 DEF ElementsOf
  <2>6. ASSUME NEW a \in Live, NEW c \in Children(a) PROVE ~Pending(c)
    <3>1. c \in Live /\ heap[c].parent = a /\ NULL \notin Live
      BY <2>1, GoodPointers DEF Children, LivePtr
    <3> QED
      BY <2>1, <2>4, <2>5, <3>1, TopIsBelowNone DEF Pending
  <2>7. NoneAtMax => Dominating
    <3>1. NoneAtMax => ~Overflowed
      BY <2>4 DEF Overflowed
    <3> QED
      BY <2>1, <2>5, <2>6, <3>1 DEF OrderInv, Dominating, Leaves
  <2>8. ASSUME Dominating, NEW a \in Live \ {RootNode} PROVE heights'[a] # MaxInt
    <3>1. PICK q \in Live : a \in Children(q)
      BY <2>1, Parents
    <3>2. heights[q] > heights[a]
      BY <2>8, <3>1 DEF Dominating
    <3>3. heights[q] \in MinInt..MaxInt /\ heights[a] \in MinInt..MaxInt
      BY <2>1, <2>8 DEF HeightsInv
    <3> QED
      BY <2>4, <3>2, <3>3, Ints
  <2> QED
    BY <2>4, <2>7, <2>8, QuietHeap DEF Dominating
<1> QED
  BY <1>1, AVLInvHolds, PTL DEF AVLSpec, MeasuredDominate

\* No step of a second measuring changes a height.
THEOREM MeasuringTwiceIsOnce == AVLSpec => MeasureAgainKeeps
<1>1. AVLInv /\ [AVLNext]_avlVars => (Dominating /\ heap' = heap => heights' = heights)
  <2> SUFFICES ASSUME AVLInv, AVLNext \/ UNCHANGED avlVars, Dominating, heap' = heap
               PROVE  heights' = heights
    OBVIOUS
  <2>1. GoodHeap /\ HeightsInv /\ heights \in [Live -> MinInt..MaxInt]
    BY KeptTreeIsGood DEF AVLInv, HeightsInv
  <2>2. CASE TreeStep
    <3>1. heights' = [a \in Live |-> heights[a]]
      BY <2>2, QuietHeap DEF TreeStep, HeightsFollow
    <3> QED
      BY <2>1, <3>1
  <2>3. CASE TakeLeaf
    <3> DEFINE l == Head(vAVLTreeNodes)
    <3>1. vAVLTreeNodes # <<>> /\ heights' = [heights EXCEPT ![l] = 0]
      BY <2>3 DEF TakeLeaf
    <3>2. l \in Live /\ IsLeafNode(l)
      BY <2>1, <3>1, TakenLeaf DEF Leaves
    <3> HIDE DEF l
    <3>3. heights[l] = 0
      BY <3>2 DEF Dominating
    <3> QED
      BY <2>1, <3>1, <3>3
  <2>4. CASE Climb
    <3>1. PICK p \in Live : /\ TmpNode \in Live /\ TmpNode \in Children(p)
                            /\ heights' \in [Live -> MinInt..MaxInt]
                            /\ \A a \in Live \ {p} : heights'[a] = heights[a]
                            /\ heights[TmpNode] # MaxInt =>
                                 heights'[p] = IF heights[p] >= heights[TmpNode] + 1
                                               THEN heights[p] ELSE heights[TmpNode] + 1
      BY <2>4, ClimbStep
    <3>2. /\ heights[p] > heights[TmpNode]
          /\ heights[p] \in Int /\ heights[p] <= MaxInt /\ heights[TmpNode] \in Int
      BY <2>1, <3>1, Ints DEF Dominating
    <3>3. heights'[p] = heights[p]
      BY <3>1, <3>2, Ints
    <3>4. \A a \in Live : heights'[a] = heights[a]
      BY <3>1, <3>3
    <3> QED
      BY <2>1, <3>1, <3>4
  <2> QED
    BY <2>2, <2>3, <2>4
    DEF AVLNext, MeasureHeights, CallMeasureHeights, ReachTop, avlVars, measureVars
<1> QED
  BY <1>1, AVLInvHolds, PTL DEF AVLSpec, MeasureAgainKeeps

\* One unfolding of Below.
BelowBy(f, n) == IF n = NULL THEN {} ELSE {n} \cup f[heap[n].left] \cup f[heap[n].right]

\* Below, computed from the children, is the least set that the proofs use.
LEMMA BelowIsSub ==
    ASSUME GoodHeap
    PROVE  \A a \in Live : Below[a] = Sub(heap, a)
<1> DEFINE F(f) == [n \in LivePtr |-> BelowBy(f, n)]
           g == [n \in LivePtr |-> Sub(heap, n)]
<1>1. ASSUME NEW a \in Live PROVE heap[a].left \in LivePtr /\ heap[a].right \in LivePtr /\ a # NULL
  BY GoodPointers
<1>2. g = F(g)
  <2>1. ASSUME NEW n \in LivePtr PROVE Sub(heap, n) = BelowBy(g, n)
    <3>1. CASE n = NULL
      BY <3>1, SubOfNull DEF BelowBy, GoodHeap
    <3>2. CASE n # NULL
      BY <1>1, <3>2, GoodSubtrees DEF BelowBy, LivePtr
    <3> QED
      BY <3>1, <3>2
  <2> QED
    BY <2>1
<1>3. Below = CHOOSE f : f = F(f)
  BY DEF Below, BelowBy
<1>4. Below = F(Below)
  <2> HIDE DEF F, g
  <2> QED
    BY <1>2, <1>3
<1>5. \A n \in LivePtr : Below[n] = BelowBy(Below, n)
  BY <1>4
<1> HIDE DEF F, g
<1> DEFINE T == {a \in Live : Below[a] # Sub(heap, a)}
<1> SUFFICES ASSUME T # {} PROVE FALSE
  OBVIOUS
<1>6. PICK a \in T : T \cap Sub(heap, heap[a].left) = {} /\ T \cap Sub(heap, heap[a].right) = {}
  <2>1. T \subseteq Live
    OBVIOUS
  <2> HIDE DEF T
  <2> QED
    BY <2>1, LowestNode
<1>7. ASSUME NEW c \in {heap[a].left, heap[a].right} PROVE Below[c] = Sub(heap, c)
  <2>1. CASE c = NULL
    BY <1>5, <2>1, SubOfNull DEF BelowBy, GoodHeap, LivePtr
  <2>2. CASE c # NULL
    <3>1. c \in Live
      BY <1>1, <2>2 DEF LivePtr
    <3>2. c \in Sub(heap, c)
      BY <3>1, GoodPointers
    <3> QED
      BY <1>6, <3>1, <3>2
  <2> QED
    BY <2>1, <2>2
<1>8. Below[a] = {a} \cup Below[heap[a].left] \cup Below[heap[a].right]
  BY <1>1, <1>5 DEF BelowBy, LivePtr
<1> QED
  BY <1>7, <1>8, GoodSubtrees

\* Every turn of the climb takes the node it leaves out of the nodes above, every climb
\* ends at the root, and no leaf is taken twice: MeasureHeights closes in on its end.
THEOREM MeasuringAdvances == AVLSpec => MeasureAdvances
<1> DEFINE UpTo(n) == IF n = NULL THEN {} ELSE Above(n)
           Turn == /\ TmpNode # NULL
                   /\ vAVLTreeNodes' = vAVLTreeNodes
                   /\ UpTo(TmpNode') = Above(TmpNode) \ {TmpNode}
           Take == /\ TmpNode = NULL
                   /\ IsLeafNode(TmpNode')
                   /\ vAVLTreeNodes = <<TmpNode'>> \o vAVLTreeNodes'
                   /\ TmpNode' \notin {vAVLTreeNodes'[i] : i \in DOMAIN vAVLTreeNodes'}
<1>1. AVLInv /\ AVLNext => (Measuring => Turn \/ Take)
  <2> SUFFICES ASSUME AVLInv, AVLNext, Measuring PROVE Turn \/ Take
    OBVIOUS
  <2>1. GoodHeap /\ HeightsInv
    BY KeptTreeIsGood DEF AVLInv
  <2>2. \A n : Above(n) = {a \in Live : n \in Sub(heap, a)}
    BY <2>1, BelowIsSub DEF Above
  <2>3. CASE TakeLeaf
    <3> DEFINE l == Head(vAVLTreeNodes)
               t == Tail(vAVLTreeNodes)
    <3>1. vAVLTreeNodes # <<>> /\ TmpNode = NULL /\ TmpNode' = l /\ vAVLTreeNodes' = t
      BY <2>3 DEF TakeLeaf
    <3>2. l \in Leaves /\ vAVLTreeNodes = <<l>> \o t /\ l \notin ElementsOf(t)
      BY <2>1, <3>1, TakenLeaf
    <3> HIDE DEF l, t
    <3> QED
      BY <3>1, <3>2 DEF Leaves, ElementsOf
  <2>4. CASE Climb
    <3>1. PICK p \in Live : /\ p = heap[TmpNode].parent
                            /\ TmpNode \in Live /\ TmpNode \in Children(p)
                            /\ vAVLTreeNodes' = vAVLTreeNodes /\ TmpNode' = p
      BY <2>4, ClimbStep
    <3>2. p # NULL /\ TmpNode # NULL /\ TmpNode \in Sub(heap, TmpNode)
      BY <2>1, <3>1, GoodPointers
    <3>3. TmpNode \in Sub(heap, p) /\ p \notin Sub(heap, TmpNode)
      BY <2>1, <3>1, <3>2, GoodSubtrees DEF Children
    <3>4. ASSUME NEW a \in Live, p \in Sub(heap, a) PROVE TmpNode \in Sub(heap, a) /\ a # TmpNode
      BY <3>3, <3>4, SubIsTransitive
    <3>5. ASSUME NEW a \in Live, TmpNode \in Sub(heap, a), a # TmpNode PROVE p \in Sub(heap, a)
      BY <2>1, <3>1, <3>5, Parents
    <3>6. Above(p) = Above(TmpNode) \ {TmpNode}
      BY <2>2, <3>4, <3>5
    <3> QED
      BY <3>1, <3>2, <3>6
  <2>5. CASE ReachTop
    <3>1. /\ TmpNode \in Live /\ TmpNode # NULL /\ heap[TmpNode].parent = NULL
          /\ TmpNode' = NULL /\ vAVLTreeNodes' = vAVLTreeNodes
      BY <2>1, <2>5 DEF ReachTop, HeightsInv, LivePtr
    <3>2. Above(TmpNode) \subseteq {TmpNode}
      BY <2>1, <2>2, <3>1, TopIsBelowNone
    <3>3. Above(TmpNode) \ {TmpNode} = {}
      BY <3>2
    <3> QED
      BY <3>1, <3>3
  <2> QED
    BY <2>3, <2>4, <2>5 DEF AVLNext, TreeStep, MeasureHeights, CallMeasureHeights
<1>2. AVLInv /\ [AVLNext]_avlVars => [Measuring => Turn \/ Take]_avlVars
  BY <1>1
<1> QED
  BY <1>2, AVLInvHolds, PTL DEF AVLSpec, MeasureAdvances

-----------------------------------------------------------------------------
(* Numbers and sequences *)

\* A set of natural numbers has a smallest one.
LEMMA SmallestOf == \A T \in SUBSET Nat : T # {} => \E m \in T : \A n \in T : m <= n
<1> SUFFICES ASSUME NEW T \in SUBSET Nat, T # {} PROVE \E m \in T : \A n \in T : m <= n
  OBVIOUS
<1> DEFINE R == OpToRel(<, Nat)
<1>1. \A m, n \in Nat : m < n => <<m, n>> \in R
  BY DEF OpToRel
<1>2. IsWellFoundedOn(R, Nat)
  BY NatLessThanWellFounded
<1> HIDE DEF R
<1>3. PICK m \in T : \A n \in T : ~(<<n, m>> \in R)
  BY WFMin, <1>2
<1>4. m \in Nat /\ \A n \in T : n \in Nat /\ ~(n < m)
  BY <1>1, <1>3
<1> QED
  BY <1>4

\* Two sequences, one behind the other.
LEMMA Concatenated ==
    ASSUME NEW S, NEW s \in Seq(S), NEW t \in Seq(S)
    PROVE  /\ s \o t \in Seq(S) /\ Len(s \o t) = Len(s) + Len(t)
           /\ \A k \in 1..Len(s) : (s \o t)[k] = s[k]
           /\ \A k \in 1..Len(t) : (s \o t)[Len(s) + k] = t[k]
OBVIOUS

\* v holds, one after the other, the first i pairs of s.
Unpaired(S, s, i, v) ==
    /\ v \in Seq(S) /\ Len(v) = 2 * i
    /\ \A k \in 1..i : v[2 * k - 1] = s[k][1] /\ v[2 * k] = s[k][2]

\* One pair more.
LEMMA UnpairedStep ==
    ASSUME NEW S, NEW s, NEW i \in Nat, s[i + 1] \in Seq(S), Len(s[i + 1]) = 2,
           NEW v, Unpaired(S, s, i, v)
    PROVE  Unpaired(S, s, i + 1, v \o s[i + 1])
<1> DEFINE p == s[i + 1]
           u == v \o p
<1>1. /\ v \in Seq(S) /\ Len(v) = 2 * i
      /\ \A k \in 1..i : v[2 * k - 1] = s[k][1] /\ v[2 * k] = s[k][2]
  BY DEF Unpaired
<1>2. p \in Seq(S) /\ Len(p) = 2
  OBVIOUS
<1> HIDE DEF p
<1>3. v \in Seq(S) /\ p \in Seq(S)
  BY <1>1, <1>2
<1>4. /\ u \in Seq(S) /\ Len(u) = Len(v) + Len(p)
      /\ \A k \in 1..Len(v) : u[k] = v[k]
      /\ \A k \in 1..Len(p) : u[Len(v) + k] = p[k]
  BY ONLY <1>3, Concatenated
<1> HIDE DEF u
<1>5. u[2 * i + 1] = p[1] /\ u[2 * i + 2] = p[2] /\ Len(u) = 2 * (i + 1)
  BY <1>1, <1>2, <1>4
<1>6. ASSUME NEW k \in 1..(i + 1) PROVE u[2 * k - 1] = s[k][1] /\ u[2 * k] = s[k][2]
  <2>1. CASE k = i + 1
    <3>1. 2 * k - 1 = 2 * i + 1 /\ 2 * k = 2 * i + 2
      BY <2>1
    <3> QED
      BY <1>5, <2>1, <3>1 DEF p
  <2>2. CASE k # i + 1
    <3>1. k \in 1..i /\ 2 * k - 1 \in 1..(2 * i) /\ 2 * k \in 1..(2 * i)
      BY <2>2
    <3> QED
      BY <1>1, <1>4, <3>1
  <2> QED
    BY <2>1, <2>2
<1> QED
  BY <1>4, <1>5, <1>6 DEF Unpaired, u, p

\* A place of 2n belongs to one of n pairs.
LEMMA PairOf ==
    ASSUME NEW n \in Nat, NEW q \in 1..(2 * n)
    PROVE  \E p \in 1..n : q = 2 * p - 1 \/ q = 2 * p
<1>1. CASE q % 2 = 0
  <2>1. q \div 2 \in 1..n /\ q = 2 * (q \div 2)
    BY <1>1
  <2> QED
    BY <2>1
<1>2. CASE q % 2 = 1
  <2>1. (q + 1) \div 2 \in 1..n /\ q = 2 * ((q + 1) \div 2) - 1
    BY <1>2
  <2> QED
    BY <2>1
<1> QED
  BY <1>1, <1>2

\* There is one such v,
LEMMA UnpairedUnique ==
    ASSUME NEW S, NEW s, NEW i \in Nat, NEW u, NEW v, Unpaired(S, s, i, u), Unpaired(S, s, i, v)
    PROVE  u = v
<1>1. u \in Seq(S) /\ v \in Seq(S) /\ Len(u) = 2 * i /\ Len(v) = 2 * i
  BY DEF Unpaired
<1>2. ASSUME NEW k \in 1..(2 * i) PROVE u[k] = v[k]
  <2>1. PICK m \in 1..i : k = 2 * m - 1 \/ k = 2 * m
    BY PairOf
  <2> QED
    BY <2>1 DEF Unpaired
<1> QED
  BY <1>1, <1>2

\* and there is one for every sequence of pairs.
LEMMA UnpairedExists ==
    ASSUME NEW S, NEW s \in Seq(Seq(S)), \A k \in 1..Len(s) : Len(s[k]) = 2,
           NEW i \in 0..Len(s)
    PROVE  \E v : Unpaired(S, s, i, v)
<1> DEFINE Has(n) == \E v : Unpaired(S, s, n, v)
           T == {n \in 0..Len(s) : ~Has(n)}
<1> SUFFICES ASSUME T # {} PROVE FALSE
  OBVIOUS
<1>1. PICK m \in T : \A n \in T : m <= n
  <2>1. T \in SUBSET Nat
    OBVIOUS
  <2> HIDE DEF T
  <2> QED
    BY <2>1, SmallestOf
<1>2. Has(0)
  <2>1. Unpaired(S, s, 0, <<>>)
    BY DEF Unpaired
  <2> QED
    BY <2>1
<1>3. m - 1 \in 0..Len(s) /\ (m - 1) + 1 = m /\ m - 1 \in Nat /\ m \in 1..Len(s)
  BY <1>1, <1>2
<1>4. Has(m - 1)
  <2>1. m - 1 \notin T
    <3> HIDE DEF T
    <3> QED
      BY <1>1, <1>3
  <2> QED
    BY <1>3, <2>1
<1>5. PICK v : Unpaired(S, s, m - 1, v)
  BY <1>4
<1>6. s[m] \in Seq(S) /\ Len(s[m]) = 2
  BY <1>3
<1>7. Unpaired(S, s, m, v \o s[m])
  BY <1>3, <1>5, <1>6, UnpairedStep
<1> QED
  BY <1>1, <1>7

\* FlattenSeq puts the pairs of a sequence one after the other.
LEMMA FlattenPairs ==
    ASSUME NEW S, NEW s \in Seq(Seq(S)), \A k \in 1..Len(s) : Len(s[k]) = 2
    PROVE  Unpaired(S, s, Len(s), FlattenSeq(s))
<1> DEFINE n == Len(s)
           Step(f, i) == IF i = 1 THEN s[i] ELSE f[i - 1] \o s[i]
           F(f) == [i \in 1..n |-> Step(f, i)]
           g == [i \in 1..n |-> CHOOSE v : Unpaired(S, s, i, v)]
<1>1. n \in Nat /\ (\A i \in 1..n : s[i] \in Seq(S) /\ Len(s[i]) = 2)
  OBVIOUS
<1>2. \A i \in 1..n : Unpaired(S, s, i, g[i])
  BY <1>1, UnpairedExists
<1> HIDE DEF g
<1>3. ASSUME NEW f, NEW i \in 1..n, i > 1 => Unpaired(S, s, i - 1, f[i - 1])
      PROVE  Unpaired(S, s, i, Step(f, i))
  <2>1. i \in Nat /\ i - 1 \in Nat /\ (i - 1) + 1 = i /\ s[i] \in Seq(S) /\ Len(s[i]) = 2
    BY <1>1
  <2>2. CASE i = 1
    BY <2>1, <2>2 DEF Unpaired
  <2>3. CASE i # 1
    <3>1. Unpaired(S, s, i - 1, f[i - 1])
      BY <1>3, <2>1, <2>3
    <3>2. Unpaired(S, s, i, f[i - 1] \o s[i])
      BY <2>1, <3>1, UnpairedStep
    <3> QED
      BY <2>3, <3>2
  <2> QED
    BY <2>2, <2>3
<1>4. ASSUME NEW i \in 1..n PROVE g[i] = Step(g, i)
  <2>1. i > 1 => i - 1 \in 1..n
    BY <1>1
  <2>2. i > 1 => Unpaired(S, s, i - 1, g[i - 1])
    BY <1>2, <2>1
  <2> HIDE DEF Step
  <2>3. Unpaired(S, s, i, Step(g, i))
    BY <1>3, <2>2
  <2>4. Unpaired(S, s, i, g[i]) /\ i \in Nat
    BY <1>1, <1>2
  <2> QED
    BY <2>3, <2>4, UnpairedUnique
<1>5. g = F(g)
  <2>1. g = [i \in 1..n |-> g[i]]
    BY DEF g
  <2> HIDE DEF Step
  <2> QED
    BY <1>4, <2>1
<1> DEFINE flatten == CHOOSE v : v = F(v)
<1>6. n # 0 => FlattenSeq(s) = flatten[n]
  BY DEF FlattenSeq
<1>7. flatten = F(flatten)
  <2> HIDE DEF F
  <2> QED
    BY <1>5
<1> HIDE DEF flatten
<1>8. \A i \in 1..n : flatten[i] = Step(flatten, i)
  BY <1>7
<1> DEFINE T == {i \in 1..n : ~Unpaired(S, s, i, flatten[i])}
<1>9. T = {}
  <2> SUFFICES ASSUME T # {} PROVE FALSE
    OBVIOUS
  <2>1. PICK m \in T : \A k \in T : m <= k
    <3>1. T \in SUBSET Nat
      OBVIOUS
    <3> HIDE DEF T
    <3> QED
      BY <3>1, SmallestOf
  <2>2. m > 1 => Unpaired(S, s, m - 1, flatten[m - 1])
    BY <1>1, <2>1
  <2> HIDE DEF Step
  <2> QED
    BY <1>3, <1>8, <2>1, <2>2
<1>10. CASE n = 0
  <2>1. FlattenSeq(s) = s /\ s = <<>>
    BY <1>10 DEF FlattenSeq
  <2> QED
    BY <1>10, <2>1 DEF Unpaired
<1>11. CASE n # 0
  BY <1>1, <1>6, <1>9, <1>11
<1> QED
  BY <1>10, <1>11

\* A power of two counts subsets.
LEMMA PowerOfTwo ==
    ASSUME NEW n \in Nat
    PROVE  2^n \in Nat /\ 2^n > 0 /\ 2^(n + 1) = 2 * 2^n
<1> DEFINE S == 1..n
           A == SUBSET S
           B == {s \cup {n + 1} : s \in A}
           f == [s \in A |-> s \cup {n + 1}]
<1>1. /\ IsFiniteSet(S) /\ Cardinality(S) = n
      /\ IsFiniteSet(1..(n + 1)) /\ Cardinality(1..(n + 1)) = n + 1
  BY FS_Interval
<1>2. IsFiniteSet(A) /\ Cardinality(A) = 2^n
  BY <1>1, FS_SUBSET
<1>3. Cardinality(SUBSET (1..(n + 1))) = 2^(n + 1)
  BY <1>1, FS_SUBSET
<1>4. n + 1 \notin S /\ 1..(n + 1) = S \cup {n + 1}
  OBVIOUS
<1>5. SUBSET (1..(n + 1)) = A \cup B /\ A \cap B = {}
  <2> HIDE DEF S
  <2>1. A \cap B = {}
    BY <1>4
  <2>2. ASSUME NEW t \in SUBSET (1..(n + 1)) PROVE t \in A \cup B
    <3>1. CASE n + 1 \in t
      <4>1. t = (t \ {n + 1}) \cup {n + 1} /\ t \ {n + 1} \in A
        BY <1>4, <3>1
      <4> QED
        BY <4>1
    <3>2. CASE n + 1 \notin t
      BY <1>4, <3>2
    <3> QED
      BY <3>1, <3>2
  <2>3. A \cup B \subseteq SUBSET (1..(n + 1))
    BY <1>4
  <2> QED
    BY <2>1, <2>2, <2>3
<1>6. ExistsBijection(A, B)
  <2> HIDE DEF S
  <2>1. f \in [A -> B] /\ \A t \in B : \E s \in A : f[s] = t
    OBVIOUS
  <2>2. ASSUME NEW s \in A, NEW t \in A, f[s] = f[t] PROVE s = t
    <3>1. s \cup {n + 1} = t \cup {n + 1} /\ n + 1 \notin s /\ n + 1 \notin t
      BY <1>4, <2>2
    <3> QED
      BY <3>1
  <2> HIDE DEF f
  <2> QED
    BY <2>1, <2>2, Fun_IsBij DEF ExistsBijection
<1>7. IsFiniteSet(B) /\ Cardinality(B) = 2^n
  BY <1>2, <1>6, FS_Bijection
<1>8. 2^n \in Nat
  BY <1>2, FS_CardinalityType
<1>9. 2^n # 0
  <2>1. {} \in A
    OBVIOUS
  <2> QED
    BY <1>2, <2>1, FS_EmptySet
<1>10. Cardinality(A \cup B) = 2^n + 2^n
  <2>1. Cardinality(A \cup B) = Cardinality(A) + Cardinality(B) - Cardinality(A \cap B)
    BY <1>2, <1>7, FS_Union
  <2>2. Cardinality(A \cap B) = 0
    BY <1>5, FS_EmptySet
  <2> HIDE DEF A, B
  <2> QED
    BY <1>2, <1>7, <1>8, <2>1, <2>2
<1>11. 2^(n + 1) = 2^n + 2^n
  BY <1>3, <1>5, <1>10
<1> QED
  BY <1>8, <1>9, <1>11

\* The empty set has one subset.
LEMMA PowerOfZero == 2^0 = 1
<1>1. SUBSET {} = {{}}
  OBVIOUS
<1> QED
  BY <1>1, FS_SUBSET, FS_EmptySet, FS_Singleton

\* A larger set has more subsets.
LEMMA PowersGrow ==
    ASSUME NEW m \in Nat, NEW n \in Nat, m <= n
    PROVE  2^m <= 2^n
<1>1. /\ IsFiniteSet(1..m) /\ Cardinality(1..m) = m
      /\ IsFiniteSet(1..n) /\ Cardinality(1..n) = n
  BY FS_Interval
<1>2. /\ IsFiniteSet(SUBSET (1..n)) /\ Cardinality(SUBSET (1..n)) = 2^n
      /\ Cardinality(SUBSET (1..m)) = 2^m
  BY <1>1, FS_SUBSET
<1>3. SUBSET (1..m) \in SUBSET (SUBSET (1..n))
  <2>1. 1..m \subseteq 1..n
    OBVIOUS
  <2> QED
    BY <2>1
<1> QED
  BY <1>2, <1>3, FS_Subset

-----------------------------------------------------------------------------
(* One level of printTree and the next *)

LeftOf(n) == IF n = NULL THEN NULL ELSE heap[n].left
RightOf(n) == IF n = NULL THEN NULL ELSE heap[n].right

\* Place k of a level has its children at places 2k - 1 and 2k of the level below.
Descends(upper, lower) ==
    /\ Len(lower) = 2 * Len(upper)
    /\ \A k \in 1..Len(upper) : /\ lower[2 * k - 1] = LeftOf(upper[k])
                                /\ lower[2 * k] = RightOf(upper[k])

\* The vector that printTree goes on with has the children of the one it printed.
LEMMA LevelBelowDescends ==
    ASSUME GoodHeap, NEW nodes \in Seq(LivePtr)
    PROVE  LevelBelow(nodes) \in Seq(LivePtr) /\ Descends(nodes, LevelBelow(nodes))
<1> DEFINE pair(n) == IF n = NULL THEN <<NULL, NULL>> ELSE <<heap[n].left, heap[n].right>>
           s == [k \in DOMAIN nodes |-> pair(nodes[k])]
<1>1. ASSUME NEW n \in LivePtr
      PROVE  /\ pair(n) \in Seq(LivePtr) /\ Len(pair(n)) = 2
             /\ pair(n)[1] = LeftOf(n) /\ pair(n)[2] = RightOf(n)
  <2>1. LeftOf(n) \in LivePtr /\ RightOf(n) \in LivePtr
    BY GoodPointers DEF LeftOf, RightOf, LivePtr
  <2>2. pair(n) = <<LeftOf(n), RightOf(n)>>
    BY DEF LeftOf, RightOf
  <2> QED
    BY <2>1, <2>2
<1> HIDE DEF pair
<1>2. /\ DOMAIN nodes = 1..Len(nodes) /\ Len(nodes) \in Nat
      /\ \A k \in 1..Len(nodes) : nodes[k] \in LivePtr
  OBVIOUS
<1>3. s \in Seq(Seq(LivePtr)) /\ Len(s) = Len(nodes)
  BY <1>1, <1>2
<1>4. \A k \in 1..Len(nodes) : /\ Len(s[k]) = 2
                               /\ s[k][1] = LeftOf(nodes[k]) /\ s[k][2] = RightOf(nodes[k])
  BY <1>1, <1>2
<1>5. LevelBelow(nodes) = FlattenSeq(s)
  BY DEF LevelBelow, pair
<1> HIDE DEF s
<1>6. Unpaired(LivePtr, s, Len(s), FlattenSeq(s))
  BY <1>3, <1>4, FlattenPairs
<1> QED
  BY <1>3, <1>4, <1>5, <1>6 DEF Unpaired, Descends

-----------------------------------------------------------------------------
(* The levels that a call of printTree has passed *)

\* levels are the vectors that were printed, and the one to print.
PictureOf(levels, lines, nodes) ==
    /\ levels \in Seq(Seq(LivePtr)) /\ Len(levels) = Len(lines) + 1
    /\ levels[1] = <<RootNode>> /\ levels[Len(levels)] = nodes
    /\ \A i \in 1..Len(lines) : /\ lines[i] = KeysOf(levels[i])
                                /\ Descends(levels[i], levels[i + 1])
                                /\ \E k \in 1..Len(levels[i]) : levels[i][k] # NULL

IsPicture(levels) == PictureOf(levels, printed, vNodes)

PrintInv ==
    /\ printed \in Seq(Seq(Key \cup {NULL}))
    /\ ~Printing => printed = <<>>
    /\ Printing => \E levels : IsPicture(levels)

\* Types of all levels.
LEMMA PictureTypes ==
    ASSUME GoodHeap, PrintInv, NEW levels, IsPicture(levels)
    PROVE  /\ Len(printed) \in Nat /\ DOMAIN printed = 1..Len(printed)
           /\ \A i \in 1..(Len(printed) + 1) :
                 /\ levels[i] \in Seq(LivePtr)
                 /\ Len(levels[i]) \in Nat /\ DOMAIN levels[i] = 1..Len(levels[i])
                 /\ \A k \in 1..Len(levels[i]) : levels[i][k] \in LivePtr
<1>1. /\ levels \in Seq(Seq(LivePtr)) /\ Len(levels) = Len(printed) + 1
      /\ printed \in Seq(Seq(Key \cup {NULL}))
  BY DEF IsPicture, PictureOf, PrintInv
<1>2. Len(printed) \in Nat /\ DOMAIN printed = 1..Len(printed)
  BY <1>1
<1>3. \A i \in 1..(Len(printed) + 1) : levels[i] \in Seq(LivePtr)
  BY <1>1
<1> QED
  BY <1>2, <1>3

\* What holds of the first level, and of the one below whenever it holds, holds of all.
LEMMA LevelByLevel ==
    ASSUME NEW n \in Nat, NEW D, 1 \in D, \A i \in 1..n : i \in D => i + 1 \in D
    PROVE  1..(n + 1) \subseteq D
<1> DEFINE T == {i \in 1..(n + 1) : i \notin D}
<1> SUFFICES ASSUME T # {} PROVE FALSE
  OBVIOUS
<1>1. PICK m \in T : \A i \in T : m <= i
  <2>1. T \in SUBSET Nat
    OBVIOUS
  <2> HIDE DEF T
  <2> QED
    BY <2>1, SmallestOf
<1>2. m # 1 /\ m \in 1..(n + 1) /\ m \notin D
  BY <1>1
<1>3. m - 1 \in 1..n /\ (m - 1) + 1 = m
  BY <1>2
<1>4. m - 1 \notin D
  BY <1>2, <1>3
<1>5. m - 1 \in T /\ ~(m <= m - 1)
  BY <1>3, <1>4
<1> QED
  BY <1>1, <1>5

\* A level has a place for every path.
LEMMA LevelLength ==
    ASSUME GoodHeap, PrintInv, NEW levels, IsPicture(levels)
    PROVE  \A i \in 1..(Len(printed) + 1) : Len(levels[i]) = 2^(i - 1)
<1> DEFINE D == {i \in 1..(Len(printed) + 1) : Len(levels[i]) = 2^(i - 1)}
<1>1. Len(printed) \in Nat
  BY PictureTypes
<1>2. 1 \in D
  <2>1. Len(levels[1]) = 1
    BY DEF IsPicture, PictureOf
  <2>2. 2^(1 - 1) = 1
    BY PowerOfZero
  <2> QED
    BY <1>1, <2>1, <2>2
<1>3. ASSUME NEW i \in 1..Len(printed), i \in D PROVE i + 1 \in D
  <2>1. Len(levels[i + 1]) = 2 * Len(levels[i])
    BY DEF IsPicture, PictureOf, Descends
  <2>2. i - 1 \in Nat /\ (i - 1) + 1 = i /\ (i + 1) - 1 = i
    BY <1>1
  <2>3. 2^i = 2 * 2^(i - 1)
    BY <2>2, PowerOfTwo
  <2> QED
    BY <1>1, <1>3, <2>1, <2>2, <2>3
<1> HIDE DEF D
<1>4. 1..(Len(printed) + 1) \subseteq D
  BY <1>1, <1>2, <1>3, LevelByLevel
<1> QED
  BY <1>4 DEF D

\* A node below the root stands under its parent.
LEMMA PlaceAbove ==
    ASSUME GoodHeap, PrintInv, NEW levels, IsPicture(levels),
           NEW i \in 1..Len(printed), NEW q \in 1..Len(levels[i + 1]), levels[i + 1][q] # NULL
    PROVE  \E p \in 1..Len(levels[i]) :
              /\ levels[i][p] \in Live /\ levels[i + 1][q] \in Live
              /\ heap[levels[i + 1][q]].parent = levels[i][p]
              /\ \/ q = 2 * p - 1 /\ levels[i + 1][q] = heap[levels[i][p]].left
                 \/ q = 2 * p     /\ levels[i + 1][q] = heap[levels[i][p]].right
<1>1. /\ Len(levels[i]) \in Nat /\ Len(levels[i + 1]) = 2 * Len(levels[i])
      /\ \A p \in 1..Len(levels[i]) : /\ levels[i + 1][2 * p - 1] = LeftOf(levels[i][p])
                                      /\ levels[i + 1][2 * p] = RightOf(levels[i][p])
                                      /\ levels[i][p] \in LivePtr
  <2>1. i \in 1..(Len(printed) + 1)
    BY PictureTypes
  <2>2. Descends(levels[i], levels[i + 1])
    BY DEF IsPicture, PictureOf
  <2> QED
    BY <2>1, <2>2, PictureTypes DEF Descends
<1>2. PICK p \in 1..Len(levels[i]) : q = 2 * p - 1 \/ q = 2 * p
  <2>1. q \in 1..(2 * Len(levels[i]))
    BY <1>1
  <2> QED
    BY <1>1, <2>1, PairOf
<1> DEFINE x == levels[i][p]
           c == levels[i + 1][q]
<1>3. \/ q = 2 * p - 1 /\ c = LeftOf(x)
      \/ q = 2 * p /\ c = RightOf(x)
  BY <1>1, <1>2
<1>4. x \in LivePtr /\ c # NULL
  BY <1>1
<1> HIDE DEF x, c
<1>5. x \in Live
  BY <1>3, <1>4 DEF LeftOf, RightOf, LivePtr
<1>6. x # NULL
  BY <1>5, GoodPointers
<1>7. \/ q = 2 * p - 1 /\ c = heap[x].left
      \/ q = 2 * p     /\ c = heap[x].right
  BY <1>3, <1>6 DEF LeftOf, RightOf
<1>8. c \in Live
  BY <1>4, <1>5, <1>7, GoodPointers DEF LivePtr
<1>9. heap[c].parent = x
  BY <1>5, <1>7, <1>8, GoodPointers
<1> QED
  BY <1>5, <1>7, <1>8, <1>9 DEF x, c

\* The nodes that have x in their subtree, x included.
Ancestors(x) == {a \in Live : x \in Sub(heap, a)}

\* A child has one more than its parent: itself.
LEMMA AncestorsOfChild ==
    ASSUME GoodHeap, NEW x \in Live, NEW c \in Live, c \in {heap[x].left, heap[x].right}
    PROVE  Ancestors(c) = Ancestors(x) \cup {c} /\ c \notin Ancestors(x)
<1>1. heap[c].parent = x /\ c \in Sub(heap, c) /\ c # NULL /\ x # NULL
  BY GoodPointers
<1>2. c \in Sub(heap, x) /\ x \notin Sub(heap, c)
  BY <1>1, GoodSubtrees
<1>3. ASSUME NEW a \in Live, x \in Sub(heap, a) PROVE c \in Sub(heap, a)
  BY <1>2, <1>3, SubIsTransitive
<1>4. ASSUME NEW a \in Live, c \in Sub(heap, a), a # c PROVE x \in Sub(heap, a)
  BY <1>1, <1>4, Parents
<1> QED
  BY <1>1, <1>2, <1>3, <1>4 DEF Ancestors

\* The root has itself alone.
LEMMA AncestorsOfRoot ==
    ASSUME GoodHeap
    PROVE  Ancestors(RootNode) = {RootNode}
<1>1. RootNode \in Live /\ RootNode \in Sub(heap, RootNode) /\ heap[RootNode].parent = NULL
  BY GoodPointers, Parents
<1> QED
  BY <1>1, TopIsBelowNone DEF Ancestors

\* A node has as many ancestors as its level has a number.
LEMMA LevelIsDepth ==
    ASSUME GoodHeap, PrintInv, NEW levels, IsPicture(levels)
    PROVE  \A i \in 1..(Len(printed) + 1) : \A k \in 1..Len(levels[i]) :
              levels[i][k] # NULL => Cardinality(Ancestors(levels[i][k])) = i
<1> DEFINE Deep(i) == \A k \in 1..Len(levels[i]) :
                         levels[i][k] # NULL => Cardinality(Ancestors(levels[i][k])) = i
           D == {i \in 1..(Len(printed) + 1) : Deep(i)}
<1>1. Len(printed) \in Nat
  BY PictureTypes
<1>2. Deep(1)
  <2>1. levels[1] = <<RootNode>>
    BY DEF IsPicture, PictureOf
  <2>2. Cardinality(Ancestors(RootNode)) = 1
    BY AncestorsOfRoot, FS_Singleton
  <2> QED
    BY <2>1, <2>2
<1>3. ASSUME NEW i \in 1..Len(printed), Deep(i) PROVE Deep(i + 1)
  <2> SUFFICES ASSUME NEW q \in 1..Len(levels[i + 1]), levels[i + 1][q] # NULL
               PROVE  Cardinality(Ancestors(levels[i + 1][q])) = i + 1
    OBVIOUS
  <2>1. PICK p \in 1..Len(levels[i]) :
           /\ levels[i][p] \in Live /\ levels[i + 1][q] \in Live
           /\ levels[i + 1][q] \in {heap[levels[i][p]].left, heap[levels[i][p]].right}
    BY PlaceAbove
  <2> DEFINE x == levels[i][p]
             c == levels[i + 1][q]
  <2>2. x # NULL
    BY <2>1, GoodPointers
  <2>3. Cardinality(Ancestors(x)) = i
    BY <1>3, <2>2
  <2> HIDE DEF x, c
  <2>4. Ancestors(c) = Ancestors(x) \cup {c} /\ c \notin Ancestors(x)
    BY <2>1, AncestorsOfChild DEF x, c
  <2>5. IsFiniteSet(Ancestors(x))
    BY FS_Subset DEF Ancestors, GoodHeap
  <2>6. Cardinality(Ancestors(c)) = i + 1
    BY <2>3, <2>4, <2>5, FS_AddElement
  <2> QED
    BY <2>6 DEF c
<1> HIDE DEF Deep
<1>4. 1..(Len(printed) + 1) \subseteq D
  <2>1. 1 \in D /\ \A i \in 1..Len(printed) : i \in D => i + 1 \in D
    BY <1>1, <1>2, <1>3
  <2> HIDE DEF D
  <2> QED
    BY <1>1, <2>1, LevelByLevel
<1> QED
  BY <1>4 DEF Deep

\* No node has two places in a level.
LEMMA OnePlace ==
    ASSUME GoodHeap, PrintInv, NEW levels, IsPicture(levels)
    PROVE  \A i \in 1..(Len(printed) + 1) : \A k, m \in 1..Len(levels[i]) :
              levels[i][k] # NULL /\ levels[i][k] = levels[i][m] => k = m
<1> DEFINE Once(i) == \A k, m \in 1..Len(levels[i]) :
                         levels[i][k] # NULL /\ levels[i][k] = levels[i][m] => k = m
           D == {i \in 1..(Len(printed) + 1) : Once(i)}
<1>1. Len(printed) \in Nat
  BY PictureTypes
<1>2. Once(1)
  <2>1. Len(levels[1]) = 1
    BY DEF IsPicture, PictureOf
  <2> QED
    BY <2>1
<1>3. ASSUME NEW i \in 1..Len(printed), Once(i) PROVE Once(i + 1)
  <2> SUFFICES ASSUME NEW k \in 1..Len(levels[i + 1]), NEW m \in 1..Len(levels[i + 1]),
                      levels[i + 1][k] # NULL, levels[i + 1][k] = levels[i + 1][m]
               PROVE  k = m
    OBVIOUS
  <2> DEFINE Under(q, p) ==
                 /\ levels[i][p] \in Live /\ levels[i + 1][q] \in Live
                 /\ heap[levels[i + 1][q]].parent = levels[i][p]
                 /\ \/ q = 2 * p - 1 /\ levels[i + 1][q] = heap[levels[i][p]].left
                    \/ q = 2 * p     /\ levels[i + 1][q] = heap[levels[i][p]].right
             c == levels[i + 1][k]
  <2>0. ASSUME NEW q \in 1..Len(levels[i + 1]), levels[i + 1][q] # NULL
        PROVE  \E p \in 1..Len(levels[i]) : Under(q, p)
    BY <2>0, PlaceAbove
  <2> HIDE DEF Under
  <2>a. (\E p \in 1..Len(levels[i]) : Under(k, p)) /\ (\E p \in 1..Len(levels[i]) : Under(m, p))
    BY <2>0
  <2>b. PICK p \in 1..Len(levels[i]), r \in 1..Len(levels[i]) : Under(k, p) /\ Under(m, r)
    BY <2>a
  <2>1. /\ levels[i][p] \in Live /\ c \in Live /\ heap[c].parent = levels[i][p]
        /\ \/ k = 2 * p - 1 /\ c = heap[levels[i][p]].left
           \/ k = 2 * p     /\ c = heap[levels[i][p]].right
    BY <2>b DEF Under
  <2>2. /\ levels[i][r] \in Live /\ heap[c].parent = levels[i][r]
        /\ \/ m = 2 * r - 1 /\ c = heap[levels[i][r]].left
           \/ m = 2 * r     /\ c = heap[levels[i][r]].right
    BY <2>b DEF Under
  <2>3. p = r
    <3>1. levels[i][p] # NULL /\ levels[i][p] = levels[i][r]
      BY <2>1, <2>2, GoodPointers
    <3> QED
      BY <1>3, <3>1
  <2>4. ~(c = heap[levels[i][p]].left /\ c = heap[levels[i][p]].right)
    <3>1. c \in Sub(heap, c)
      BY <2>1, GoodPointers
    <3> QED
      BY <2>1, <3>1, GoodSubtrees
  <2> HIDE DEF c
  <2> QED
    BY <2>1, <2>2, <2>3, <2>4
<1> HIDE DEF Once
<1>4. 1..(Len(printed) + 1) \subseteq D
  <2>1. 1 \in D /\ \A i \in 1..Len(printed) : i \in D => i + 1 \in D
    BY <1>1, <1>2, <1>3
  <2> HIDE DEF D
  <2> QED
    BY <1>1, <2>1, LevelByLevel
<1> QED
  BY <1>4 DEF Once

\* No node is lost: it has been printed, or it is below the level to print.
LEMMA NoneMissed ==
    ASSUME GoodHeap, PrintInv, NEW levels, IsPicture(levels)
    PROVE  \A a \in Live :
              \/ \E i \in 1..Len(printed) : \E k \in 1..Len(levels[i]) : levels[i][k] = a
              \/ \E q \in 1..Len(vNodes) : a \in Sub(heap, vNodes[q])
<1> SUFFICES ASSUME NEW a \in Live
             PROVE  \/ \E i \in 1..Len(printed) : \E k \in 1..Len(levels[i]) : levels[i][k] = a
                    \/ \E q \in 1..Len(vNodes) : a \in Sub(heap, vNodes[q])
  OBVIOUS
<1> DEFINE Passed(i) == \E k \in 1..Len(levels[i]) : levels[i][k] = a
           Reached(i) == \E q \in 1..Len(levels[i]) : a \in Sub(heap, levels[i][q])
           D == {i \in 1..(Len(printed) + 1) : (\E j \in 1..Len(printed) : Passed(j)) \/ Reached(i)}
<1>1. Len(printed) \in Nat
  BY PictureTypes
<1>2. Reached(1)
  <2>1. levels[1] = <<RootNode>>
    BY DEF IsPicture, PictureOf
  <2>2. a \in Sub(heap, RootNode)
    BY GoodPointers
  <2> QED
    BY <2>1, <2>2
<1>3. ASSUME NEW i \in 1..Len(printed), Reached(i) PROVE Passed(i) \/ Reached(i + 1)
  <2>1. PICK q \in 1..Len(levels[i]) : a \in Sub(heap, levels[i][q])
    BY <1>3
  <2>2. /\ Len(levels[i]) \in Nat /\ Len(levels[i + 1]) = 2 * Len(levels[i])
        /\ levels[i + 1][2 * q - 1] = LeftOf(levels[i][q])
        /\ levels[i + 1][2 * q] = RightOf(levels[i][q])
        /\ levels[i][q] \in LivePtr
    <3>1. i \in 1..(Len(printed) + 1)
      BY <1>1
    <3>2. Descends(levels[i], levels[i + 1])
      BY DEF IsPicture, PictureOf
    <3> QED
      BY <3>1, <3>2, PictureTypes DEF Descends
  <2> DEFINE x == levels[i][q]
  <2>3. x \in Live /\ x # NULL
    <3>1. Sub(heap, NULL) = {}
      BY GoodSubtrees
    <3> QED
      BY <2>1, <2>2, <3>1, GoodPointers DEF LivePtr
  <2>4. a = x \/ a \in Sub(heap, heap[x].left) \/ a \in Sub(heap, heap[x].right)
    BY <2>1, <2>3, GoodSubtrees
  <2>5. /\ 2 * q - 1 \in 1..Len(levels[i + 1]) /\ levels[i + 1][2 * q - 1] = heap[x].left
        /\ 2 * q \in 1..Len(levels[i + 1]) /\ levels[i + 1][2 * q] = heap[x].right
    BY <2>2, <2>3 DEF LeftOf, RightOf
  <2> QED
    BY <2>4, <2>5
<1> HIDE DEF Passed, Reached
<1>4. 1..(Len(printed) + 1) \subseteq D
  <2>1. 1 \in D /\ \A i \in 1..Len(printed) : i \in D => i + 1 \in D
    BY <1>1, <1>2, <1>3
  <2> HIDE DEF D
  <2> QED
    BY <1>1, <2>1, LevelByLevel
<1>5. (\E j \in 1..Len(printed) : Passed(j)) \/ Reached(Len(printed) + 1)
  BY <1>1, <1>4
<1>6. levels[Len(printed) + 1] = vNodes
  BY DEF IsPicture, PictureOf
<1> QED
  BY <1>5, <1>6 DEF Passed, Reached

\* What a place has below it stands in its range of the levels below.
LEMMA RangeBelow ==
    ASSUME GoodHeap, PrintInv, NEW levels, IsPicture(levels),
           NEW i \in 1..(Len(printed) + 1), NEW k \in 1..Len(levels[i])
    PROVE  \A d \in 0..(Len(printed) + 1 - i) : \A q \in 1..Len(levels[i + d]) :
              /\ (k - 1) * 2^d < q /\ q <= k * 2^d
              /\ levels[i + d][q] # NULL
              => levels[i + d][q] \in Sub(heap, levels[i][k])
<1> DEFINE n == Len(printed) + 1 - i
           Fits(d) == \A q \in 1..Len(levels[i + d]) :
                         /\ (k - 1) * 2^d < q /\ q <= k * 2^d
                         /\ levels[i + d][q] # NULL
                         => levels[i + d][q] \in Sub(heap, levels[i][k])
           D == {e \in 1..(n + 1) : Fits(e - 1)}
<1>1. /\ Len(printed) \in Nat /\ n \in Nat /\ i \in Nat /\ k \in Nat
      /\ levels[i][k] \in LivePtr /\ Len(levels[i]) \in Nat
  BY PictureTypes
<1>2. Fits(0)
  <2> SUFFICES ASSUME NEW q \in 1..Len(levels[i]),
                      (k - 1) * 2^0 < q, q <= k * 2^0, levels[i][q] # NULL
               PROVE  levels[i][q] \in Sub(heap, levels[i][k])
    BY <1>1
  <2>1. q = k
    <3>1. (k - 1) * 1 < q /\ q <= k * 1
      BY PowerOfZero
    <3> QED
      BY <1>1, <3>1
  <2> QED
    BY <1>1, <2>1, GoodPointers DEF LivePtr
<1>3. ASSUME NEW d \in 0..(n - 1), Fits(d) PROVE Fits(d + 1)
  <2>1. i + d \in 1..Len(printed) /\ i + (d + 1) = (i + d) + 1
    BY <1>1
  <2> SUFFICES ASSUME NEW q \in 1..Len(levels[(i + d) + 1]),
                      (k - 1) * 2^(d + 1) < q, q <= k * 2^(d + 1), levels[(i + d) + 1][q] # NULL
               PROVE  levels[(i + d) + 1][q] \in Sub(heap, levels[i][k])
    BY <2>1
  <2>2. PICK p \in 1..Len(levels[i + d]) :
           /\ levels[i + d][p] \in Live /\ levels[(i + d) + 1][q] \in Live
           /\ \/ q = 2 * p - 1 /\ levels[(i + d) + 1][q] = heap[levels[i + d][p]].left
              \/ q = 2 * p     /\ levels[(i + d) + 1][q] = heap[levels[i + d][p]].right
    BY <2>1, PlaceAbove
  <2>3. (k - 1) * 2^d < p /\ p <= k * 2^d
    <3> DEFINE P == 2^d
               low == (k - 1) * P
               high == k * P
    <3>1. P \in Nat /\ 2^(d + 1) = 2 * P /\ d \in Nat
      BY <1>1, PowerOfTwo
    <3> HIDE DEF P
    <3>2. low \in Int /\ high \in Int /\ (k - 1) * (2 * P) = 2 * low /\ k * (2 * P) = 2 * high
      BY <1>1, <3>1
    <3>3. 2 * low < q /\ q <= 2 * high
      BY <3>1, <3>2
    <3> HIDE DEF low, high
    <3>4. (q = 2 * p - 1 \/ q = 2 * p) /\ p \in Nat /\ q \in Nat
      <4>1. Len(levels[i + d]) \in Nat /\ Len(levels[(i + d) + 1]) \in Nat
        <5>1. {i + d, (i + d) + 1} \subseteq 1..(Len(printed) + 1)
          BY <1>1, <2>1
        <5> QED
          BY <5>1, PictureTypes
      <4> QED
        BY <2>2, <4>1, SMTT(30)
    <3>5. low < p /\ p <= high
      BY <3>2, <3>3, <3>4
    <3> QED
      BY <3>5 DEF low, high, P
  <2>4. levels[i + d][p] # NULL
    BY <2>2, GoodPointers
  <2>5. levels[i + d][p] \in Sub(heap, levels[i][k])
    BY <1>3, <2>3, <2>4
  <2>6. Sub(heap, levels[i + d][p]) \subseteq Sub(heap, levels[i][k])
    BY <2>5, SubIsTransitive
  <2>7. levels[(i + d) + 1][q] \in Sub(heap, levels[i + d][p])
    <3> DEFINE x == levels[i + d][p]
               c == levels[(i + d) + 1][q]
    <3>1. x \in Live /\ c \in Live /\ c \in {heap[x].left, heap[x].right}
      BY <2>2
    <3> HIDE DEF x, c
    <3>2. c \in Sub(heap, c)
      BY <3>1, GoodPointers
    <3>3. c \in Sub(heap, x)
      BY <3>1, <3>2, GoodSubtrees
    <3> QED
      BY <3>3 DEF x, c
  <2> QED
    BY <2>6, <2>7
<1> HIDE DEF Fits
<1>4. 1..(n + 1) \subseteq D
  <2>1. 1 \in D
    BY <1>1, <1>2
  <2>2. ASSUME NEW e \in 1..n, e \in D PROVE e + 1 \in D
    <3>1. e - 1 \in 0..(n - 1) /\ (e - 1) + 1 = e /\ (e + 1) - 1 = e /\ e + 1 \in 1..(n + 1)
      BY <1>1
    <3>2. Fits((e - 1) + 1)
      BY <1>3, <2>2, <3>1
    <3> QED
      BY <3>1, <3>2
  <2> HIDE DEF D, n
  <2> QED
    BY <1>1, <2>1, <2>2, LevelByLevel
<1>5. ASSUME NEW d \in 0..n PROVE Fits(d)
  <2>1. d + 1 \in 1..(n + 1) /\ (d + 1) - 1 = d
    BY <1>1
  <2> HIDE DEF n
  <2> QED
    BY <1>4, <2>1
<1> QED
  BY <1>5 DEF Fits

-----------------------------------------------------------------------------
(* The steps of printTree *)

\* printTree is not called yet.
LEMMA InitPrintInv == AVLInit => PrintInv
BY DEF AVLInit, PrintInit, PrintInv, Printing

\* Levels of a tree that is left alone.
LEMMA QuietPicture ==
    ASSUME heap' = heap, RootNode' = RootNode
    PROVE  \A levels : IsPicture(levels)' <=> PictureOf(levels, printed', vNodes')
<1>1. LivePtr' = LivePtr
  BY QuietHeap
<1>2. \A nodes : KeysOf(nodes)' = KeysOf(nodes)
  BY DEF KeysOf
<1>3. \A upper, lower : Descends(upper, lower)' <=> Descends(upper, lower)
  BY DEF Descends, LeftOf, RightOf
<1> QED
  BY <1>1, <1>2, <1>3 DEF IsPicture, PictureOf

\* A line of the picture.
LEMMA KeysOfType ==
    ASSUME GoodHeap, NEW nodes \in Seq(LivePtr)
    PROVE  KeysOf(nodes) \in Seq(Key \cup {NULL})
<1>1. \A n \in Live : heap[n].key \in Key
  BY DEF GoodHeap, IsMemory, Node, Live
<1>2. /\ DOMAIN nodes = 1..Len(nodes) /\ Len(nodes) \in Nat
      /\ \A k \in 1..Len(nodes) : nodes[k] \in LivePtr
  OBVIOUS
<1>3. \A k \in 1..Len(nodes) :
         (IF nodes[k] = NULL THEN NULL ELSE heap[nodes[k]].key) \in Key \cup {NULL}
  BY <1>1, <1>2 DEF LivePtr
<1> QED
  BY <1>2, <1>3 DEF KeysOf

\* printTree starts with the root.
LEMMA CallPrintInv == GoodHeap /\ PrintInv /\ CallPrintTree => PrintInv'
<1> SUFFICES ASSUME GoodHeap, PrintInv, CallPrintTree PROVE PrintInv'
  OBVIOUS
<1>1. /\ heap' = heap /\ RootNode' = RootNode /\ vNodes' = <<RootNode>>
      /\ printed' = <<>>
  BY DEF CallPrintTree, PrintInv, vars
<1>2. \E levels : PictureOf(levels, <<>>, <<RootNode>>)
  <2> DEFINE levels == << <<RootNode>> >>
  <2>1. levels \in Seq(Seq(LivePtr)) /\ Len(levels) = 1 /\ levels[1] = <<RootNode>>
    BY GoodPointers DEF LivePtr
  <2> HIDE DEF levels
  <2> QED
    BY <2>1 DEF PictureOf
<1>3. PICK levels : PictureOf(levels, printed', vNodes')
  BY <1>1, <1>2
<1>4. IsPicture(levels)'
  BY <1>1, <1>3, QuietPicture
<1> QED
  BY <1>1, <1>4 DEF PrintInv, Printing

\* A level is printed, and the one below put behind the others.
LEMMA PictureGrows ==
    ASSUME GoodHeap, PrintInv, Printing, ~IsNodesInVectorAllNull(vNodes),
           NEW levels, IsPicture(levels)
    PROVE  /\ PictureOf(Append(levels, LevelBelow(vNodes)), Append(printed, KeysOf(vNodes)),
                        LevelBelow(vNodes))
           /\ Append(printed, KeysOf(vNodes)) \in Seq(Seq(Key \cup {NULL}))
           /\ LevelBelow(vNodes) # <<>>
<1> DEFINE n == Len(printed)
           below == LevelBelow(vNodes)
           line == KeysOf(vNodes)
           deeper == Append(levels, below)
           longer == Append(printed, line)
<1>1. /\ n \in Nat /\ levels \in Seq(Seq(LivePtr)) /\ Len(levels) = n + 1
      /\ levels[n + 1] = vNodes /\ vNodes \in Seq(LivePtr)
      /\ printed \in Seq(Seq(Key \cup {NULL}))
  <2>1. levels[n + 1] \in Seq(LivePtr) /\ n \in Nat
    BY PictureTypes
  <2> QED
    BY <2>1 DEF IsPicture, PictureOf, PrintInv
<1>2. below \in Seq(LivePtr) /\ Descends(vNodes, below)
  BY <1>1, LevelBelowDescends
<1>3. line \in Seq(Key \cup {NULL})
  BY <1>1, KeysOfType
<1>4. Len(vNodes) \in Nat /\ Len(vNodes) # 0 /\ DOMAIN vNodes = 1..Len(vNodes)
  BY <1>1 DEF Printing
<1>5. \E k \in 1..Len(vNodes) : vNodes[k] # NULL
  BY <1>4 DEF IsNodesInVectorAllNull
<1>6. below # <<>>
  BY <1>2, <1>4 DEF Descends
<1> HIDE DEF below, line
<1>7. /\ deeper \in Seq(Seq(LivePtr)) /\ Len(deeper) = n + 2
      /\ deeper[n + 2] = below /\ \A i \in 1..(n + 1) : deeper[i] = levels[i]
  BY <1>1, <1>2
<1>8. /\ longer \in Seq(Seq(Key \cup {NULL})) /\ Len(longer) = n + 1
      /\ longer[n + 1] = line /\ \A i \in 1..n : longer[i] = printed[i]
  BY <1>1, <1>3
<1> HIDE DEF deeper, longer
<1>9. ASSUME NEW i \in 1..(n + 1)
      PROVE  /\ longer[i] = KeysOf(deeper[i]) /\ Descends(deeper[i], deeper[i + 1])
             /\ \E k \in 1..Len(deeper[i]) : deeper[i][k] # NULL
  <2>1. CASE i = n + 1
    <3>1. (n + 1) + 1 = n + 2 /\ n + 1 \in 1..(n + 1)
      BY <1>1
    <3>2. deeper[i] = vNodes
      BY <1>1, <1>7, <2>1, <3>1
    <3>3. deeper[i + 1] = below
      BY <1>7, <2>1, <3>1
    <3>4. longer[i] = line
      BY <1>8, <2>1
    <3> QED
      BY <1>2, <1>5, <3>2, <3>3, <3>4 DEF line
  <2>2. CASE i # n + 1
    <3>1. i \in 1..n /\ i + 1 \in 1..(n + 1)
      BY <1>1, <2>2
    <3>2. deeper[i] = levels[i] /\ deeper[i + 1] = levels[i + 1] /\ longer[i] = printed[i]
      BY <1>7, <1>8, <3>1
    <3>3. /\ printed[i] = KeysOf(levels[i]) /\ Descends(levels[i], levels[i + 1])
          /\ \E k \in 1..Len(levels[i]) : levels[i][k] # NULL
      BY <3>1 DEF IsPicture, PictureOf
    <3> QED
      BY <3>2, <3>3
  <2> QED
    BY <2>1, <2>2
<1>10. deeper[1] = <<RootNode>>
  BY <1>1, <1>7 DEF IsPicture, PictureOf
<1>11. PictureOf(deeper, longer, below)
  <2>1. Len(deeper) = Len(longer) + 1 /\ deeper[Len(deeper)] = below
    BY <1>1, <1>7, <1>8
  <2>2. \A i \in 1..Len(longer) : /\ longer[i] = KeysOf(deeper[i])
                                  /\ Descends(deeper[i], deeper[i + 1])
                                  /\ \E k \in 1..Len(deeper[i]) : deeper[i][k] # NULL
    BY <1>8, <1>9
  <2> QED
    BY <1>7, <1>10, <2>1, <2>2 DEF PictureOf
<1> QED
  BY <1>6, <1>8, <1>11 DEF deeper, longer, below, line

\* One turn of its loop.
LEMMA LevelPrintInv == GoodHeap /\ PrintInv /\ PrintLevel => PrintInv'
<1> SUFFICES ASSUME GoodHeap, PrintInv, PrintLevel PROVE PrintInv'
  OBVIOUS
<1>1. /\ heap' = heap /\ RootNode' = RootNode /\ Printing /\ ~IsNodesInVectorAllNull(vNodes)
      /\ printed' = Append(printed, KeysOf(vNodes)) /\ vNodes' = LevelBelow(vNodes)
  BY DEF PrintLevel, vars
<1>2. PICK levels : IsPicture(levels)
  BY <1>1 DEF PrintInv
<1>3. /\ PictureOf(Append(levels, vNodes'), printed', vNodes')
      /\ printed' \in Seq(Seq(Key \cup {NULL})) /\ vNodes' # <<>>
  BY <1>1, <1>2, PictureGrows
<1>4. PICK deeper : PictureOf(deeper, printed', vNodes')
  BY <1>3
<1>5. IsPicture(deeper)'
  BY <1>1, <1>4, QuietPicture
<1> QED
  BY <1>3, <1>5 DEF PrintInv, Printing

\* No step leaves the invariant of printTree.
LEMMA NextPrintInv ==
    ASSUME GoodHeap, PrintInv, AVLNext \/ UNCHANGED avlVars
    PROVE  PrintInv'
<1>1. CASE CallPrintTree \/ PrintLevel
  BY <1>1, CallPrintInv, LevelPrintInv
<1>2. CASE PrintReturn
  BY <1>2 DEF PrintReturn, PrintInv, Printing
<1>3. CASE TreeStep
  BY <1>3 DEF TreeStep, PrintInv, Printing, printVars
<1>4. CASE MeasureHeights \/ UNCHANGED avlVars
  <2>1. heap' = heap /\ RootNode' = RootNode /\ vNodes' = vNodes /\ printed' = printed
    BY <1>4 DEF MeasureHeights, CallMeasureHeights, TakeLeaf, Climb, ReachTop,
                avlVars, vars, printVars
  <2>2. \A levels : IsPicture(levels)' <=> IsPicture(levels)
    BY <2>1, QuietPicture DEF IsPicture
  <2> QED
    BY <2>1, <2>2 DEF PrintInv, Printing
<1> QED
  BY <1>1, <1>2, <1>3, <1>4 DEF AVLNext, printTree

\* The tree is good, and no key is in two of its nodes.
PictureInv == KeptTree /\ TreeInv /\ PrintInv

\* It holds with the tree in order.
LEMMA PictureInvHolds == AVLSpec => []PictureInv
<1>1. AVLInit => PictureInv
  <2>1. AVLInit => KeptTree
    BY InitAVLInv DEF AVLInv
  <2>2. AVLInit => TreeInv
    BY InitIsMapInit DEF AVLInit
  <2> QED
    BY <2>1, <2>2, InitPrintInv DEF PictureInv
<1>2. PictureInv /\ [AVLNext]_avlVars => PictureInv'
  <2> SUFFICES ASSUME PictureInv, AVLNext \/ UNCHANGED avlVars PROVE PictureInv'
    OBVIOUS
  <2>1. KeptTree'
    BY NextKeptTree DEF PictureInv
  <2>2. TreeInv'
    BY TreeStepKeepsContract, NextIsMapNext DEF PictureInv
  <2>3. PrintInv'
    BY KeptTreeIsGood, NextPrintInv DEF PictureInv
  <2> QED
    BY <2>1, <2>2, <2>3 DEF PictureInv
<1> QED
  BY <1>1, <1>2, PTL DEF AVLSpec

-----------------------------------------------------------------------------
(* The theorems about the tree *)

\* AVLTree repeats find, insert and DeleteNode of the plain tree and its heights are beside
\* the memory: it is the same search tree without leaks, and no call of it faults.
THEOREM AVLTreeStaysGood == AVLSpec => [](WellFormed /\ NoFault)
<1>1. AVLInv => WellFormed /\ NoFault
  BY DEF AVLInv, KeptTree, ContractInv
<1> QED
  BY <1>1, AVLInvHolds, PTL

\* And it is the same map: MeasureHeights and printTree, which run between two calls, are
\* invisible in it.
THEOREM AVLTreeIsMap == AVLSpec => ImplementsMap
<1> USE DEF ImplementsMap, AVLSpec, Map!Spec
<1>1. AVLInit => TreeInv /\ Map!Init
  BY InitIsMapInit DEF AVLInit
<1>2. TreeInv /\ [AVLNext]_avlVars => TreeInv' /\ [Map!Next]_(Map!vars)
  BY TreeStepKeepsContract, NextIsMapNext
<1> QED
  BY <1>1, <1>2, PTL

-----------------------------------------------------------------------------
(* The theorems about printTree *)

\* The vector of printTree, which doubles at every turn, never has more than 2^n places
\* when the tree has n nodes, whatever the tree's shape: there is no level below the
\* deepest node but one.
THEOREM VectorStaysBounded == AVLSpec => []VectorIsBounded
<1>1. PictureInv => VectorIsBounded
  <2> SUFFICES ASSUME PictureInv PROVE VectorIsBounded
    OBVIOUS
  <2>1. GoodHeap /\ PrintInv
    BY KeptTreeIsGood DEF PictureInv
  <2>2. IsFiniteSet(Live) /\ Cardinality(Live) \in Nat
    BY <2>1, FS_CardinalityType DEF GoodHeap
  <2>3. CASE ~Printing
    <3>1. Len(vNodes) = 0
      BY <2>3 DEF Printing
    <3> QED
      BY <2>2, <3>1, PowerOfTwo DEF VectorIsBounded
  <2>4. CASE Printing
    <3> DEFINE n == Len(printed)
    <3>1. PICK levels : IsPicture(levels)
      BY <2>1, <2>4 DEF PrintInv
    <3>2. n \in Nat
      BY <2>1, <3>1, PictureTypes
    <3>3. Len(vNodes) = 2^n
      <4>1. n + 1 \in 1..(n + 1) /\ (n + 1) - 1 = n
        BY <3>2
      <4>2. levels[n + 1] = vNodes
        BY <3>1 DEF IsPicture, PictureOf
      <4>3. Len(levels[n + 1]) = 2^((n + 1) - 1)
        BY <2>1, <3>1, <4>1, LevelLength
      <4> QED
        BY <4>1, <4>2, <4>3
    <3>4. n <= Cardinality(Live)
      <4>1. CASE n = 0
        BY <2>2, <4>1
      <4>2. CASE n # 0
        <5>1. n \in 1..Len(printed) /\ n \in 1..(Len(printed) + 1)
          BY <3>2, <4>2
        <5>2. PICK k \in 1..Len(levels[n]) : levels[n][k] # NULL
          BY <3>1, <5>1 DEF IsPicture, PictureOf
        <5>3. Cardinality(Ancestors(levels[n][k])) = n
          BY <2>1, <3>1, <5>1, <5>2, LevelIsDepth
        <5> QED
          BY <2>2, <5>3, FS_Subset DEF Ancestors
      <4> QED
        BY <4>1, <4>2
    <3>5. 2^n <= 2^Cardinality(Live)
      BY <2>2, <3>2, <3>4, PowersGrow
    <3> QED
      BY <3>3, <3>5 DEF VectorIsBounded
  <2> QED
    BY <2>3, <2>4
<1> QED
  BY <1>1, PictureInvHolds, PTL

\* What is printed at a place.
LEMMA PrintedAt ==
    ASSUME GoodHeap, PrintInv, NEW levels, IsPicture(levels), NEW p \in Places, KeyAt(p) # NULL
    PROVE  /\ p[1] \in 1..Len(printed) /\ p[2] \in 1..Len(levels[p[1]])
           /\ levels[p[1]][p[2]] \in Live /\ levels[p[1]][p[2]] # NULL
           /\ KeyAt(p) = heap[levels[p[1]][p[2]]].key
<1>1. Len(printed) \in Nat
  BY PictureTypes
<1>2. p[1] \in 1..Len(printed) /\ p[2] \in DOMAIN printed[p[1]]
  BY DEF Places
<1>3. printed[p[1]] = KeysOf(levels[p[1]])
  BY <1>2 DEF IsPicture, PictureOf
<1>4. p[2] \in DOMAIN levels[p[1]]
  BY <1>2, <1>3 DEF KeysOf
<1>5. p[1] \in 1..(Len(printed) + 1)
  BY <1>1, <1>2
<1>6. p[2] \in 1..Len(levels[p[1]]) /\ levels[p[1]][p[2]] \in LivePtr
  BY <1>4, <1>5, PictureTypes
<1>7. KeyAt(p) = IF levels[p[1]][p[2]] = NULL THEN NULL ELSE heap[levels[p[1]][p[2]]].key
  BY <1>3, <1>4 DEF KeyAt, KeysOf
<1>8. levels[p[1]][p[2]] # NULL
  BY <1>7
<1> QED
  BY <1>2, <1>6, <1>7, <1>8 DEF LivePtr

\* The left half of a place's range is the range of its left child, the right half that
\* of its right child.
LEMMA HalfRange ==
    ASSUME NEW k \in Nat, NEW d \in Nat, NEW q \in Nat
    PROVE  LET from == (k - 1) * 2^(d + 1)
               half == from + 2^d
           IN  /\ q \in (from + 1)..half
                     => (2 * k - 1 - 1) * 2^d < q /\ q <= (2 * k - 1) * 2^d
               /\ q \in (half + 1)..(from + 2^(d + 1))
                     => (2 * k - 1) * 2^d < q /\ q <= (2 * k) * 2^d
<1> DEFINE P == 2^d
<1>1. P \in Nat /\ 2^(d + 1) = 2 * P
  BY PowerOfTwo
<1> HIDE DEF P
<1> DEFINE W == k * P
<1>2. /\ W \in Int /\ (k - 1) * (2 * P) = 2 * W - 2 * P /\ (2 * k - 1 - 1) * P = 2 * W - 2 * P
      /\ (2 * k - 1) * P = 2 * W - P /\ (2 * k) * P = 2 * W
  BY <1>1
<1> HIDE DEF W
<1>3. /\ q \in ((2 * W - 2 * P) + 1)..((2 * W - 2 * P) + P) => 2 * W - 2 * P < q /\ q <= 2 * W - P
      /\ q \in (((2 * W - 2 * P) + P) + 1)..((2 * W - 2 * P) + 2 * P) => 2 * W - P < q /\ q <= 2 * W
  BY <1>1, <1>2
<1> QED
  BY <1>1, <1>2, <1>3 DEF P

\* The picture of every search tree is itself ordered from left to right.
THEOREM PictureStaysOrdered == AVLSpec => []PictureIsOrdered
<1>1. PictureInv => PictureIsOrdered
  <2> SUFFICES ASSUME PictureInv, NEW p \in Places, NEW q \in Places,
                      q[1] - p[1] > 0, KeyAt(p) # NULL, KeyAt(q) # NULL
               PROVE  LET depth == q[1] - p[1]
                          from == (p[2] - 1) * 2^depth
                          half == from + 2^(depth - 1)
                      IN  /\ q[2] \in (from + 1)..half => KeyAt(q) < KeyAt(p)
                          /\ q[2] \in (half + 1)..(from + 2^depth) => KeyAt(q) > KeyAt(p)
    BY DEF PictureIsOrdered
  <2>1. GoodHeap /\ PrintInv
    BY KeptTreeIsGood DEF PictureInv
  <2>2. Printing
    BY <2>1 DEF PrintInv, Places
  <2>3. PICK levels : IsPicture(levels)
    BY <2>1, <2>2 DEF PrintInv
  <2> DEFINE i == p[1]
             k == p[2]
             j == q[1]
             m == q[2]
             x == levels[i][k]
             y == levels[j][m]
             d == j - i - 1
  <2>4. /\ i \in 1..Len(printed) /\ k \in 1..Len(levels[i]) /\ x \in Live /\ x # NULL
        /\ KeyAt(p) = heap[x].key
    BY <2>1, <2>3, PrintedAt
  <2>5. /\ j \in 1..Len(printed) /\ m \in 1..Len(levels[j]) /\ y \in Live /\ y # NULL
        /\ KeyAt(q) = heap[y].key
    BY <2>1, <2>3, PrintedAt
  <2>6. /\ Len(printed) \in Nat /\ Len(levels[i]) \in Nat /\ Len(levels[j]) \in Nat
        /\ i + 1 \in 1..(Len(printed) + 1)
    <3>1. Len(printed) \in Nat
      BY <2>1, <2>3, PictureTypes
    <3>2. {i, j, i + 1} \subseteq 1..(Len(printed) + 1)
      BY <2>4, <2>5, <3>1, SMTT(30)
    <3> QED
      BY <2>1, <2>3, <3>1, <3>2, PictureTypes
  <2>7. /\ Len(levels[i + 1]) = 2 * Len(levels[i])
        /\ levels[i + 1][2 * k - 1] = heap[x].left
        /\ levels[i + 1][2 * k] = heap[x].right
    <3>1. Descends(levels[i], levels[i + 1])
      BY <2>3, <2>4 DEF IsPicture, PictureOf
    <3> QED
      BY <2>4, <3>1 DEF Descends, LeftOf, RightOf
  <2>a. j - i > 0
    OBVIOUS
  <2> HIDE DEF i, k, j, m, x, y
  <2>8. /\ d \in 0..(Len(printed) + 1 - (i + 1))
        /\ (i + 1) + d = j /\ d + 1 = j - i /\ (j - i) - 1 = d
    <3> DEFINE n == Len(printed)
    <3>1. n \in Nat /\ i \in 1..n /\ j \in 1..n
      BY <2>4, <2>5, <2>6
    <3> HIDE DEF n
    <3>2. d \in 0..(n + 1 - (i + 1)) /\ (i + 1) + d = j /\ d + 1 = j - i /\ (j - i) - 1 = d
      BY <2>a, <3>1
    <3> QED
      BY <3>2 DEF n
  <2> HIDE DEF d
  <2>9. /\ k \in Nat /\ m \in Nat
        /\ 2 * k - 1 \in 1..Len(levels[i + 1]) /\ 2 * k \in 1..Len(levels[i + 1])
    <3>1. k \in Nat /\ m \in Nat
      BY <2>4, <2>5, <2>6
    <3> DEFINE n == Len(levels[i])
    <3>2. n \in Nat /\ k \in 1..n
      BY <2>4, <2>6
    <3> HIDE DEF n
    <3>3. 2 * k - 1 \in 1..(2 * n) /\ 2 * k \in 1..(2 * n)
      BY <3>2
    <3> QED
      BY <2>7, <3>1, <3>3 DEF n
  <2>10. ASSUME NEW c \in 1..Len(levels[i + 1]), (c - 1) * 2^d < m, m <= c * 2^d
         PROVE  y \in Sub(heap, levels[i + 1][c])
    <3>1. levels[(i + 1) + d][m] # NULL /\ m \in 1..Len(levels[(i + 1) + d])
      BY <2>5, <2>8 DEF y
    <3>2. levels[(i + 1) + d][m] \in Sub(heap, levels[i + 1][c])
      BY <2>1, <2>3, <2>6, <2>8, <2>10, <3>1, RangeBelow
    <3> QED
      BY <2>8, <3>2 DEF y
  <2>11. /\ \A b \in Sub(heap, heap[x].left) : heap[b].key < heap[x].key
         /\ \A b \in Sub(heap, heap[x].right) : heap[b].key > heap[x].key
    BY <2>1, <2>4 DEF GoodHeap, Good, OrderedIn, Live
  <2> DEFINE from == (k - 1) * 2^(d + 1)
             half == from + 2^d
  <2>12. d \in Nat
    BY <2>6, <2>8
  <2>13. /\ m \in (from + 1)..half
               => (2 * k - 1 - 1) * 2^d < m /\ m <= (2 * k - 1) * 2^d
         /\ m \in (half + 1)..(from + 2^(d + 1))
               => (2 * k - 1) * 2^d < m /\ m <= (2 * k) * 2^d
    BY <2>9, <2>12, HalfRange
  <2> HIDE DEF from, half
  <2>14. m \in (from + 1)..half => KeyAt(q) < KeyAt(p)
    BY <2>4, <2>5, <2>7, <2>9, <2>10, <2>11, <2>13
  <2>15. m \in (half + 1)..(from + 2^(d + 1)) => KeyAt(q) > KeyAt(p)
    BY <2>4, <2>5, <2>7, <2>9, <2>10, <2>11, <2>13
  <2> QED
    BY <2>8, <2>14, <2>15 DEF from, half, i, k, j, m
<1> QED
  BY <1>1, PictureInvHolds, PTL

\* The places that are printed when no node is left have every node once.
LEMMA PictureIsComplete ==
    ASSUME PictureInv, Printing, IsNodesInVectorAllNull(vNodes)
    PROVE  LET full == {p \in Places : KeyAt(p) # NULL}
           IN  /\ {KeyAt(p) : p \in full} = Keys
               /\ \A p, q \in full : KeyAt(p) = KeyAt(q) => p = q
<1> DEFINE full == {p \in Places : KeyAt(p) # NULL}
<1>1. GoodHeap /\ PrintInv /\ UniqueIn(heap)
  BY KeptTreeIsGood DEF PictureInv, TreeInv
<1>2. PICK levels : IsPicture(levels)
  BY <1>1 DEF PrintInv
<1>3. Keys = {heap[a].key : a \in Live}
  BY <1>1, GoodPointers, SubIsSubtree DEF Keys
<1>4. \A a \in Live : heap[a].key \in Key
  BY <1>1 DEF GoodHeap, IsMemory, Node, Live
<1>5. ASSUME NEW p \in full PROVE KeyAt(p) \in Keys
  BY <1>1, <1>2, <1>3, PrintedAt
<1>6. ASSUME NEW a \in Live PROVE \E p \in full : KeyAt(p) = heap[a].key
  <2>1. Len(printed) \in Nat
    BY <1>1, <1>2, PictureTypes
  <2>a. PICK i \in 1..Len(printed) : \E k \in 1..Len(levels[i]) : levels[i][k] = a
    <3>1. ASSUME NEW q \in 1..Len(vNodes) PROVE Sub(heap, vNodes[q]) = {}
      <4>1. Len(printed) + 1 \in 1..(Len(printed) + 1) /\ levels[Len(printed) + 1] = vNodes
        BY <1>2, <2>1 DEF IsPicture, PictureOf
      <4>2. DOMAIN vNodes = 1..Len(vNodes)
        BY <1>1, <1>2, <4>1, PictureTypes
      <4>3. vNodes[q] = NULL
        BY <4>2 DEF IsNodesInVectorAllNull
      <4> QED
        BY <1>1, <4>3, GoodSubtrees
    <3>2. \/ \E i \in 1..Len(printed) : \E k \in 1..Len(levels[i]) : levels[i][k] = a
          \/ \E q \in 1..Len(vNodes) : a \in Sub(heap, vNodes[q])
      BY <1>1, <1>2, NoneMissed
    <3> QED
      BY <3>1, <3>2
  <2>2. PICK k \in 1..Len(levels[i]) : levels[i][k] = a
    BY <2>a
  <2> DEFINE p == <<i, k>>
  <2>3. /\ printed[i] = KeysOf(levels[i]) /\ DOMAIN levels[i] = 1..Len(levels[i])
        /\ i \in 1..(Len(printed) + 1)
    <3>1. i \in 1..(Len(printed) + 1)
      BY <2>1
    <3> QED
      BY <1>1, <1>2, <3>1, PictureTypes DEF IsPicture, PictureOf
  <2>4. k \in DOMAIN printed[i] /\ printed[i][k] = heap[a].key
    <3>1. a # NULL
      BY <1>1, GoodPointers
    <3> QED
      BY <2>2, <2>3, <3>1 DEF KeysOf
  <2>5. k \in 1..2^Len(printed)
    <3>1. Len(levels[i]) = 2^(i - 1)
      BY <1>1, <1>2, <2>3, LevelLength
    <3>2. i - 1 \in Nat /\ i - 1 <= Len(printed)
      BY <2>1
    <3>3. 2^(i - 1) <= 2^Len(printed)
      BY <2>1, <3>2, PowersGrow
    <3>4. 2^(i - 1) \in Nat /\ 2^Len(printed) \in Nat
      BY <2>1, <3>2, PowerOfTwo
    <3> QED
      BY <3>1, <3>3, <3>4
  <2>6. p \in Places /\ KeyAt(p) = heap[a].key
    BY <2>4, <2>5 DEF Places, KeyAt
  <2>7. heap[a].key # NULL
    BY <1>4, PrintAssumption
  <2> HIDE DEF p
  <2> QED
    BY <2>6, <2>7
<1>7. ASSUME NEW p \in full, NEW q \in full, KeyAt(p) = KeyAt(q) PROVE p = q
  <2> DEFINE x == levels[p[1]][p[2]]
             y == levels[q[1]][q[2]]
  <2>1. /\ p[1] \in 1..Len(printed) /\ p[2] \in 1..Len(levels[p[1]])
        /\ x \in Live /\ x # NULL /\ KeyAt(p) = heap[x].key
    BY <1>1, <1>2, PrintedAt
  <2>2. /\ q[1] \in 1..Len(printed) /\ q[2] \in 1..Len(levels[q[1]])
        /\ y \in Live /\ y # NULL /\ KeyAt(q) = heap[y].key
    BY <1>1, <1>2, PrintedAt
  <2>3. x = y
    BY <1>1, <1>7, <2>1, <2>2 DEF UniqueIn, Live
  <2>4. p[1] \in 1..(Len(printed) + 1) /\ q[1] \in 1..(Len(printed) + 1)
    BY <1>1, <1>2, <2>1, <2>2, PictureTypes
  <2>5. Cardinality(Ancestors(x)) = p[1] /\ Cardinality(Ancestors(y)) = q[1]
    BY <1>1, <1>2, <2>1, <2>2, <2>4, LevelIsDepth
  <2>6. p[1] = q[1]
    BY <2>3, <2>5
  <2>7. p[2] = q[2]
    BY <1>1, <1>2, <2>1, <2>2, <2>3, <2>4, <2>6, OnePlace
  <2>8. p = <<p[1], p[2]>> /\ q = <<q[1], q[2]>>
    BY DEF Places
  <2> QED
    BY <2>6, <2>7, <2>8
<1> HIDE DEF full
<1>8. {KeyAt(p) : p \in full} = Keys
  BY <1>3, <1>5, <1>6
<1> QED
  BY <1>7, <1>8 DEF full

\* When printTree returns it has printed the key of every node, at one place, and no other.
THEOREM PrintingIsComplete == AVLSpec => PrintsEveryKeyOnce
<1> DEFINE Complete == LET full == {p \in Places : KeyAt(p) # NULL}
                       IN  /\ {KeyAt(p) : p \in full} = Keys
                           /\ \A p, q \in full : KeyAt(p) = KeyAt(q) => p = q
<1>1. PictureInv /\ (AVLNext \/ UNCHANGED avlVars) => (Printing /\ ~Printing' => Complete)
  <2> SUFFICES ASSUME PictureInv, AVLNext \/ UNCHANGED avlVars, Printing, ~Printing'
               PROVE  Complete
    OBVIOUS
  <2>1. ~PrintLevel
    <3> SUFFICES ASSUME PrintLevel PROVE FALSE
      OBVIOUS
    <3>1. GoodHeap /\ PrintInv
      BY KeptTreeIsGood DEF PictureInv
    <3>2. PICK levels : IsPicture(levels)
      BY <3>1 DEF PrintInv
    <3>3. ~IsNodesInVectorAllNull(vNodes) /\ vNodes' = LevelBelow(vNodes)
      BY DEF PrintLevel
    <3> QED
      BY <3>1, <3>2, <3>3, PictureGrows DEF Printing
  <2>2. PrintReturn
    BY <2>1 DEF AVLNext, printTree, CallPrintTree, TreeStep, MeasureHeights, CallMeasureHeights,
                TakeLeaf, Climb, ReachTop, avlVars, printVars, Printing
  <2>3. IsNodesInVectorAllNull(vNodes)
    BY <2>2 DEF PrintReturn
  <2> HIDE DEF Complete
  <2> QED
    BY <2>3, PictureIsComplete DEF Complete
<1>2. PictureInv /\ [AVLNext]_avlVars => [Printing /\ ~Printing' => Complete]_<<vars, printVars>>
  BY <1>1
<1> QED
  BY <1>2, PictureInvHolds, PTL DEF AVLSpec, PrintsEveryKeyOnce

=============================================================================
