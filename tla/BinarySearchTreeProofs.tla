----------------------- MODULE BinarySearchTreeProofs -----------------------
(***************************************************************************)
(* Theorems about BinarySearchTree, for every set of keys, values and      *)
(* addresses and for every caller, the ones included who have already      *)
(* damaged the tree; and lemmas about what can be reached in a memory,     *)
(* which the theorems about good trees rest on.                            *)
(***************************************************************************)
EXTENDS BinarySearchTree, TLAPS

-----------------------------------------------------------------------------
(* The operations on the memory keep its type. *)

\* `new BSTNode' in insert: the memory grows by a typed node.
LEMMA AttachedType ==
    ASSUME TypeOK, NEW n \in Live, NEW a \in Addr \ Live
    PROVE  /\ DOMAIN Attached(n, a) = Live \cup {a}
           /\ Attached(n, a) \in [Live \cup {a} -> Node]
<1> DEFINE newNode == [BSTNode(key, value) EXCEPT
                          !.parent = n, !.LeftOrRight = IF key < heap[n].key THEN 1 ELSE 2]
<1>0. BSTNode(key, value) \in Node
  BY DEF TypeOK, Node, Ptr, BSTNode
<1>1. newNode \in Node
  <2>1. n \in Ptr
    BY DEF TypeOK, Ptr
  <2>2. (IF key < heap[n].key THEN 1 ELSE 2) \in 0..2
    OBVIOUS
  <2> QED
    BY <1>0, <2>1, <2>2 DEF Node
<1>2. \A b \in Live : heap[b] \in Node
  BY DEF TypeOK
<1>3. [heap[n] EXCEPT !.left = a] \in Node /\ [heap[n] EXCEPT !.right = a] \in Node
  BY <1>2 DEF Node, Ptr
<1> HIDE DEF newNode
<1>4. \A b \in Live \cup {a} : Attached(n, a)[b] \in Node
  BY <1>1, <1>2, <1>3 DEF Attached, newNode
<1> QED
  BY <1>4 DEF Attached

\* Relinking a parent to a pointer changes no domain and no type.
LEMMA RelinkedType ==
    ASSUME TypeOK, NEW p \in Live, NEW n \in Ptr, NEW c \in Ptr
    PROVE  /\ DOMAIN Relinked(p, n, c) = Live
           /\ Relinked(p, n, c) \in [Live -> Node]
BY DEF Relinked, TypeOK, Node, Ptr, Live

\* Freeing a node takes its address away and keeps the other nodes.
LEMMA FreeType ==
    ASSUME NEW D, NEW h \in [D -> Node], NEW n
    PROVE  /\ DOMAIN Free(h, n) = D \ {n}
           /\ Free(h, n) \in [D \ {n} -> Node]
           /\ \A a \in D \ {n} : Free(h, n)[a] = h[a]
BY DEF Free, Restrict

-----------------------------------------------------------------------------
(* Type correctness *)

LEMMA InitType == Init => TypeOK
BY DEF Init, TypeOK, Live, BSTNode, Node, Ptr

\* Calls, walks, and every step that leaves the memory alone.
LEMMA QuietStepType ==
    ASSUME TypeOK,
           \/ Caller \/ FindDescend \/ FindReturn \/ InsertDescend \/ InsertExisting
           \/ DeleteAbsent \/ DeleteWithTwoChildren \/ LeftMaxDescend
           \/ WalkFault \/ LeftMaxFault \/ ParentFault \/ ChildFault
           \/ UNCHANGED vars
    PROVE  TypeOK' /\ UNCHANGED <<RootNode, heap>>
<1>1. \A b \in Live : heap[b] \in Node
  BY DEF TypeOK
<1>2. \A b \in Live : heap[b].left \in Ptr /\ heap[b].right \in Ptr
  BY <1>1 DEF Node
<1>3. CASE Caller
  BY <1>3 DEF Caller, CallFind, CallInsert, CallDelete, Call, TypeOK, Live, Ptr
<1>4. CASE FindDescend
  BY <1>2, <1>4 DEF FindDescend, Toward, TypeOK, Live
<1>5. CASE FindReturn
  BY <1>5 DEF FindReturn, Return, TypeOK, Live, Ptr
<1>6. CASE InsertDescend
  BY <1>2, <1>6 DEF InsertDescend, Toward, TypeOK, Live
<1>7. CASE InsertExisting
  BY <1>7 DEF InsertExisting, Return, TypeOK, Live, Ptr
<1>8. CASE DeleteAbsent
  BY <1>8 DEF DeleteAbsent, Return, TypeOK, Live, Ptr
<1>9. CASE DeleteWithTwoChildren
  BY <1>2, <1>9 DEF DeleteWithTwoChildren, Located, TypeOK, Live
<1>10. CASE LeftMaxDescend
  BY <1>2, <1>10 DEF LeftMaxDescend, TypeOK, Live
<1>11. CASE WalkFault \/ LeftMaxFault \/ ParentFault \/ ChildFault
  BY <1>11 DEF WalkFault, LeftMaxFault, ParentFault, ChildFault, Fault, TypeOK, Live
<1>12. CASE UNCHANGED vars
  BY <1>12 DEF vars, TypeOK, Live
<1> QED
  BY <1>3, <1>4, <1>5, <1>6, <1>7, <1>8, <1>9, <1>10, <1>11, <1>12

\* A function that ends a call with the memory h leaves well typed variables.
LEMMA ReturnType ==
    ASSUME TypeOK, NEW r \in Ptr \cup {Indeterminate}, Return(r),
           NEW D \in SUBSET Addr, heap' \in [D -> Node]
    PROVE  TypeOK' /\ Live' = D
<1>1. Live' = D
  BY DEF Live
<1> QED
  BY <1>1 DEF Return, TypeOK, Ptr

\* insert attaches a new node.
LEMMA InsertAttachType ==
    ASSUME TypeOK, InsertAttach
    PROVE  TypeOK'
<1>1. PICK a \in Addr \ Live : heap' = Attached(CurrentNode, a) /\ Return(a)
  BY DEF InsertAttach
<1>2. CurrentNode \in Live
  BY DEF InsertAttach
<1>3. heap' \in [Live \cup {a} -> Node]
  BY <1>1, <1>2, AttachedType
<1>4. Live \cup {a} \in SUBSET Addr /\ a \in Ptr \cup {Indeterminate}
  BY DEF TypeOK, Ptr
<1> QED
  BY <1>1, <1>3, <1>4, ReturnType

\* Relinking the parent p of n to c, then setting c's parent if there is a c:
\* what DeleteNode does to the memory before it frees n.
LEMMA UnlinkType ==
    ASSUME TypeOK, NEW n \in Live, NEW p \in Live, NEW c \in Ptr,
           NEW h \in [Live -> Node]
    PROVE  /\ c \in Live => [h EXCEPT ![c].parent = p] \in [Live -> Node]
           /\ [h EXCEPT ![p].right = NULL] \in [Live -> Node]
           /\ [h EXCEPT ![n].key = h[p].key, ![n].value = h[p].value] \in [Live -> Node]
<1>1. p \in Ptr /\ NULL \in Ptr
  BY DEF TypeOK, Ptr
<1>2. \A a \in Live : h[a] \in Node
  OBVIOUS
<1>3. h[p].key \in Key /\ h[p].value \in Value
  BY <1>2 DEF Node
<1> QED
  BY <1>1, <1>2, <1>3 DEF Node

\* DeleteNode frees a leaf.
LEMMA DeleteLeafType ==
    ASSUME TypeOK, DeleteLeaf
    PROVE  TypeOK'
<1> DEFINE p == heap[CurrentNode].parent
           h == Relinked(p, CurrentNode, NULL)
<1>1. p \in Live /\ heap' = Free(h, CurrentNode) /\ Return(Indeterminate)
  BY DEF DeleteLeaf
<1>2. CurrentNode \in Ptr /\ NULL \in Ptr
  BY DEF TypeOK, Ptr
<1>3. h \in [Live -> Node]
  BY <1>1, <1>2, RelinkedType
<1>4. heap' \in [Live \ {CurrentNode} -> Node]
  BY <1>1, <1>3, FreeType
<1>5. Live \ {CurrentNode} \in SUBSET Addr
  BY DEF TypeOK
<1> QED
  BY <1>1, <1>4, <1>5, ReturnType

\* DeleteNode frees a node with one child.
LEMMA SpliceType ==
    ASSUME TypeOK, CurrentNode \in Live, NEW c, Splice(c)
    PROVE  TypeOK'
<1> DEFINE p == heap[CurrentNode].parent
           r == Relinked(p, CurrentNode, c)
           h == [r EXCEPT ![c].parent = p]
<1>1. p \in Live /\ c \in Live /\ heap' = Free(h, CurrentNode) /\ Return(Indeterminate)
  BY DEF Splice
<1>2. CurrentNode \in Ptr /\ c \in Ptr
  BY <1>1 DEF TypeOK, Ptr
<1>3. r \in [Live -> Node]
  BY <1>1, <1>2, RelinkedType
<1> HIDE DEF r
<1>4. h \in [Live -> Node]
  BY <1>1, <1>2, <1>3, UnlinkType
<1>5. heap' \in [Live \ {CurrentNode} -> Node]
  BY <1>1, <1>4, FreeType
<1>6. Live \ {CurrentNode} \in SUBSET Addr
  BY DEF TypeOK
<1> QED
  BY <1>1, <1>5, <1>6, ReturnType

\* DeleteNode moves the pair of leftMaxNode up and frees it.
LEMMA LeftMaxReplaceType ==
    ASSUME TypeOK, CurrentNode \in Live, LeftMaxReplace
    PROVE  TypeOK'
<1> DEFINE max   == heap[leftMaxNode]
           moved == [heap EXCEPT ![CurrentNode].key = max.key,
                                 ![CurrentNode].value = max.value]
           h     == [moved EXCEPT ![max.parent].right = NULL]
<1>1. leftMaxNode \in Live /\ max.parent \in Live /\ heap' = Free(h, leftMaxNode)
      /\ Return(Indeterminate)
  BY DEF LeftMaxReplace
<1>2. heap \in [Live -> Node] /\ CurrentNode \in Ptr
  BY DEF TypeOK
<1>3. moved \in [Live -> Node]
  BY <1>1, <1>2, UnlinkType
<1> HIDE DEF moved
<1>4. h \in [Live -> Node]
  BY <1>1, <1>2, <1>3, UnlinkType
<1>5. heap' \in [Live \ {leftMaxNode} -> Node]
  BY <1>1, <1>4, FreeType
<1>6. Live \ {leftMaxNode} \in SUBSET Addr
  BY DEF TypeOK
<1> QED
  BY <1>1, <1>5, <1>6, ReturnType

-----------------------------------------------------------------------------
(* The inductive invariant *)

\* While DeleteNode looks for the node to put in place of CurrentNode, that node
\* is allocated: nothing is freed before the walk has ended.
TargetStays == pc = "leftmax" => CurrentNode \in Live

IInv == TypeOK /\ TargetStays /\ RootStays

\* The steps that write the memory, one by one.
Writes ==
    \/ InsertAttach \/ DeleteLeaf \/ DeleteWithLeftChild \/ DeleteWithRightChild
    \/ LeftMaxReplace

LEMMA InitIInv == Init => IInv
<1> SUFFICES ASSUME Init PROVE IInv
  OBVIOUS
<1>1. RootNode \in Addr /\ heap = [a \in {RootNode} |-> BSTNode(key, value)]
  BY DEF Init
<1>2. NULL # RootNode
  BY <1>1, AddrAssumption
<1>3. RootStays
  BY <1>1, <1>2 DEF RootStays, Live, Children, BSTNode
<1>4. TargetStays
  BY DEF Init, TargetStays
<1> QED
  BY <1>3, <1>4, InitType DEF IInv

LEMMA WritesType == TypeOK /\ TargetStays /\ Writes => TypeOK'
<1> SUFFICES ASSUME TypeOK, TargetStays, Writes PROVE TypeOK'
  OBVIOUS
<1>1. CASE InsertAttach
  BY <1>1, InsertAttachType
<1>2. CASE DeleteLeaf
  BY <1>2, DeleteLeafType
<1>3. CASE DeleteWithLeftChild
  BY <1>3, SpliceType DEF DeleteWithLeftChild, Located
<1>4. CASE DeleteWithRightChild
  BY <1>4, SpliceType DEF DeleteWithRightChild, Located
<1>5. CASE LeftMaxReplace
  BY <1>5, LeftMaxReplaceType DEF LeftMaxReplace, TargetStays
<1> QED
  BY <1>1, <1>2, <1>3, <1>4, <1>5 DEF Writes

\* What RootStays says, of a memory h.
RootIn(h) ==
    /\ RootNode \in DOMAIN h
    /\ h[RootNode].parent = NULL
    /\ \A a \in DOMAIN h : h[a].left # RootNode /\ h[a].right # RootNode

LEMMA RootInHeap == TypeOK => (RootStays <=> RootIn(heap))
BY AddrAssumption DEF RootStays, RootIn, Children, Live, TypeOK

\* The writes of DeleteNode leave the root alone as long as it is neither the
\* pointer written nor the node freed.
LEMMA RootInUnlink ==
    ASSUME NEW D, NEW h \in [D -> Node], RootIn(h),
           NEW p \in D, NEW n \in D, NEW c \in Ptr \ {RootNode}
    PROVE  /\ RootIn([h EXCEPT ![p].left = c])
           /\ RootIn([h EXCEPT ![p].right = c])
           /\ c \in D => RootIn([h EXCEPT ![c].parent = p])
           /\ RootIn([h EXCEPT ![n].key = h[p].key, ![n].value = h[p].value])
           /\ n # RootNode => RootIn(Free(h, n))
<1> USE DEF RootIn
<1>1. DOMAIN h = D /\ \A a \in D : h[a] \in Node
  OBVIOUS
<1>2. RootIn([h EXCEPT ![p].left = c]) /\ RootIn([h EXCEPT ![p].right = c])
  BY <1>1 DEF Node
<1>3. c \in D => RootIn([h EXCEPT ![c].parent = p])
  BY <1>1 DEF Node
<1>4. RootIn([h EXCEPT ![n].key = h[p].key, ![n].value = h[p].value])
  BY <1>1 DEF Node
<1>5. n # RootNode => RootIn(Free(h, n))
  BY <1>1 DEF Free, Restrict
<1> QED
  BY <1>2, <1>3, <1>4, <1>5

\* Deleting a node with one child: the parent's being there tells that the node
\* is not the root, and its child is not the root because nothing points there.
LEMMA SpliceRoot ==
    ASSUME TypeOK, RootIn(heap), CurrentNode \in Live,
           NEW c \in {heap[CurrentNode].left, heap[CurrentNode].right}, Splice(c)
    PROVE  RootIn(heap')
<1> DEFINE p == heap[CurrentNode].parent
           r == Relinked(p, CurrentNode, c)
           h == [r EXCEPT ![c].parent = p]
<1>1. p \in Live /\ c \in Live /\ heap' = Free(h, CurrentNode)
  BY DEF Splice
<1>2. CurrentNode # RootNode
  BY <1>1, AddrAssumption DEF RootIn, TypeOK
<1>3. c \in Ptr \ {RootNode} /\ CurrentNode \in Ptr
  BY <1>1 DEF RootIn, TypeOK, Ptr, Live
<1>4. heap \in [Live -> Node]
  BY DEF TypeOK
<1>5. r \in [Live -> Node]
  BY <1>1, <1>3, RelinkedType
<1>6. RootIn(r)
  BY <1>1, <1>3, <1>4, RootInUnlink DEF Relinked
<1> HIDE DEF r, p
<1>7. h \in [Live -> Node] /\ RootIn(h)
  BY <1>1, <1>3, <1>5, <1>6, RootInUnlink, UnlinkType
<1> QED
  BY <1>1, <1>2, <1>3, <1>7, RootInUnlink

\* No step frees the root, gives it a parent, or points a child pointer at it.
LEMMA WritesRoot == TypeOK /\ TargetStays /\ RootStays /\ Writes => RootStays'
<1> SUFFICES ASSUME TypeOK, TargetStays, RootStays, Writes PROVE RootStays'
  OBVIOUS
<1>a. RootIn(heap)
  BY RootInHeap
<1>b. RootNode' = RootNode
  BY DEF Writes, InsertAttach, DeleteLeaf, DeleteWithLeftChild, DeleteWithRightChild,
         Splice, LeftMaxReplace, Return
<1>c. SUFFICES RootIn(heap')
  <2>1. TypeOK' /\ RootNode # NULL
    BY WritesType, AddrAssumption DEF TypeOK
  <2> QED
    BY <1>b, <2>1 DEF RootStays, RootIn, Children, Live
<1>1. NULL \notin Live /\ NULL \in Ptr \ {RootNode}
  BY AddrAssumption DEF TypeOK, Ptr
<1>2. heap \in [Live -> Node]
  BY DEF TypeOK
<1>3. CASE InsertAttach
  <2>1. PICK a \in Addr \ Live : heap' = Attached(CurrentNode, a) /\ Return(a)
    BY <1>3 DEF InsertAttach
  <2>2. CurrentNode \in Live
    BY <1>3 DEF InsertAttach
  <2>3. DOMAIN heap' = Live \cup {a} /\ a # RootNode
    BY <1>a, <2>1, <2>2, AttachedType DEF RootIn, Live
  <2> QED
    BY <1>1, <1>2, <1>a, <2>1, <2>2, <2>3 DEF Attached, BSTNode, Node, RootIn, TypeOK, Live
<1>4. CASE DeleteLeaf
  <2> DEFINE p == heap[CurrentNode].parent
             h == Relinked(p, CurrentNode, NULL)
  <2>1. CurrentNode \in Live /\ p \in Live /\ heap' = Free(h, CurrentNode)
    BY <1>4 DEF DeleteLeaf, Located
  <2>2. CurrentNode # RootNode
    BY <1>1, <1>a, <2>1 DEF RootIn
  <2>3. h \in [Live -> Node]
    BY <1>1, <2>1, RelinkedType DEF TypeOK
  <2>4. RootIn(h)
    BY <1>1, <1>2, <1>a, <2>1, RootInUnlink DEF Relinked
  <2> QED
    BY <1>1, <2>1, <2>2, <2>3, <2>4, RootInUnlink
<1>5. CASE DeleteWithLeftChild
  BY <1>5, <1>a, SpliceRoot DEF DeleteWithLeftChild, Located
<1>6. CASE DeleteWithRightChild
  BY <1>6, <1>a, SpliceRoot DEF DeleteWithRightChild, Located
<1>7. CASE LeftMaxReplace
  <2> DEFINE max   == heap[leftMaxNode]
             moved == [heap EXCEPT ![CurrentNode].key = max.key,
                                   ![CurrentNode].value = max.value]
             h     == [moved EXCEPT ![max.parent].right = NULL]
  <2>1. leftMaxNode \in Live /\ max.parent \in Live /\ heap' = Free(h, leftMaxNode)
        /\ CurrentNode \in Live
    BY <1>7 DEF LeftMaxReplace, TargetStays
  <2>2. leftMaxNode # RootNode
    BY <1>1, <1>a, <2>1 DEF RootIn
  <2>3. moved \in [Live -> Node] /\ RootIn(moved)
    BY <1>1, <1>2, <1>a, <2>1, RootInUnlink, UnlinkType
  <2> HIDE DEF moved
  <2>4. h \in [Live -> Node] /\ RootIn(h)
    BY <1>1, <2>1, <2>3, RootInUnlink, UnlinkType
  <2> QED
    BY <1>1, <2>1, <2>2, <2>4, RootInUnlink
<1> QED
  BY <1>3, <1>4, <1>5, <1>6, <1>7 DEF Writes

LEMMA WritesTarget == Writes => TargetStays'
BY DEF Writes, InsertAttach, DeleteLeaf, DeleteWithLeftChild, DeleteWithRightChild,
       Splice, LeftMaxReplace, Return, TargetStays

LEMMA NextIInv == IInv /\ [Next]_vars => IInv'
<1> SUFFICES ASSUME IInv, [Next]_vars PROVE IInv'
  OBVIOUS
<1> USE DEF IInv
<1>1. CASE Writes
  BY <1>1, WritesType, WritesRoot, WritesTarget
<1>2. CASE ~Writes
  <2>1. \/ Caller \/ FindDescend \/ FindReturn \/ InsertDescend \/ InsertExisting
        \/ DeleteAbsent \/ DeleteWithTwoChildren \/ LeftMaxDescend
        \/ WalkFault \/ LeftMaxFault \/ ParentFault \/ ChildFault
        \/ UNCHANGED vars
    BY <1>2 DEF Next, Run, Deleting, Ended, Writes
  <2>2. TypeOK' /\ UNCHANGED <<RootNode, heap>>
    BY <2>1, QuietStepType
  <2>3. RootStays'
    BY <2>2 DEF RootStays, Live, Children
  <2>4. TargetStays'
    BY <2>1, <2>2
    DEF TargetStays, Live, Caller, CallFind, CallInsert, CallDelete, Call, FindDescend,
        FindReturn, InsertDescend, InsertExisting, DeleteAbsent, Return,
        DeleteWithTwoChildren, Located, LeftMaxDescend, WalkFault, LeftMaxFault,
        ParentFault, ChildFault, Fault, vars
  <2> QED
    BY <2>2, <2>3, <2>4
<1> QED
  BY <1>1, <1>2

\* In every state of every execution, damaged memory included, the variables have
\* their types; a dangling pointer is still an address or null.
THEOREM TypeCorrect == Spec => []TypeOK
<1>1. IInv => TypeOK
  BY DEF IInv
<1> QED
  BY <1>1, InitIInv, NextIInv, PTL DEF Spec

\* The constructor's node is the root for ever: DeleteNode never frees it and
\* nothing comes to point at it, whatever is called in whatever order.
THEOREM RootIsPermanent == Spec => []RootStays
<1>1. IInv => RootStays
  BY DEF IInv
<1> QED
  BY <1>1, InitIInv, NextIInv, PTL DEF Spec

-----------------------------------------------------------------------------
(* Handles *)

\* What HandlesStay asks of the memory h that follows heap.
Keeps(h) ==
    \A a \in Live : (a \in DOMAIN h /\ h[a].key = heap[a].key) \/ a \in {CurrentNode, leftMaxNode}

\* Writing pointers keeps every key; freeing CurrentNode or leftMaxNode, or
\* overwriting the pair of CurrentNode, touches only the two nodes left out.
LEMMA KeepsSteps ==
    ASSUME TypeOK, NEW h \in [Live -> Node], Keeps(h), NEW p, NEW c, NEW k, NEW v,
           NEW n \in {CurrentNode, leftMaxNode}
    PROVE  /\ Keeps([h EXCEPT ![p].left = c])
           /\ Keeps([h EXCEPT ![p].right = c])
           /\ Keeps([h EXCEPT ![p].parent = c])
           /\ Keeps([h EXCEPT ![CurrentNode].key = k, ![CurrentNode].value = v])
           /\ Keeps(Free(h, n))
<1>1. \A a \in Live : h[a] \in Node
  OBVIOUS
<1>2. Keeps([h EXCEPT ![p].left = c]) /\ Keeps([h EXCEPT ![p].right = c])
      /\ Keeps([h EXCEPT ![p].parent = c])
  BY <1>1 DEF Keeps, Node
<1>3. Keeps([h EXCEPT ![CurrentNode].key = k, ![CurrentNode].value = v])
  BY <1>1 DEF Keeps, Node
<1>4. Keeps(Free(h, n))
  BY DEF Keeps, Free, Restrict
<1> QED
  BY <1>2, <1>3, <1>4

LEMMA WritesKeep == TypeOK /\ TargetStays /\ Writes => Keeps(heap')
<1> SUFFICES ASSUME TypeOK, TargetStays, Writes PROVE Keeps(heap')
  OBVIOUS
<1>1. heap \in [Live -> Node] /\ Keeps(heap) /\ NULL \in Ptr
  BY DEF TypeOK, Keeps, Ptr, Live
<1>2. \A p \in Live, c \in Ptr :
          CurrentNode \in Live =>
          /\ Relinked(p, CurrentNode, c) \in [Live -> Node]
          /\ Keeps(Relinked(p, CurrentNode, c))
  BY <1>1, KeepsSteps, RelinkedType DEF Relinked, TypeOK
<1>3. CASE InsertAttach
  BY <1>1, <1>3 DEF InsertAttach, Attached, Keeps, Node
<1>4. CASE DeleteLeaf
  <2> DEFINE h == Relinked(heap[CurrentNode].parent, CurrentNode, NULL)
  <2>1. heap' = Free(h, CurrentNode) /\ h \in [Live -> Node] /\ Keeps(h)
    BY <1>1, <1>2, <1>4 DEF DeleteLeaf, Located
  <2> QED
    BY <2>1, KeepsSteps
<1>5. ASSUME CurrentNode \in Live, NEW c, Splice(c) PROVE Keeps(heap')
  <2> DEFINE p == heap[CurrentNode].parent
             r == Relinked(p, CurrentNode, c)
             h == [r EXCEPT ![c].parent = p]
  <2>1. p \in Live /\ c \in Live /\ c \in Ptr /\ heap' = Free(h, CurrentNode)
    BY <1>5 DEF Splice, TypeOK, Ptr
  <2>2. r \in [Live -> Node] /\ Keeps(r)
    BY <1>2, <1>5, <2>1
  <2> HIDE DEF r
  <2>3. h \in [Live -> Node] /\ Keeps(h)
    BY <2>1, <2>2, KeepsSteps, UnlinkType
  <2> QED
    BY <2>1, <2>3, KeepsSteps
<1>6. CASE DeleteWithLeftChild \/ DeleteWithRightChild
  BY <1>5, <1>6 DEF DeleteWithLeftChild, DeleteWithRightChild, Located
<1>7. CASE LeftMaxReplace
  <2> DEFINE max   == heap[leftMaxNode]
             moved == [heap EXCEPT ![CurrentNode].key = max.key,
                                   ![CurrentNode].value = max.value]
             h     == [moved EXCEPT ![max.parent].right = NULL]
  <2>1. leftMaxNode \in Live /\ max.parent \in Live /\ heap' = Free(h, leftMaxNode)
        /\ CurrentNode \in Live
    BY <1>7 DEF LeftMaxReplace, TargetStays
  <2>2. moved \in [Live -> Node] /\ Keeps(moved)
    BY <1>1, <2>1, KeepsSteps, UnlinkType
  <2> HIDE DEF moved
  <2>3. h \in [Live -> Node]
    BY <1>1, <2>1, <2>2, UnlinkType
  <2>4. Keeps(h)
    BY <2>1, <2>2, KeepsSteps
  <2> QED
    BY <2>1, <2>3, <2>4, KeepsSteps
<1> QED
  BY <1>3, <1>4, <1>6, <1>7 DEF Writes

\* A caller's pointer to a node outlives every call, with the node's key, unless
\* the node is the one DeleteNode found or the one it took in its place.
THEOREM HandlesAreStable == Spec => HandlesStay
<1>1. ASSUME IInv, [Next]_vars PROVE Keeps(heap')
  <2>1. CASE Writes
    BY <1>1, <2>1, WritesKeep DEF IInv
  <2>2. CASE ~Writes
    <3>1. \/ Caller \/ FindDescend \/ FindReturn \/ InsertDescend \/ InsertExisting
          \/ DeleteAbsent \/ DeleteWithTwoChildren \/ LeftMaxDescend
          \/ WalkFault \/ LeftMaxFault \/ ParentFault \/ ChildFault
          \/ UNCHANGED vars
      BY <1>1, <2>2 DEF Next, Run, Deleting, Ended, Writes
    <3>2. UNCHANGED heap
      BY <1>1, <3>1, QuietStepType DEF IInv
    <3> QED
      BY <3>2 DEF Keeps, Live
  <2> QED
    BY <2>1, <2>2
<1>2. IInv /\ [Next]_vars
        => [\A a \in Live : (a \in Live' /\ heap'[a].key = heap[a].key)
                            \/ a \in {CurrentNode, leftMaxNode}]_vars
  BY <1>1 DEF Keeps, Live
<1> QED
  BY <1>2, InitIInv, NextIInv, PTL DEF Spec, HandlesStay

-----------------------------------------------------------------------------
(* The shape of the memory, as BinarySearchTree says it, of any memory h, so that the *)
(* lemmas can be used of the heap before and after a step.  Subtree is the least      *)
(* closed set, not a recursive function, so that everything here follows without      *)
(* induction: to show that a set contains a subtree, show that it is closed.          *)

IsMemory(h) == DOMAIN h \subseteq Addr /\ h \in [DOMAIN h -> Node]

ClosedIn(h, S) ==
    \A a \in S : ({h[a].left, h[a].right} \ {NULL}) \cap DOMAIN h \subseteq S

Sub(h, a) ==
    LET holders == {S \in SUBSET DOMAIN h : a \in S /\ ClosedIn(h, S)}
    IN  IF a \in DOMAIN h THEN {b \in DOMAIN h : \A S \in holders : b \in S} ELSE {}

LinkedIn(h) ==
    /\ RootNode \in DOMAIN h
    /\ h[RootNode].parent = NULL
    /\ \A a \in DOMAIN h : \A c \in {h[a].left, h[a].right} \ {NULL} :
          c \in DOMAIN h /\ h[c].parent = a
    /\ \A a \in DOMAIN h : h[a].left = h[a].right => h[a].left = NULL
    /\ \A a \in DOMAIN h \ {RootNode} :
          /\ h[a].parent \in DOMAIN h
          /\ a \in {h[h[a].parent].left, h[h[a].parent].right} \ {NULL}

OrderedIn(h) ==
    \A a \in DOMAIN h : /\ \A b \in Sub(h, h[a].left) : h[b].key < h[a].key
                        /\ \A b \in Sub(h, h[a].right) : h[b].key > h[a].key

NoLeakIn(h) == DOMAIN h = Sub(h, RootNode)

\* They are the definitions of BinarySearchTree.
LEMMA SubIsSubtree == \A a : Subtree(a) = Sub(heap, a)
BY DEF Subtree, Sub, Closed, ClosedIn, Children, Live

LEMMA ShapeOfHeap ==
    /\ Linked <=> LinkedIn(heap)
    /\ Ordered <=> OrderedIn(heap)
    /\ NoLeak <=> NoLeakIn(heap)
<1>1. Linked <=> LinkedIn(heap)
  BY DEF Linked, LinkedIn, Children, Live
<1>2. Ordered <=> OrderedIn(heap)
  BY SubIsSubtree DEF Ordered, OrderedIn, Live
<1>3. NoLeak <=> NoLeakIn(heap)
  BY SubIsSubtree DEF NoLeak, NoLeakIn, Live
<1> QED
  BY <1>1, <1>2, <1>3

-----------------------------------------------------------------------------
(* What can be reached *)

\* A node reaches itself and everything its subtree points to.
LEMMA SubIsClosed ==
    ASSUME NEW h, NEW a
    PROVE  /\ Sub(h, a) \subseteq DOMAIN h
           /\ a \in DOMAIN h => a \in Sub(h, a)
           /\ ClosedIn(h, Sub(h, a))
BY DEF Sub, ClosedIn

\* A set that is closed on the memory and holds a node holds its subtree.
LEMMA SubIsLeast ==
    ASSUME NEW h, NEW a, NEW S, a \in DOMAIN h => a \in S,
           \A b \in S \cap DOMAIN h :
              ({h[b].left, h[b].right} \ {NULL}) \cap DOMAIN h \subseteq S
    PROVE  Sub(h, a) \subseteq S
<1>1. ClosedIn(h, S \cap DOMAIN h)
  BY DEF ClosedIn
<1> QED
  BY <1>1 DEF Sub

\* A subtree holds the subtrees of its nodes.
LEMMA SubIsTransitive ==
    ASSUME NEW h, NEW a, NEW b \in Sub(h, a)
    PROVE  Sub(h, b) \subseteq Sub(h, a)
<1>1. ClosedIn(h, Sub(h, a))
  BY SubIsClosed
<1> QED
  BY <1>1, SubIsLeast DEF ClosedIn

\* Nothing is reached from a pointer that is null.
LEMMA SubOfNull == ASSUME NEW h, IsMemory(h) PROVE Sub(h, NULL) = {}
BY AddrAssumption DEF Sub, IsMemory

\* A subtree is its node and the subtrees of the two children.
LEMMA SubByChildren ==
    ASSUME NEW h, IsMemory(h), NEW a \in DOMAIN h
    PROVE  Sub(h, a) = {a} \cup Sub(h, h[a].left) \cup Sub(h, h[a].right)
<1> DEFINE T == {a} \cup Sub(h, h[a].left) \cup Sub(h, h[a].right)
<1>1. ASSUME NEW c \in {h[a].left, h[a].right} PROVE Sub(h, c) \subseteq Sub(h, a)
  <2>1. CASE c \in DOMAIN h
    <3>1. c # NULL
      BY <2>1, AddrAssumption DEF IsMemory
    <3>2. c \in Sub(h, a)
      BY <1>1, <2>1, <3>1, SubIsClosed DEF ClosedIn
    <3> QED
      BY <3>2, SubIsTransitive
  <2>2. CASE c \notin DOMAIN h
    BY <2>2 DEF Sub
  <2> QED
    BY <2>1, <2>2
<1>2. T \subseteq Sub(h, a)
  BY <1>1, SubIsClosed
<1>3. \A c : (c \in DOMAIN h => c \in Sub(h, c)) /\ ClosedIn(h, Sub(h, c))
  BY SubIsClosed
<1>4. ASSUME NEW b \in T \cap DOMAIN h, NEW c \in {h[b].left, h[b].right} \ {NULL}, c \in DOMAIN h
      PROVE  c \in T
  <2>1. CASE b = a
    BY <1>3, <1>4, <2>1
  <2>2. CASE b \in Sub(h, h[a].left)
    BY <1>3, <1>4, <2>2 DEF ClosedIn
  <2>3. CASE b \in Sub(h, h[a].right)
    BY <1>3, <1>4, <2>3 DEF ClosedIn
  <2> QED
    BY <2>1, <2>2, <2>3
<1> HIDE DEF T
<1>5. a \in T
  BY DEF T
<1>6. Sub(h, a) \subseteq T
  BY <1>4, <1>5, SubIsLeast
<1> QED
  BY <1>2, <1>6 DEF T

\* A node below another is there because its parent is.
LEMMA SubHoldsParent ==
    ASSUME NEW h, IsMemory(h), LinkedIn(h), NEW a, NEW b \in Sub(h, a), b # a
    PROVE  h[b].parent \in Sub(h, a)
<1> SUFFICES ASSUME h[b].parent \notin Sub(h, a) PROVE FALSE
  OBVIOUS
<1> DEFINE S == Sub(h, a) \ {b}
<1>1. ClosedIn(h, Sub(h, a)) /\ Sub(h, a) \subseteq DOMAIN h /\ (a \in DOMAIN h => a \in Sub(h, a))
  BY SubIsClosed
<1>2. ASSUME NEW d \in S \cap DOMAIN h, NEW c \in {h[d].left, h[d].right} \ {NULL}, c \in DOMAIN h
      PROVE  c \in S
  <2>1. c \in Sub(h, a)
    BY <1>1, <1>2 DEF ClosedIn
  <2>2. h[c].parent = d
    BY <1>2 DEF LinkedIn
  <2> QED
    BY <2>1, <2>2
<1>3. a \in DOMAIN h => a \in S
  BY <1>1
<1> HIDE DEF S
<1>4. Sub(h, a) \subseteq S
  BY <1>2, <1>3, SubIsLeast
<1> QED
  BY <1>4 DEF S

-----------------------------------------------------------------------------
(* insert: a node grows a leaf *)

\* g is h with a new leaf a under n.
Grown(h, g, n, a) ==
    /\ n \in DOMAIN h /\ a \notin DOMAIN h
    /\ DOMAIN g = DOMAIN h \cup {a}
    /\ g[a].left = NULL /\ g[a].right = NULL /\ g[a].parent = n
    /\ \A b \in DOMAIN h : g[b].key = h[b].key /\ g[b].parent = h[b].parent
    /\ \A b \in DOMAIN h \ {n} : g[b].left = h[b].left /\ g[b].right = h[b].right
    /\ \/ g[a].key < h[n].key /\ h[n].left = NULL /\ g[n].left = a /\ g[n].right = h[n].right
       \/ g[a].key > h[n].key /\ h[n].right = NULL /\ g[n].right = a /\ g[n].left = h[n].left

\* The new leaf comes into the subtrees that hold its parent, nothing else does.
LEMMA GrownSub ==
    ASSUME NEW h, NEW g, IsMemory(h), IsMemory(g), NEW n, NEW a, Grown(h, g, n, a),
           LinkedIn(h)
    PROVE  /\ Sub(g, a) = {a}
           /\ \A x \in DOMAIN h : Sub(h, x) \subseteq Sub(g, x)
           /\ \A x \in DOMAIN h : Sub(g, x) \subseteq Sub(h, x) \cup {a}
           /\ \A x \in DOMAIN h : a \in Sub(g, x) => n \in Sub(h, x)
<1> USE DEF Grown
<1>0. NULL \notin DOMAIN h /\ a # NULL
  BY AddrAssumption DEF IsMemory
<1>1. Sub(g, a) = {a}
  BY SubByChildren, SubOfNull
<1>2. ASSUME NEW x \in DOMAIN h PROVE Sub(h, x) \subseteq Sub(g, x)
  <2>1. ClosedIn(g, Sub(g, x)) /\ x \in Sub(g, x)
    BY SubIsClosed
  <2>2. \A b \in Sub(g, x) \cap DOMAIN h :
           ({h[b].left, h[b].right} \ {NULL}) \cap DOMAIN h \subseteq Sub(g, x)
    BY <2>1 DEF ClosedIn
  <2> QED
    BY <2>1, <2>2, SubIsLeast
<1>3. ASSUME NEW x \in DOMAIN h PROVE Sub(g, x) \subseteq Sub(h, x) \cup {a}
  <2> DEFINE T == Sub(h, x) \cup {a}
  <2>1. ClosedIn(h, Sub(h, x)) /\ x \in Sub(h, x) /\ Sub(h, x) \subseteq DOMAIN h
    BY SubIsClosed
  <2>2. \A b \in T \cap DOMAIN g : ({g[b].left, g[b].right} \ {NULL}) \cap DOMAIN g \subseteq T
    BY <2>1 DEF ClosedIn
  <2>3. x \in T
    BY <2>1
  <2> HIDE DEF T
  <2>4. Sub(g, x) \subseteq T
    BY <2>2, <2>3, SubIsLeast
  <2> QED
    BY <2>4 DEF T
<1>4. ASSUME NEW x \in DOMAIN h, n \notin Sub(h, x) PROVE a \notin Sub(g, x)
  <2>1. ClosedIn(h, Sub(h, x)) /\ x \in Sub(h, x) /\ Sub(h, x) \subseteq DOMAIN h
    BY SubIsClosed
  <2>2. \A b \in Sub(h, x) \cap DOMAIN g :
           ({g[b].left, g[b].right} \ {NULL}) \cap DOMAIN g \subseteq Sub(h, x)
    BY <1>4, <2>1 DEF ClosedIn, LinkedIn
  <2>3. Sub(g, x) \subseteq Sub(h, x)
    BY <2>1, <2>2, SubIsLeast
  <2> QED
    BY <2>1, <2>3
<1> QED
  BY <1>1, <1>2, <1>3, <1>4

\* A search for k that ends at n has gone left of every node on its way with a
\* larger key and right of every node with a smaller one.
PathTo(h, n, k) ==
    \A x \in DOMAIN h : /\ n \in Sub(h, h[x].left) => k < h[x].key
                        /\ n \in Sub(h, h[x].right) => k > h[x].key

\* A leaf put where the search for its key ended keeps the tree a search tree.
LEMMA GrownIsTree ==
    ASSUME NEW h, NEW g, IsMemory(h), IsMemory(g), NEW n, NEW a, Grown(h, g, n, a),
           LinkedIn(h), OrderedIn(h), NoLeakIn(h), PathTo(h, n, g[a].key)
    PROVE  LinkedIn(g) /\ OrderedIn(g) /\ NoLeakIn(g)
<1> USE DEF Grown
<1>0. NULL \notin DOMAIN h /\ NULL \notin DOMAIN g
  BY AddrAssumption DEF IsMemory
<1>1. LinkedIn(g)
  BY <1>0 DEF LinkedIn
<1>2. OrderedIn(g)
  <2>1. Sub(g, NULL) = {} /\ Sub(h, NULL) = {}
    BY SubOfNull
  <2>2. ASSUME NEW x \in DOMAIN h, NEW b \in Sub(g, h[x].left) PROVE g[b].key < h[x].key
    <3>1. h[x].left \in DOMAIN h
      BY <2>1, <2>2 DEF LinkedIn
    <3>2. b \in Sub(h, h[x].left) \/ (b = a /\ n \in Sub(h, h[x].left))
      BY <3>1, <2>2, GrownSub
    <3> QED
      BY <3>1, <3>2, SubIsClosed DEF OrderedIn, PathTo
  <2>3. ASSUME NEW x \in DOMAIN h, NEW b \in Sub(g, h[x].right) PROVE g[b].key > h[x].key
    <3>1. h[x].right \in DOMAIN h
      BY <2>1, <2>3 DEF LinkedIn
    <3>2. b \in Sub(h, h[x].right) \/ (b = a /\ n \in Sub(h, h[x].right))
      BY <3>1, <2>3, GrownSub
    <3> QED
      BY <3>1, <3>2, SubIsClosed DEF OrderedIn, PathTo
  <2>4. Sub(g, a) = {a}
    BY GrownSub
  <2> QED
    BY <2>1, <2>2, <2>3, <2>4 DEF OrderedIn
<1>3. NoLeakIn(g)
  <2>1. RootNode \in DOMAIN h /\ Sub(h, RootNode) = DOMAIN h
    BY DEF LinkedIn, NoLeakIn
  <2>2. DOMAIN h \subseteq Sub(g, RootNode)
    BY <2>1, GrownSub
  <2>3. a \in Sub(g, RootNode)
    BY <1>0, <2>2, SubIsClosed DEF ClosedIn
  <2> QED
    BY <2>2, <2>3, SubIsClosed DEF NoLeakIn
<1> QED
  BY <1>1, <1>2, <1>3

-----------------------------------------------------------------------------
(* DeleteNode: a node gives its place to its only child, or to nothing *)

\* g is h without n, whose parent points to c instead; n has no child but c.
Unlinked(h, g, n, c) ==
    /\ n \in DOMAIN h \ {RootNode}
    /\ {h[n].left, h[n].right, NULL} = {c, NULL}
    /\ DOMAIN g = DOMAIN h \ {n}
    /\ \A b \in DOMAIN g :
          /\ g[b].left   = IF h[b].left = n THEN c ELSE h[b].left
          /\ g[b].right  = IF h[b].right = n THEN c ELSE h[b].right
          /\ g[b].parent = IF b = c THEN h[n].parent ELSE h[b].parent

\* Every subtree loses n, and nothing else.
LEMMA UnlinkedSub ==
    ASSUME NEW h, NEW g, IsMemory(h), IsMemory(g), NEW n, NEW c, Unlinked(h, g, n, c)
    PROVE  \A x \in DOMAIN g : Sub(g, x) = Sub(h, x) \ {n}
<1> USE DEF Unlinked
<1>0. NULL \notin DOMAIN h
  BY AddrAssumption DEF IsMemory
<1> SUFFICES ASSUME NEW x \in DOMAIN g PROVE Sub(g, x) = Sub(h, x) \ {n}
  OBVIOUS
<1>1. Sub(g, x) \subseteq Sub(h, x) \ {n}
  <2> DEFINE T == Sub(h, x) \ {n}
  <2>1. ClosedIn(h, Sub(h, x)) /\ x \in Sub(h, x) /\ Sub(h, x) \subseteq DOMAIN h
    BY SubIsClosed
  <2>2. ASSUME NEW b \in T \cap DOMAIN g, NEW d \in {g[b].left, g[b].right} \ {NULL},
               d \in DOMAIN g
        PROVE  d \in T
    <3>1. CASE d \in {h[b].left, h[b].right}
      BY <2>1, <2>2, <3>1 DEF ClosedIn
    <3>2. CASE n \in {h[b].left, h[b].right} /\ d = c
      <4>1. n \in Sub(h, x)
        BY <1>0, <2>1, <2>2, <3>2 DEF ClosedIn
      <4>2. d \in {h[n].left, h[n].right}
        BY <2>2, <3>2
      <4> QED
        BY <2>1, <2>2, <4>1, <4>2 DEF ClosedIn
    <3> QED
      BY <2>2, <3>1, <3>2
  <2>3. x \in T
    BY <2>1
  <2> HIDE DEF T
  <2>4. Sub(g, x) \subseteq T
    BY <2>2, <2>3, SubIsLeast
  <2> QED
    BY <2>4 DEF T
<1>2. Sub(h, x) \subseteq Sub(g, x) \cup {n}
  <2> DEFINE N == IF \E b \in Sub(g, x) : n \in {h[b].left, h[b].right} THEN {n} ELSE {}
             T == Sub(g, x) \cup N
  <2>1. ClosedIn(g, Sub(g, x)) /\ x \in Sub(g, x) /\ Sub(g, x) \subseteq DOMAIN g
    BY SubIsClosed
  <2>2. ASSUME NEW b \in Sub(g, x), NEW d \in {h[b].left, h[b].right} \ {NULL}, d \in DOMAIN h
        PROVE  d \in T
    BY <2>1, <2>2 DEF ClosedIn
  <2>3. ASSUME n \in T, NEW d \in {h[n].left, h[n].right} \ {NULL}, d \in DOMAIN h
        PROVE  d \in T
    <3>1. PICK b \in Sub(g, x) : n \in {h[b].left, h[b].right}
      BY <2>1, <2>3
    <3>2. d = c /\ (d # n => d \in DOMAIN g)
      BY <2>3
    <3>3. d # n => d \in Sub(g, x)
      BY <2>1, <2>3, <3>1, <3>2 DEF ClosedIn
    <3> QED
      BY <2>3, <3>3
  <2>4. \A b \in T : b \in Sub(g, x) \/ b = n
    OBVIOUS
  <2>5. x \in T
    BY <2>1
  <2>6. T \subseteq Sub(g, x) \cup {n}
    OBVIOUS
  <2> HIDE DEF T, N
  <2>7. Sub(h, x) \subseteq T
    BY <2>2, <2>3, <2>4, <2>5, SubIsLeast
  <2> QED
    BY <2>6, <2>7
<1> QED
  BY <1>1, <1>2

\* So do the subtrees of both children of every node.
LEMMA UnlinkedChildren ==
    ASSUME NEW h, NEW g, IsMemory(h), IsMemory(g), NEW n, NEW c, Unlinked(h, g, n, c),
           LinkedIn(h)
    PROVE  \A b \in DOMAIN g : /\ Sub(g, g[b].left) = Sub(h, h[b].left) \ {n}
                               /\ Sub(g, g[b].right) = Sub(h, h[b].right) \ {n}
<1>a. \A x \in DOMAIN g : Sub(g, x) = Sub(h, x) \ {n}
  BY UnlinkedSub
<1> USE DEF Unlinked
<1>0. NULL \notin DOMAIN h /\ Sub(h, NULL) = {} /\ Sub(g, NULL) = {} /\ n # NULL
  BY SubOfNull, AddrAssumption DEF IsMemory
<1>1. ASSUME NEW d, d = NULL \/ d \in DOMAIN g PROVE Sub(g, d) = Sub(h, d) \ {n}
  <2>1. CASE d = NULL
    BY <1>0, <2>1
  <2>2. CASE d \in DOMAIN g
    BY <1>a, <2>2
  <2> QED
    BY <1>1, <2>1, <2>2
<1>2. c = n \/ c = NULL \/ c \in DOMAIN g
  BY DEF LinkedIn
<1>3. Sub(h, n) \ {n} = Sub(h, c) \ {n}
  <2>1. Sub(h, n) = {n} \cup Sub(h, h[n].left) \cup Sub(h, h[n].right)
    BY SubByChildren
  <2> QED
    BY <1>0, <2>1
<1>4. ASSUME NEW b \in DOMAIN g, n \in {h[b].left, h[b].right} PROVE c # n
  BY <1>0, <1>4 DEF LinkedIn
<1>5. ASSUME NEW b \in DOMAIN g, NEW d \in {h[b].left, h[b].right}, d # n
      PROVE  d = NULL \/ d \in DOMAIN g
  BY <1>5 DEF LinkedIn
<1>6. ASSUME NEW b \in DOMAIN g PROVE Sub(g, g[b].left) = Sub(h, h[b].left) \ {n}
  BY <1>1, <1>2, <1>3, <1>4, <1>5
<1>7. ASSUME NEW b \in DOMAIN g PROVE Sub(g, g[b].right) = Sub(h, h[b].right) \ {n}
  BY <1>1, <1>2, <1>3, <1>4, <1>5
<1> QED
  BY <1>6, <1>7

\* What is left is linked, and nothing of it is lost.
LEMMA UnlinkedIsLinked ==
    ASSUME NEW h, NEW g, IsMemory(h), IsMemory(g), NEW n, NEW c, Unlinked(h, g, n, c),
           LinkedIn(h), NoLeakIn(h)
    PROVE  LinkedIn(g) /\ NoLeakIn(g)
<1> USE DEF Unlinked
<1>0. NULL \notin DOMAIN h /\ NULL \notin DOMAIN g
  BY AddrAssumption DEF IsMemory
<1>1. h[n].parent \in DOMAIN h /\ n \in {h[h[n].parent].left, h[h[n].parent].right}
  BY DEF LinkedIn
<1>2. NoLeakIn(g)
  <2>1. RootNode \in DOMAIN g
    BY DEF LinkedIn
  <2>2. Sub(g, RootNode) = Sub(h, RootNode) \ {n}
    BY <2>1, UnlinkedSub
  <2> QED
    BY <2>2 DEF NoLeakIn
<1>3. c = NULL \/ (c \in {h[n].left, h[n].right} /\ c # NULL)
  OBVIOUS
<1>4. c # RootNode
  BY <1>0, <1>3 DEF LinkedIn
<1>5. LinkedIn(g)
  <2>1. RootNode \in DOMAIN g /\ g[RootNode].parent = NULL
    BY <1>4 DEF LinkedIn
  <2>2. ASSUME NEW b \in DOMAIN g, NEW d \in {g[b].left, g[b].right}, d # NULL
        PROVE  d \in DOMAIN g /\ g[d].parent = b
    <3>1. CASE d \in {h[b].left, h[b].right} /\ d # n
      <4>1. d \in DOMAIN g /\ h[d].parent = b
        BY <2>2, <3>1 DEF LinkedIn
      <4>2. d # c
        BY <1>3, <2>2, <4>1 DEF LinkedIn
      <4> QED
        BY <4>1, <4>2
    <3>2. CASE n \in {h[b].left, h[b].right} /\ d = c
      <4>1. h[n].parent = b /\ n # NULL
        BY <1>0, <2>2, <3>2 DEF LinkedIn
      <4>2. c \in DOMAIN h /\ h[c].parent = n
        BY <1>3, <2>2, <3>2 DEF LinkedIn
      <4>3. c # n
        BY <2>2, <4>1, <4>2
      <4> QED
        BY <3>2, <4>1, <4>2, <4>3
    <3> QED
      BY <2>2, <3>1, <3>2
  <2>3. ASSUME NEW b \in DOMAIN g, g[b].left = g[b].right PROVE g[b].left = NULL
    <3>1. \A d \in {h[b].left, h[b].right} : d # NULL => d \in DOMAIN h /\ h[d].parent = b
      BY <2>3 DEF LinkedIn
    <3>2. h[b].left = h[b].right => h[b].left = NULL
      BY <2>3 DEF LinkedIn
    <3>3. c # NULL => h[c].parent = n
      BY <1>3 DEF LinkedIn
    <3> QED
      BY <1>0, <2>3, <3>1, <3>2, <3>3
  <2>4. ASSUME NEW b \in DOMAIN g \ {RootNode}
        PROVE  /\ g[b].parent \in DOMAIN g
               /\ b \in {g[g[b].parent].left, g[g[b].parent].right} \ {NULL}
    <3>1. CASE b = c
      BY <1>0, <1>1, <1>3, <2>4, <3>1, SMTT(30) DEF LinkedIn
    <3>2. CASE b # c
      BY <1>0, <1>3, <2>4, <3>2 DEF LinkedIn
    <3> QED
      BY <3>1, <3>2
  <2> QED
    BY <2>1, <2>2, <2>3, <2>4 DEF LinkedIn
<1> QED
  BY <1>2, <1>5

\* A search tree stays one if the keys stay.
LEMMA UnlinkedIsOrdered ==
    ASSUME NEW h, NEW g, IsMemory(h), IsMemory(g), NEW n, NEW c, Unlinked(h, g, n, c),
           LinkedIn(h), OrderedIn(h), \A b \in DOMAIN g : g[b].key = h[b].key
    PROVE  OrderedIn(g)
<1>1. DOMAIN g = DOMAIN h \ {n}
  BY DEF Unlinked
<1>2. \A b \in DOMAIN g : /\ Sub(g, g[b].left) = Sub(h, h[b].left) \ {n}
                         /\ Sub(g, g[b].right) = Sub(h, h[b].right) \ {n}
  BY UnlinkedChildren
<1>3. \A d : Sub(h, d) \subseteq DOMAIN h
  BY SubIsClosed
<1> QED
  BY <1>1, <1>2, <1>3 DEF OrderedIn

=============================================================================
