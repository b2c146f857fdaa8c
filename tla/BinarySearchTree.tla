-------------------------- MODULE BinarySearchTree --------------------------
(***************************************************************************)
(* The binary search tree of DataAndAlgorithm/Tree/BinarySearchTree.cpp:   *)
(* class BST over heap-allocated BSTNode objects.                          *)
(*                                                                         *)
(* The memory is explicit.  heap maps the address of every allocated node  *)
(* to its fields; `delete' removes the address from the domain of heap,    *)
(* and `new' may hand out again any address that is not in use.  A pointer *)
(* is therefore a live address, NULL, or dangling, and the program that    *)
(* dereferences it goes on, faults, or has undefined behaviour.            *)
(*                                                                         *)
(* The program is sequential.  A call is one action that enters the        *)
(* function and then one action per loop iteration (or per recursive call  *)
(* of find_internal), so the loops' invariants and their termination are   *)
(* visible.                                                                *)
(***************************************************************************)
EXTENDS Integers, Functions

CONSTANTS Key,            \* keys a caller may use
          Value,          \* values a caller may store
          Addr,           \* addresses the allocator can hand out
          NULL,           \* nullptr
          Indeterminate   \* what DeleteNode returns when it falls off its end

ASSUME KeyAssumption  == Key \subseteq Int
ASSUME AddrAssumption == NULL \notin Addr /\ Indeterminate \notin Addr

VARIABLES RootNode,       \* BST::RootNode, written by the constructor only
          heap,           \* allocated nodes: address -> BSTNode
          pc,             \* the function being executed, or how the program ended
          key, value,     \* arguments of the current (or last) call
          CurrentNode,    \* local of insert and DeleteNode, parameter of find_internal
          leftMaxNode,    \* local of DeleteNode
          ret             \* pointer returned by the last call, until the next one

vars == <<RootNode, heap, pc, key, value, CurrentNode, leftMaxNode, ret>>

-----------------------------------------------------------------------------
(* Nodes and pointers *)

Ptr == Addr \cup {NULL}

Node == [key : Key, value : Value, left : Ptr, right : Ptr, parent : Ptr,
         LeftOrRight : 0..2]

\* Mutant of BSTNode: the constructor forgets to clear the parent.
BSTNodeParentUnset(k, v) ==
    [key |-> k, value |-> v, left |-> NULL, right |-> NULL, parent |-> Indeterminate,
     LeftOrRight |-> 0]

\* BSTNode::BSTNode
BSTNode(k, v) ==
    [key |-> k, value |-> v, left |-> NULL, right |-> NULL, parent |-> NULL,
     LeftOrRight |-> 0]

Live == DOMAIN heap

\* `delete n' applied to the memory h
Free(h, n) == Restrict(h, DOMAIN h \ {n})

IsLeafNode(n) == n # NULL /\ heap[n].left = NULL /\ heap[n].right = NULL

HasTwoChildren(n) == heap[n].left # NULL /\ heap[n].right # NULL

\* The child a search for k goes on to from node n, whose key is not k.
Toward(n, k) == IF k < heap[n].key THEN heap[n].left ELSE heap[n].right

-----------------------------------------------------------------------------
(* Control *)

\* The constructor BST::BST.
Init ==
    /\ key \in Key
    /\ value \in Value
    /\ RootNode \in Addr
    /\ heap = [a \in {RootNode} |-> BSTNode(key, value)]
    /\ pc = "idle"
    /\ CurrentNode = NULL
    /\ leftMaxNode = NULL
    /\ ret = NULL

\* Enter find, insert or DeleteNode (which starts with a find); all of them
\* start at the root, which is never null.
Call(function, k) ==
    /\ pc = "idle"
    /\ pc' = function
    /\ key' = k
    /\ CurrentNode' = RootNode
    /\ ret' = NULL
    /\ UNCHANGED <<RootNode, heap, leftMaxNode>>

Return(r) ==
    /\ pc' = "idle"
    /\ ret' = r
    /\ CurrentNode' = NULL
    /\ leftMaxNode' = NULL
    /\ UNCHANGED <<RootNode, key, value>>

\* The next statement dereferences p.  A null pointer ends the process; memory
\* that was freed and not allocated again may hold anything, and nothing is
\* said of the program after reading or writing it.
Fault(p) ==
    /\ p \notin Live
    /\ pc' = IF p = NULL THEN "crashed" ELSE "undefined"
    /\ UNCHANGED <<RootNode, heap, key, value, CurrentNode, leftMaxNode, ret>>

-----------------------------------------------------------------------------
(* find and find_internal *)

CallFind(k) == Call("find", k) /\ UNCHANGED value

\* One comparison that goes on to a child; the child may be null, which the
\* next find_internal checks.
FindDescend ==
    /\ pc \in {"find", "delete"}
    /\ CurrentNode \in Live
    /\ heap[CurrentNode].key # key
    /\ CurrentNode' = Toward(CurrentNode, key)
    /\ UNCHANGED <<RootNode, heap, pc, key, value, leftMaxNode, ret>>

FindReturn ==
    /\ pc = "find"
    /\ CurrentNode = NULL \/ (CurrentNode \in Live /\ heap[CurrentNode].key = key)
    /\ Return(CurrentNode)
    /\ UNCHANGED heap

-----------------------------------------------------------------------------
(* insert *)

\* Bound: the caller inserts only while the allocator has an address left
\* (`new' does not throw).
CallInsert(k, v) == Call("insert", k) /\ Live # Addr /\ value' = v

\* Mutant of InsertDescend: the loop moves ParentNode but not CurrentNode.
InsertStandsStill ==
    /\ pc = "insert"
    /\ CurrentNode \in Live
    /\ heap[CurrentNode].key # key
    /\ Toward(CurrentNode, key) # NULL
    /\ UNCHANGED vars

InsertDescend ==
    /\ pc = "insert"
    /\ CurrentNode \in Live
    /\ heap[CurrentNode].key # key
    /\ Toward(CurrentNode, key) # NULL
    /\ CurrentNode' = Toward(CurrentNode, key)
    /\ UNCHANGED <<RootNode, heap, pc, key, value, leftMaxNode, ret>>

\* Mutant of Attached: the new node is not told its parent.
AttachedWithoutParent(n, a) ==
    LET goesLeft == key < heap[n].key
        newNode  == [BSTNode(key, value) EXCEPT !.LeftOrRight = IF goesLeft THEN 1 ELSE 2]
    IN  [b \in Live \cup {a} |->
            IF b = a THEN newNode
            ELSE IF b # n THEN heap[b]
            ELSE IF goesLeft THEN [heap[n] EXCEPT !.left = a]
            ELSE [heap[n] EXCEPT !.right = a]]

\* The heap after `new BSTNode' put the new node at address a under node n.
Attached(n, a) ==
    LET goesLeft == key < heap[n].key
        newNode  == [BSTNode(key, value) EXCEPT
                        !.parent = n, !.LeftOrRight = IF goesLeft THEN 1 ELSE 2]
    IN  [b \in Live \cup {a} |->
            IF b = a THEN newNode
            ELSE IF b # n THEN heap[b]
            ELSE IF goesLeft THEN [heap[n] EXCEPT !.left = a]
            ELSE [heap[n] EXCEPT !.right = a]]

InsertAttach ==
    /\ pc = "insert"
    /\ CurrentNode \in Live
    /\ heap[CurrentNode].key # key
    /\ Toward(CurrentNode, key) = NULL
    /\ \E a \in Addr \ Live :
          /\ heap' = Attached(CurrentNode, a)
          /\ Return(a)

\* Mutant of InsertExisting: the value of a present key is overwritten.
InsertOverwrites ==
    /\ pc = "insert"
    /\ CurrentNode \in Live
    /\ heap[CurrentNode].key = key
    /\ heap' = [heap EXCEPT ![CurrentNode].value = value]
    /\ Return(CurrentNode)

\* The key is there: its node is returned and its value is left alone.
InsertExisting ==
    /\ pc = "insert"
    /\ CurrentNode \in Live
    /\ heap[CurrentNode].key = key
    /\ Return(CurrentNode)
    /\ UNCHANGED heap

-----------------------------------------------------------------------------
(* DeleteNode *)

CallDelete(k) == Call("delete", k) /\ UNCHANGED value

DeleteAbsent ==
    /\ pc = "delete"
    /\ CurrentNode = NULL
    /\ Return(NULL)
    /\ UNCHANGED heap

\* find(key) has returned the node to delete.
Located ==
    /\ pc = "delete"
    /\ CurrentNode \in Live
    /\ heap[CurrentNode].key = key

\* Mutant of Relinked: trusts LeftOrRight instead of comparing the pointer.
RelinkedByFlag(p, n, c) ==
    IF heap[n].LeftOrRight = 1 THEN [heap EXCEPT ![p].left = c]
                               ELSE [heap EXCEPT ![p].right = c]

\* The parent p of n takes c in the place of n: in left if that is where n is,
\* in right otherwise.
Relinked(p, n, c) ==
    IF heap[p].left = n THEN [heap EXCEPT ![p].left = c]
                        ELSE [heap EXCEPT ![p].right = c]

\* Mutant of DeleteLeaf: a leaf without parent is freed, RootNode is kept.
DeleteLeafFreesRoot ==
    /\ Located
    /\ IsLeafNode(CurrentNode)
    /\ LET p == heap[CurrentNode].parent
       IN  /\ p \in Live \cup {NULL}
           /\ heap' = Free(IF p = NULL THEN heap ELSE Relinked(p, CurrentNode, NULL),
                           CurrentNode)
    /\ Return(Indeterminate)

DeleteLeaf ==
    /\ Located
    /\ IsLeafNode(CurrentNode)
    /\ LET p == heap[CurrentNode].parent
       IN  /\ p \in Live
           /\ heap' = Free(Relinked(p, CurrentNode, NULL), CurrentNode)
    /\ Return(Indeterminate)

\* Mutant of Splice: the child keeps pointing at the freed node.
SpliceKeepsParent(c) ==
    LET p == heap[CurrentNode].parent
    IN  /\ p \in Live
        /\ c \in Live
        /\ heap' = Free(Relinked(p, CurrentNode, c), CurrentNode)
        /\ Return(Indeterminate)

\* The only child c of the node takes its place under the parent.
\* c keeps its LeftOrRight.
Splice(c) ==
    LET p == heap[CurrentNode].parent
    IN  /\ p \in Live
        /\ c \in Live
        /\ heap' = Free([Relinked(p, CurrentNode, c) EXCEPT ![c].parent = p], CurrentNode)
        /\ Return(Indeterminate)

\* Mutant of DeleteWithLeftChild: the child's fields move up, the child is freed.
DeleteCopiesLeftChild ==
    /\ Located
    /\ heap[CurrentNode].left \in Live
    /\ heap[CurrentNode].right = NULL
    /\ LET child == heap[heap[CurrentNode].left]
       IN  heap' = Free([heap EXCEPT ![CurrentNode].key   = child.key,
                                     ![CurrentNode].value = child.value,
                                     ![CurrentNode].left  = child.left,
                                     ![CurrentNode].right = child.right],
                        heap[CurrentNode].left)
    /\ Return(Indeterminate)

DeleteWithLeftChild ==
    /\ Located
    /\ heap[CurrentNode].left # NULL
    /\ heap[CurrentNode].right = NULL
    /\ Splice(heap[CurrentNode].left)

DeleteWithRightChild ==
    /\ Located
    /\ heap[CurrentNode].left = NULL
    /\ heap[CurrentNode].right # NULL
    /\ Splice(heap[CurrentNode].right)

DeleteWithTwoChildren ==
    /\ Located
    /\ HasTwoChildren(CurrentNode)
    /\ pc' = "leftmax"
    /\ leftMaxNode' = heap[CurrentNode].left
    /\ UNCHANGED <<RootNode, heap, key, value, CurrentNode, ret>>

\* Mutant of LeftMaxDescend: looks for the smallest node instead.
LeftMaxDescendsLeft ==
    /\ pc = "leftmax"
    /\ leftMaxNode \in Live
    /\ ~IsLeafNode(leftMaxNode)
    /\ leftMaxNode' = heap[leftMaxNode].left
    /\ UNCHANGED <<RootNode, heap, pc, key, value, CurrentNode, ret>>

\* `while (!IsLeafNode(leftMaxNode)) leftMaxNode = leftMaxNode->right'
LeftMaxDescend ==
    /\ pc = "leftmax"
    /\ leftMaxNode \in Live
    /\ ~IsLeafNode(leftMaxNode)
    /\ leftMaxNode' = heap[leftMaxNode].right
    /\ UNCHANGED <<RootNode, heap, pc, key, value, CurrentNode, ret>>

\* The loop ended at a leaf, so only the first branch of the last `if' runs: the
\* leaf's pair moves up and the leaf goes, its parent's *right* becoming null.
LeftMaxReplace ==
    /\ pc = "leftmax"
    /\ leftMaxNode \in Live
    /\ IsLeafNode(leftMaxNode)
    /\ LET max == heap[leftMaxNode]
           moved == [heap EXCEPT ![CurrentNode].key = max.key,
                                 ![CurrentNode].value = max.value]
       IN  /\ max.parent \in Live
           /\ heap' = Free([moved EXCEPT ![max.parent].right = NULL], leftMaxNode)
    /\ Return(Indeterminate)

-----------------------------------------------------------------------------
(* Dereferences that fail *)

\* The node that the next statement unlinks from its parent.
Unlinking(n) ==
    \/ Located /\ ~HasTwoChildren(CurrentNode) /\ n = CurrentNode
    \/ pc = "leftmax" /\ leftMaxNode \in Live /\ IsLeafNode(leftMaxNode) /\ n = leftMaxNode

\* A walk arrives at a dangling pointer.
WalkFault ==
    /\ pc \in {"find", "insert", "delete"}
    /\ CurrentNode # NULL
    /\ Fault(CurrentNode)

\* The loop of DeleteNode runs past the last right child (IsLeafNode(nullptr) is
\* false), or follows a dangling pointer.
LeftMaxFault == pc = "leftmax" /\ Fault(leftMaxNode)

\* `CurrentNode->parent->left' with no parent, or with a freed one.
ParentFault == \E n \in Live : Unlinking(n) /\ Fault(heap[n].parent)

\* `CurrentNode->left->parent = ...' writes to a freed child.
ChildFault ==
    /\ Located
    /\ ~HasTwoChildren(CurrentNode)
    /\ heap[CurrentNode].parent \in Live
    /\ \E c \in {heap[CurrentNode].left, heap[CurrentNode].right} \ {NULL} : Fault(c)

\* Nothing runs after the process has ended.
Ended == pc \in {"crashed", "undefined"} /\ UNCHANGED vars

-----------------------------------------------------------------------------

Deleting ==
    \/ DeleteAbsent \/ DeleteLeaf \/ DeleteWithLeftChild \/ DeleteWithRightChild
    \/ DeleteWithTwoChildren \/ LeftMaxDescend \/ LeftMaxReplace

\* The code's own steps: everything but the caller's decision to make a call.
Run ==
    \/ FindDescend \/ FindReturn
    \/ InsertDescend \/ InsertAttach \/ InsertExisting
    \/ Deleting
    \/ WalkFault \/ LeftMaxFault \/ ParentFault \/ ChildFault

Caller ==
    \E k \in Key : \/ CallFind(k)
                   \/ CallDelete(k)
                   \/ \E v \in Value : CallInsert(k, v)

Next == Caller \/ Run \/ Ended

Spec == Init /\ [][Next]_vars

-----------------------------------------------------------------------------
(* The shape of the memory *)

Children(a) == {heap[a].left, heap[a].right} \ {NULL}

Closed(S) == \A a \in S : Children(a) \cap Live \subseteq S

\* The nodes reachable from a through left and right, a included.
Subtree(a) ==
    LET holders == {S \in SUBSET Live : a \in S /\ Closed(S)}
    IN  IF a \in Live THEN {b \in Live : \A S \in holders : b \in S} ELSE {}

\* Child and parent pointers agree, and no child is shared or dangling.
Linked ==
    /\ RootNode \in Live
    /\ heap[RootNode].parent = NULL
    /\ \A a \in Live : \A c \in Children(a) : c \in Live /\ heap[c].parent = a
    /\ \A a \in Live : heap[a].left = heap[a].right => heap[a].left = NULL
    /\ \A a \in Live \ {RootNode} :
          heap[a].parent \in Live /\ a \in Children(heap[a].parent)

\* Definitions 2, 3 and 4 at the head of the file.
Ordered ==
    \A a \in Live : /\ \A b \in Subtree(heap[a].left) : heap[b].key < heap[a].key
                    /\ \A b \in Subtree(heap[a].right) : heap[b].key > heap[a].key

\* Every allocated node can still be reached: nothing was lost.
NoLeak == Live = Subtree(RootNode)

WellFormed == Linked /\ Ordered /\ NoLeak

Keys == {heap[a].key : a \in Subtree(RootNode)}

\* The shapes of tree on which deleting node n goes wrong: the root with fewer
\* than two children has no parent to relink; and with two children the largest
\* node of the left subtree must be a leaf, and not the left child itself.
Hazardous(n) ==
    IF HasTwoChildren(n)
    THEN \E m \in Subtree(heap[n].left) :
            /\ heap[m].right = NULL
            /\ \A b \in Subtree(heap[n].left) : heap[b].key <= heap[m].key
            /\ heap[m].left # NULL \/ m = heap[n].left
    ELSE n = RootNode

HazardousKey(k) == \E n \in Live : heap[n].key = k /\ Hazardous(n)

\* The callers this tree can serve: they never ask for a hazardous deletion.
ContractNext == Next /\ (pc = "idle" /\ pc' = "delete" => ~HazardousKey(key'))

ContractSpec == Init /\ [][ContractNext]_vars

\* The processor goes on executing a call that was made; nobody is obliged to
\* make one.
FairContractSpec == ContractSpec /\ WF_vars(Run)

-----------------------------------------------------------------------------
(* Properties *)

\* Types of all variables, including how a call and the program may end.
TypeOK ==
    /\ RootNode \in Addr
    /\ Live \subseteq Addr
    /\ heap \in [Live -> Node]
    /\ pc \in {"idle", "find", "insert", "delete", "leftmax", "crashed", "undefined"}
    /\ key \in Key /\ value \in Value
    /\ CurrentNode \in Ptr /\ leftMaxNode \in Ptr
    /\ ret \in Ptr \cup {Indeterminate}

\* The node made by the constructor is the root for ever: no deletion frees it,
\* no pointer leads back to it, whatever has happened to the rest of the memory.
RootStays ==
    /\ RootNode \in Live
    /\ heap[RootNode].parent = NULL
    /\ \A a \in Live : RootNode \notin Children(a)

\* find and insert never damage a good tree, and never fault on one.
OnlyDeleteBreaks ==
    [][WellFormed /\ pc \in {"idle", "find", "insert"}
          => WellFormed' /\ pc' \notin {"crashed", "undefined"}]_vars

\* A DeleteNode on a good tree ends in a good tree exactly when its key was not
\* hazardous: the three shapes of Hazardous are all that goes wrong, and they
\* always go wrong.
DeleteBreaksExactlyOnHazard ==
    [][WellFormed /\ pc \in {"delete", "leftmax"} /\ pc' \notin {"delete", "leftmax"}
          => ((WellFormed' /\ pc' = "idle") <=> ~HazardousKey(key))]_vars

\* A pointer that a caller holds stays valid and keeps its key through every
\* call, except for the node DeleteNode found and the node it took in its place.
HandlesStay ==
    [][\A a \in Live :
          (a \in Live' /\ heap'[a].key = heap[a].key) \/ a \in {CurrentNode, leftMaxNode}]_vars

\* Every call of a caller who keeps to the contract returns: no walk goes on for
\* ever, whatever deletions have done to the tree before.
EveryCallReturns == pc # "idle" ~> pc = "idle"

\* The loop invariant of the walks: if the key is in the tree, it is at or below
\* CurrentNode, and in the second loop of DeleteNode the largest key of the left
\* subtree is at or below leftMaxNode.
WalkNarrows ==
    /\ pc \in {"find", "insert", "delete"} /\ key \in Keys
          => \E b \in Subtree(CurrentNode) : heap[b].key = key
    /\ pc = "leftmax"
          => \A b \in Subtree(heap[CurrentNode].left) :
                b \in Subtree(leftMaxNode)
                \/ \E m \in Subtree(leftMaxNode) : heap[b].key < heap[m].key

\* The program neither dereferences null nor touches freed memory.
NoFault == pc \notin {"crashed", "undefined"}

\* Comment of DeleteNode, lines 389-392: deleting a node with two children removes
\* that key and no other, its place being taken by the maximum of the left subtree.
DeleteRemovesOneKey ==
    [][pc = "leftmax" /\ pc' = "idle" => Keys' = Keys \ {key}]_vars

\* The tree is a map: the abstract specification it implements.
NodeOf(k) == CHOOSE a \in Live : heap[a].key = k

MapNow == [k \in {heap[a].key : a \in Live} |-> heap[NodeOf(k)].value]

CallNow == IF pc = "leftmax" THEN "delete" ELSE pc

AnswerNow == IF ret \in Live THEN [key |-> heap[ret].key, value |-> heap[ret].value] ELSE ret

Map == INSTANCE OrderedMap
          WITH map    <- MapNow,
               call   <- CallNow,
               answer <- AnswerNow,
               Absent <- NULL,
               Unspecified <- Indeterminate

ImplementsMap == Map!Spec

=============================================================================
