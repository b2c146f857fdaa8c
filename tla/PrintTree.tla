----------------------------- MODULE PrintTree -----------------------------
(***************************************************************************)
(* BST::printTree of DataAndAlgorithm/Tree/BinarySearchTree.cpp (and its   *)
(* copy in AVLTree.cpp): prints the tree level by level.  A level is a     *)
(* vector with a place for every node the level could hold, null where     *)
(* there is none, so that each one is twice as long as the one before.     *)
(*                                                                         *)
(* This module has the variables and actions of one call; AVLTree puts     *)
(* them together with the tree's operations.                               *)
(***************************************************************************)
EXTENDS BinarySearchTree, SequencesExt

\* No key is printed like an empty place.
ASSUME PrintAssumption == NULL \notin Key

VARIABLES vNodes,     \* local of printTree: the level to print; empty outside it
          printed     \* the levels printed by the call that runs, each a sequence of
                      \* keys with NULL for the places printed as X

printVars == <<vNodes, printed>>

Printing == vNodes # <<>>

-----------------------------------------------------------------------------

\* Mutant of IsNodesInVectorAllNull: one null is taken for all of them.
IsSomeNodeNull(nodes) == \E i \in DOMAIN nodes : nodes[i] = NULL

\* Mutant of IsNodesInVectorAllNull: looks at the vector, not at its pointers.
IsVectorEmpty(nodes) == nodes = <<>>

IsNodesInVectorAllNull(nodes) == \A i \in DOMAIN nodes : nodes[i] = NULL

\* Mutant of LevelBelow: an empty place leaves no room below it.
LevelBelowWithoutGaps(nodes) ==
    FlattenSeq([i \in DOMAIN nodes |->
        IF nodes[i] = NULL THEN <<NULL>>
                           ELSE <<heap[nodes[i]].left, heap[nodes[i]].right>>])

\* The children of all places of a level; an empty place has two empty ones.
LevelBelow(nodes) ==
    FlattenSeq([i \in DOMAIN nodes |->
        IF nodes[i] = NULL THEN <<NULL, NULL>>
                           ELSE <<heap[nodes[i]].left, heap[nodes[i]].right>>])

KeysOf(nodes) == [i \in DOMAIN nodes |-> IF nodes[i] = NULL THEN NULL ELSE heap[nodes[i]].key]

PrintInit == vNodes = <<>> /\ printed = <<>>

CallPrintTree ==
    /\ pc = "idle"
    /\ ~Printing
    /\ vNodes' = <<RootNode>>
    /\ UNCHANGED <<vars, printed>>

\* One turn of the loop: print a level, go to the one below.
PrintLevel ==
    /\ Printing
    /\ ~IsNodesInVectorAllNull(vNodes)
    /\ printed' = Append(printed, KeysOf(vNodes))
    /\ vNodes' = LevelBelow(vNodes)
    /\ UNCHANGED vars

PrintReturn ==
    /\ Printing
    /\ IsNodesInVectorAllNull(vNodes)
    /\ vNodes' = <<>>
    /\ printed' = <<>>
    /\ UNCHANGED vars

printTree == CallPrintTree \/ PrintLevel \/ PrintReturn

-----------------------------------------------------------------------------
(* Properties *)

\* The places of all printed levels, and the key printed there.
Places == {p \in (1..Len(printed)) \X (1..2^Len(printed)) : p[2] \in DOMAIN printed[p[1]]}

KeyAt(place) == printed[place[1]][place[2]]

\* When printTree returns, every key of the tree has been printed, in one place
\* only, and nothing else has been.
PrintsEveryKeyOnce ==
    [][Printing /\ ~Printing' =>
          LET full == {p \in Places : KeyAt(p) # NULL}
          IN  /\ {KeyAt(p) : p \in full} = Keys
              /\ \A p, q \in full : KeyAt(p) = KeyAt(q) => p = q]_<<vars, printVars>>

\* The picture is a search tree: under every printed key, what is printed in the
\* left half of its range is smaller and what is printed in the right half larger.
PictureIsOrdered ==
    \A p, q \in Places :
        LET depth == q[1] - p[1]
            from  == (p[2] - 1) * 2^depth      \* places of q's level left of p's range
            half  == from + 2^(depth - 1)
        IN  depth > 0 /\ KeyAt(p) # NULL /\ KeyAt(q) # NULL
               => /\ q[2] \in (from + 1)..half => KeyAt(q) < KeyAt(p)
                  /\ q[2] \in (half + 1)..(from + 2^depth) => KeyAt(q) > KeyAt(p)

\* The vector grows exponentially with the height of the tree and stops growing
\* one level below the deepest node: with n nodes no vector exceeds 2^n places.
\* Each turn of the loop doubles it, so printTree also returns.
VectorIsBounded == Len(vNodes) <= 2^Cardinality(Live)

=============================================================================
