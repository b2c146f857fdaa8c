------------------------------ MODULE MCAVLTree ------------------------------
(* Small instances of AVLTree for TLC. *)
EXTENDS AVLTree, TLC

AddrSymmetry == Permutations(Addr)

Keys4 == 1..4

\* Below every true height, and one below and at the largest int, so that one
\* turn of a climb reaches the largest int and the next one overflows.
Garbages == {-2, 3, 4}
NoGarbage == {0}
=============================================================================
