------------------------- MODULE MCBinarySearchTree -------------------------
(* Small instances of BinarySearchTree for TLC. *)
EXTENDS BinarySearchTree, FiniteSets, TLC

AddrSymmetry == Permutations(Addr)

Keys3 == 1..3
Keys4 == 1..4
Keys5 == 1..5

\* FairContractSpec with the constructor's node at one given address.  The model
\* treats all addresses alike, so a behaviour that starts at another one is this
\* one with two addresses exchanged; unlike SYMMETRY, fixing the root is also sound
\* for liveness properties.
FirstAddr == CHOOSE a \in Addr : TRUE

FixedRootInit == RootNode = FirstAddr /\ Init

FixedRootSpec == FixedRootInit /\ [][ContractNext]_vars /\ WF_vars(Run)

\* Bound: after a tree was damaged, calls are followed only while few nodes are left.
FewDamaged == WellFormed \/ Cardinality(Live) <= 4
=============================================================================
