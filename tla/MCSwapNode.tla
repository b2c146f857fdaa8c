----------------------------- MODULE MCSwapNode -----------------------------
(* Small instances of SwapNode for TLC. *)
EXTENDS SwapNode, TLC

AddrSymmetry == Permutations(Addr)

Keys5 == 1..5
=============================================================================
