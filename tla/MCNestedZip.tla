---------------------------- MODULE MCNestedZip ----------------------------
(* Small instances of NestedZip for TLC. *)
EXTENDS NestedZip

\* A plain name, names the program writes to itself, and a file elsewhere whose
\* base name is one of them.
SomeInputs ==
    [dir : {"here"}, name : {Doc, Tmp(1), Tmp(2), Zip(2), Zip(3)}]
        \cup [dir : {"elsewhere"}, name : {Doc, Tmp(1)}]
=============================================================================
