---------------------------- MODULE MCRemoveCtrl ----------------------------
(* Small instances of RemoveCtrl for TLC. *)
EXTENDS RemoveCtrl

\* Zero, a newline, the two sides of 0x20, the two sides of the sign bit.
SomeBytes == {0, 10, 31, 32, 127, 128}
=============================================================================
