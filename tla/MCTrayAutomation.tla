-------------------------- MODULE MCTrayAutomation --------------------------
(* Small instances of MenuChoice for TLC. *)
EXTENDS MenuChoice

CONSTANTS p1, p2

\* Menus of 3 items: one of even height, one with a remainder, as a border makes it.
Heights == [p \in Programs |-> CASE p = p1 -> 66 [] p = p2 -> 68 [] OTHER -> 20]

\* A name that occurs twice, and a separator.
Menus == [p \in Programs |->
             IF p = p1 THEN <<"open", "exit", "open">> ELSE <<"exit", "-", "open">>]
=============================================================================
