----------------------------- MODULE OrderedMap -----------------------------
(***************************************************************************)
(* What the search trees of DataAndAlgorithm promise their caller: a       *)
(* finite map from keys to values with find, insert and DeleteNode, served *)
(* one call at a time.  The map starts with the pair given to the          *)
(* constructor.  insert keeps the value of a key that is already there.    *)
(*                                                                         *)
(* A call is invoked, then answered in one step; everything a tree does    *)
(* between the two (walking, relinking, freeing) is invisible here.        *)
(***************************************************************************)
EXTENDS Functions

CONSTANTS Key,          \* the keys a caller may use
          Value,        \* the values a caller may store
          Absent,       \* the answer "no such key" (nullptr)
          Unspecified   \* the answer of a DeleteNode that deleted something

VARIABLES map,          \* the keys present, each with its value
          call,         \* the call being served: "idle", "find", "insert", "delete"
          key, value,   \* its arguments
          answer        \* the answer of the last call, reset by the next one

vars == <<map, call, key, value, answer>>

Entry(k, v) == [key |-> k, value |-> v]

-----------------------------------------------------------------------------

Init ==
    /\ call = "idle"
    /\ key \in Key
    /\ value \in Value
    /\ map = [k \in {key} |-> value]
    /\ answer = Absent

Invoke ==
    /\ call = "idle"
    /\ call' \in {"find", "insert", "delete"}
    /\ key' \in Key
    /\ value' \in Value
    /\ answer' = Absent
    /\ UNCHANGED map

Answer(a) ==
    /\ call' = "idle"
    /\ answer' = a
    /\ UNCHANGED <<key, value>>

Find ==
    /\ call = "find"
    /\ Answer(IF key \in DOMAIN map THEN Entry(key, map[key]) ELSE Absent)
    /\ UNCHANGED map

Insert ==
    /\ call = "insert"
    /\ map' = [k \in DOMAIN map \cup {key} |-> IF k \in DOMAIN map THEN map[k] ELSE value]
    /\ Answer(Entry(key, map'[key]))

Delete ==
    /\ call = "delete"
    /\ map' = Restrict(map, DOMAIN map \ {key})
    /\ Answer(IF key \in DOMAIN map THEN Unspecified ELSE Absent)

Next == Invoke \/ Find \/ Insert \/ Delete

Spec == Init /\ [][Next]_vars

=============================================================================
