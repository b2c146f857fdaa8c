----------------------------- MODULE RemoveCtrl -----------------------------
(***************************************************************************)
(* The remove_ctrl functions of OptimizedC++/4_String_Optimization.cpp:    *)
(* ten versions of one function, each meant to be a faster way to the same *)
(* result.  They are four algorithms: appending character by character     *)
(* (the versions differ in what they copy and allocate), the same on C     *)
(* strings, appending whole blocks, and erasing in place.                  *)
(*                                                                         *)
(* A character is its byte.  The code compares a (signed) char with 0x20,  *)
(* so that a byte above 127 counts as negative.  Indices start at 1.       *)
(*                                                                         *)
(* The first four versions index the string with an int; the others with   *)
(* an iterator or a size_t, which reach the end of every string.           *)
(*                                                                         *)
(* Two versions write to something of the caller's, a string or an array.  *)
(* It holds anything before, and may be the very one that is read.         *)
(***************************************************************************)
EXTENDS Integers, Sequences, SequencesExt

CONSTANTS Byte,        \* the bytes that strings are made of
          MaxLength,   \* bound: the length of the longest string
          MaxInt       \* the largest int, 2147483647

ASSUME ByteAssumption == Byte \subseteq 0..255 /\ MaxLength \in Nat
ASSUME IntAssumption == MaxInt \in Nat

VARIABLES pc,          \* "append", "clear", "cstrings", "block", "scan", "erase", or "done"
          version,     \* history: the function called, by the first of these, or "index",
          source,      \*   the string that was passed,
          size,        \*   how many of its characters to read (all, but for C strings),
          shared,      \*   and whether it is also where the result goes
          s,           \* the parameter: the string passed, or the callee's copy of it
          i, b,        \* loop variables
          result,      \* the string to return
          dest, destp  \* for C strings: the caller's array, and the place to write

call == <<version, source, size, shared>>
vars == <<pc, call, s, i, b, result, dest, destp>>

\* 8-bit two's complement
Char(byte) == IF byte > 127 THEN byte - 256 ELSE byte

\* Mutant of IsKept: bytes are compared unsigned.
IsKeptUnsigned(byte) == byte >= 32

IsKept(byte) == Char(byte) >= 32

-----------------------------------------------------------------------------

\* A call of one of the functions.  The caller's array has room for the string and
\* a terminator; the one the string is read from has just that.
Init ==
    /\ version \in {"index", "append", "clear", "cstrings", "block", "erase"}
    /\ pc = IF version = "index" THEN "append" ELSE version
    /\ source \in BoundedSeq(Byte, MaxLength)
    /\ size \in IF version = "cstrings" THEN 0..Len(source) ELSE {Len(source)}
    /\ shared \in IF version \in {"cstrings", "clear"} THEN BOOLEAN ELSE {FALSE}
    /\ s = source
    /\ i = 1 /\ b = 1
    /\ \E filler \in Byte :
          /\ result = IF version # "clear" THEN <<>> ELSE IF shared THEN source ELSE <<filler>>
          /\ dest = IF shared THEN Append(source, 0) ELSE [k \in 1..(Len(source) + 1) |-> filler]
    /\ destp = 1

AtEnd == i > Len(s)

Done(r) == pc' = "done" /\ result' = r

\* remove_ctrl_ref_result_it: the result is cleared first, the string with it if
\* they are the same.
ClearResult ==
    /\ pc = "clear"
    /\ pc' = "append"
    /\ result' = <<>>
    /\ s' = IF shared THEN <<>> ELSE s
    /\ UNCHANGED <<call, i, b, dest, destp>>

\* The int (which starts at 0) was just counted up from MaxInt.  That is undefined: it
\* is now negative, and as an unsigned number not below the length, which ends the loop;
\* or the compiler keeps it in a wider register, and it goes on.
Overflown == version = "index" /\ i = MaxInt + 2

\* "index": remove_ctrl and its versions _mutating, _reserve and _ref_args; "append":
\* _ref_args_it; "clear": _ref_result_it.  One turn of the loop, or the return.  (A
\* string that is shared is empty by now, and nothing is appended to it.)
AppendChar ==
    /\ pc = "append"
    /\ \/ /\ AtEnd \/ Overflown
          /\ Done(result)
          /\ UNCHANGED i
       \/ /\ ~AtEnd
          /\ i' = i + 1
          /\ result' = IF IsKept(s[i]) THEN Append(result, s[i]) ELSE result
          /\ UNCHANGED pc
    /\ UNCHANGED <<call, s, b, dest, destp>>

\* What a C string is read as: the array up to its first zero byte.
CString(array) ==
    SelectInSeq(array, LAMBDA byte : byte = 0)   \* 0 if there is none

\* The character read at i, which may have been written before.
SrcChar == IF shared THEN dest[i] ELSE s[i]

\* remove_ctrl_cstrings: one turn of the loop, or the terminator.
CopyChar ==
    /\ pc = "cstrings"
    /\ IF i > size
       THEN /\ dest' = [dest EXCEPT ![destp] = 0]
            /\ Done(SubSeq(dest', 1, CString(dest') - 1))
            /\ UNCHANGED <<i, destp>>
       ELSE /\ i' = i + 1
            /\ IF IsKept(SrcChar)
               THEN dest' = [dest EXCEPT ![destp] = SrcChar] /\ destp' = destp + 1
               ELSE UNCHANGED <<dest, destp>>
            /\ UNCHANGED <<pc, result>>
    /\ UNCHANGED <<call, s, b>>

-----------------------------------------------------------------------------
(* remove_ctrl_block and remove_ctrl_block_append *)

\* The outer loop: start scanning at b, or return.
StartBlock ==
    /\ pc = "block"
    /\ IF b <= Len(s) THEN pc' = "scan" /\ i' = b /\ UNCHANGED result
                      ELSE Done(result) /\ UNCHANGED i
    /\ UNCHANGED <<call, s, b, dest, destp>>

\* The inner loop, up to the next character to drop.
Scan ==
    /\ pc = "scan"
    /\ ~AtEnd
    /\ IsKept(s[i])
    /\ i' = i + 1
    /\ UNCHANGED <<pc, call, s, b, result, dest, destp>>

\* Mutant of AppendBlock: goes on at the character that ended the block.
AppendBlockAgain ==
    /\ pc = "scan"
    /\ ~AtEnd => ~IsKept(s[i])
    /\ result' = result \o SubSeq(s, b, i - 1)
    /\ b' = i
    /\ pc' = "block"
    /\ UNCHANGED <<call, s, i, dest, destp>>

\* The block that ends before i is appended, and b set behind it.
AppendBlock ==
    /\ pc = "scan"
    /\ ~AtEnd => ~IsKept(s[i])
    /\ result' = result \o SubSeq(s, b, i - 1)
    /\ b' = i + 1
    /\ pc' = "block"
    /\ UNCHANGED <<call, s, i, dest, destp>>

-----------------------------------------------------------------------------
(* remove_ctrl_erase *)

\* Mutant of EraseChar: the index moves on after an erasure, too.
EraseCharAndSkip ==
    /\ pc = "erase"
    /\ IF AtEnd
       THEN Done(s) /\ UNCHANGED <<s, i>>
       ELSE /\ i' = i + 1
            /\ s' = IF IsKept(s[i]) THEN s ELSE RemoveAt(s, i)
            /\ UNCHANGED <<pc, result>>
    /\ UNCHANGED <<call, b, dest, destp>>

\* One turn of the loop, which moves on only when nothing was erased.
EraseChar ==
    /\ pc = "erase"
    /\ IF AtEnd
       THEN Done(s) /\ UNCHANGED <<s, i>>
       ELSE /\ IF IsKept(s[i]) THEN i' = i + 1 /\ UNCHANGED s
                               ELSE s' = RemoveAt(s, i) /\ UNCHANGED i
            /\ UNCHANGED <<pc, result>>
    /\ UNCHANGED <<call, b, dest, destp>>

-----------------------------------------------------------------------------

Returned == pc = "done" /\ UNCHANGED vars

Run == ClearResult \/ AppendChar \/ CopyChar \/ StartBlock \/ Scan \/ AppendBlock \/ EraseChar

Next == Run \/ Returned

Spec == Init /\ [][Next]_vars

\* A function that was called goes on executing.
FairSpec == Spec /\ WF_vars(Run)

-----------------------------------------------------------------------------
(* Properties *)

\* The reference: the string without the bytes below 0x20 and above 0x7f.
Filtered(string) ==
    LET kept[n \in 0..Len(string)] ==
            IF n = 0 THEN <<>>
            ELSE IF string[n] \in 32..127 THEN Append(kept[n - 1], string[n])
            ELSE kept[n - 1]
    IN  kept[Len(string)]

\* All versions return the same: the kept characters of what they were told to read,
\* in their order, whatever was in the caller's string or array, and in place too;
\* but for the version that clears the result first, which loses a shared string, and
\* those that index with an int, which may lose what is behind the last place it reaches.
VersionsAgree ==
    pc = "done" =>
        \/ result = IF version = "clear" /\ shared THEN <<>>
                    ELSE Filtered(SubSeq(source, 1, size))
        \/ /\ version = "index" /\ Len(source) > MaxInt + 1
           /\ result = Filtered(SubSeq(source, 1, MaxInt + 1))

\* The loop invariants: what has been read is in the result, in the caller's array
\* (of which nothing unread has been overwritten) or, for the version that erases in
\* place, in the string before the index.
ReadIsFiltered ==
    LET Read == Filtered(SubSeq(source, 1, i - 1))
    IN  /\ pc = "append"   => result = Read
        /\ pc = "cstrings" => /\ destp <= i
                              /\ SubSeq(dest, 1, destp - 1) = Read
                              /\ shared => \A k \in i..Len(source) : dest[k] = source[k]
        /\ pc = "block"    => result = Read
        /\ pc = "scan"     => result \o SubSeq(s, b, i - 1) = Read
        /\ pc = "erase"    => /\ i <= Len(s) + 1
                              /\ Filtered(source)
                                    = SubSeq(s, 1, i - 1) \o Filtered(SubSeq(s, i, Len(s)))

\* Every version returns, also the one whose string and index move towards each other.
EveryVersionReturns == <>(pc = "done")

=============================================================================
