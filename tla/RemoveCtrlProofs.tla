-------------------------- MODULE RemoveCtrlProofs --------------------------
(***************************************************************************)
(* Theorems about RemoveCtrl, for strings of every length: all versions    *)
(* return the kept characters of the string.                               *)
(***************************************************************************)
EXTENDS RemoveCtrl, SequenceTheorems, WellFoundedInduction, TLAPS

-----------------------------------------------------------------------------
(* Induction *)

\* A set of numbers has a smallest one: a claim about numbers that fails for one of
\* them fails for a first one.
LEMMA SmallestOf == \A T \in SUBSET Nat : T # {} => \E m \in T : \A n \in T : m <= n
<1> SUFFICES ASSUME NEW T \in SUBSET Nat, T # {} PROVE \E m \in T : \A n \in T : m <= n
  OBVIOUS
<1> DEFINE R == OpToRel(<, Nat)
<1>1. \A m, n \in Nat : m < n => <<m, n>> \in R
  BY DEF OpToRel
<1>2. IsWellFoundedOn(R, Nat)
  BY NatLessThanWellFounded
<1> HIDE DEF R
<1>3. PICK m \in T : \A n \in T : ~(<<n, m>> \in R)
  BY WFMin, <1>2
<1>4. m \in Nat /\ \A n \in T : n \in Nat /\ ~(n < m)
  BY <1>1, <1>3
<1> QED
  BY <1>4

-----------------------------------------------------------------------------
(* Filtered *)

Char8 == 0..255

Text == Seq(Char8)

\* What is kept of the first n characters of a string, if f[n - 1] is what is kept of one less.
Keep(f, string, n) ==
    IF n = 0 THEN <<>>
    ELSE IF string[n] \in 32..127 THEN Append(f[n - 1], string[n])
    ELSE f[n - 1]

\* The same for every n up to last.
KeptUpTo(f, string, last) == f = [n \in 0..last |-> Keep(f, string, n)]

LEMMA KeptAt ==
    ASSUME NEW f, NEW string, NEW last \in Nat, KeptUpTo(f, string, last), NEW n \in 0..last
    PROVE  f[n] = Keep(f, string, n)
<1> DEFINE F(h) == [k \in 0..last |-> Keep(h, string, k)]
<1>1. f = F(f)
  BY DEF KeptUpTo
<1>2. F(f)[n] = Keep(f, string, n)
  OBVIOUS
<1> HIDE DEF F
<1> QED
  BY <1>1, <1>2

LEMMA KeptExists ==
    ASSUME NEW string \in Text
    PROVE  \A last \in 0..Len(string) :
               \E f : KeptUpTo(f, string, last) /\ \A n \in 0..last : f[n] \in Text
<1>0. Len(string) \in Nat /\ \A n \in 1..Len(string) : string[n] \in Char8
  <2>1. Len(string) \in Nat
    BY DEF Text
  <2>2. ASSUME NEW n \in 1..Len(string) PROVE string[n] \in Char8
    BY <2>1 DEF Text
  <2> QED
    BY <2>1, <2>2
<1> DEFINE Good(last) == \E f : KeptUpTo(f, string, last) /\ \A n \in 0..last : f[n] \in Text
           T == {last \in Nat : last <= Len(string) /\ ~Good(last)}
<1>1. Good(0)
  <2> DEFINE g == [n \in 0..0 |-> <<>>]
  <2>1. KeptUpTo(g, string, 0)
    BY DEF KeptUpTo, Keep
  <2>2. \A n \in 0..0 : g[n] \in Text
    BY DEF Text
  <2> QED
    BY <2>1, <2>2
<1>2. ASSUME NEW last \in Nat, last < Len(string), Good(last) PROVE Good(last + 1)
  <2>1. PICK f : KeptUpTo(f, string, last) /\ \A n \in 0..last : f[n] \in Text
    BY <1>2
  <2> DEFINE c == string[last + 1]
             new == IF c \in 32..127 THEN Append(f[last], c) ELSE f[last]
             g == [n \in 0..(last + 1) |-> IF n = last + 1 THEN new ELSE f[n]]
  <2>2. KeptUpTo(g, string, last + 1)
    <3> SUFFICES ASSUME NEW n \in 0..(last + 1) PROVE g[n] = Keep(g, string, n)
      BY DEF KeptUpTo
    <3>1. CASE n = last + 1
      BY <3>1 DEF Keep
    <3>2. CASE n # last + 1
      <4>1. n \in 0..last /\ g[n] = f[n] /\ (n # 0 => g[n - 1] = f[n - 1])
        BY <3>2
      <4>2. f[n] = Keep(f, string, n)
        BY <2>1, <4>1, KeptAt
      <4> HIDE DEF g, new, c
      <4>3. Keep(f, string, n) = Keep(g, string, n)
        BY <4>1 DEF Keep
      <4> QED
        BY <4>1, <4>2, <4>3
    <3> QED
      BY <3>1, <3>2
  <2>3. c \in Char8
    <3>1. last + 1 \in 1..Len(string)
      BY <1>2, <1>0
    <3> QED
      BY <1>0, <3>1
  <2>4. new \in Text
    BY <2>1, <2>3 DEF Text
  <2>5. \A n \in 0..(last + 1) : g[n] \in Text
    BY <2>1, <2>4
  <2> QED
    BY <2>2, <2>5
<1> HIDE DEF Good
<1>3. T = {}
  <2> SUFFICES ASSUME T # {} PROVE FALSE
    OBVIOUS
  <2>1. PICK m \in T : \A n \in T : m <= n
    BY SmallestOf
  <2>2. m # 0 /\ m - 1 \in Nat /\ m - 1 \notin T
    BY <1>1, <2>1
  <2> QED
    BY <1>2, <2>1, <2>2
<1>4. \A last \in 0..Len(string) : Good(last)
  BY <1>3
<1> QED
  BY <1>4 DEF Good

\* Of a longer string with the same beginning, the same is kept up to there.
LEMMA KeptUnique ==
    ASSUME NEW string, NEW longer, NEW last \in Nat, NEW end \in Nat, last <= end,
           \A n \in 1..last : string[n] = longer[n],
           NEW f, KeptUpTo(f, string, last), NEW g, KeptUpTo(g, longer, end)
    PROVE  \A n \in 0..last : f[n] = g[n]
<1> DEFINE T == {n \in Nat : n <= last /\ f[n] # g[n]}
<1> SUFFICES ASSUME T # {} PROVE FALSE
  OBVIOUS
<1>1. PICK m \in T : \A n \in T : m <= n
  BY SmallestOf
<1>2. m \in 0..last /\ m \in 0..end /\ f[m] # g[m]
  BY <1>1
<1> HIDE DEF T
<1>3. f[m] = Keep(f, string, m)
  BY <1>2, KeptAt
<1>4. g[m] = Keep(g, longer, m)
  BY <1>2, KeptAt
<1>5. m # 0
  BY <1>2, <1>3, <1>4 DEF Keep
<1>6. f[m - 1] = g[m - 1] /\ string[m] = longer[m]
  BY <1>1, <1>2, <1>5 DEF T
<1> QED
  BY <1>2, <1>3, <1>4, <1>5, <1>6 DEF Keep

\* Filtered is the last of what is kept.
LEMMA FilteredIsKept ==
    ASSUME NEW string \in Text
    PROVE  \E f : /\ KeptUpTo(f, string, Len(string))
                  /\ f[Len(string)] = Filtered(string)
                  /\ \A n \in 0..Len(string) : f[n] \in Text
<1> DEFINE f == CHOOSE f : KeptUpTo(f, string, Len(string))
<1>1. PICK g : KeptUpTo(g, string, Len(string)) /\ \A n \in 0..Len(string) : g[n] \in Text
  BY KeptExists DEF Text
<1>2. KeptUpTo(f, string, Len(string))
  BY <1>1
<1>3. Filtered(string) = f[Len(string)]
  BY DEF Filtered, KeptUpTo, Keep
<1> HIDE DEF f
<1>4. Len(string) \in Nat
  BY DEF Text
<1>5. \A n \in 0..Len(string) : f[n] = g[n]
  BY <1>1, <1>2, <1>4, KeptUnique, SMTT(30)
<1> QED
  BY <1>1, <1>2, <1>3, <1>5

LEMMA FilteredEmpty == Filtered(<<>>) = <<>>
<1>1. <<>> \in Text /\ Len(<<>>) = 0
  BY DEF Text
<1> QED
  BY <1>1, FilteredIsKept DEF KeptUpTo

LEMMA FilteredAppend ==
    ASSUME NEW string \in Text, NEW c \in Char8
    PROVE  /\ Filtered(string) \in Text
           /\ Filtered(Append(string, c)) =
                 IF c \in 32..127 THEN Append(Filtered(string), c) ELSE Filtered(string)
<1> DEFINE N == Len(string)
           more == Append(string, c)
<1>1. /\ N \in Nat
      /\ more \in Text /\ Len(more) = N + 1 /\ more[N + 1] = c
      /\ \A n \in 1..N : string[n] = more[n]
  BY DEF Text
<1>2. PICK f : /\ KeptUpTo(f, string, N) /\ f[N] = Filtered(string)
               /\ \A n \in 0..N : f[n] \in Text
  BY FilteredIsKept
<1>3. PICK g : KeptUpTo(g, more, N + 1) /\ g[N + 1] = Filtered(more)
  BY <1>1, FilteredIsKept
<1> HIDE DEF N, more
<1>4. f[N] = g[N]
  <2>1. \A n \in 0..N : f[n] = g[n]
    <3>1. N \in Nat /\ N + 1 \in Nat /\ N <= N + 1
      BY <1>1
    <3>2. KeptUpTo(f, string, N) /\ KeptUpTo(g, more, N + 1)
      BY <1>2, <1>3
    <3>3. \A n \in 1..N : string[n] = more[n]
      BY <1>1
    <3> QED
      BY <3>1, <3>2, <3>3, KeptUnique
  <2> QED
    BY <1>1, <2>1
<1>5. g[N + 1] = IF more[N + 1] \in 32..127 THEN Append(g[N], more[N + 1]) ELSE g[N]
  <2>1. N + 1 \in Nat /\ N + 1 \in 0..(N + 1) /\ N + 1 # 0
    BY <1>1
  <2>2. g[N + 1] = IF more[N + 1] \in 32..127 THEN Append(g[(N + 1) - 1], more[N + 1])
                   ELSE g[(N + 1) - 1]
    BY <1>3, <2>1, KeptAt, ZenonT(60) DEF Keep
  <2>3. (N + 1) - 1 = N
    BY <1>1
  <2> QED
    BY <2>2, <2>3, Zenon
<1> QED
  BY <1>1, <1>2, <1>3, <1>4, <1>5 DEF more

\* What is kept of a string that has been read one character further.
LEMMA FilteredNext ==
    ASSUME NEW string \in Text, NEW n \in 1..Len(string)
    PROVE  /\ string[n] \in Char8
           /\ Filtered(SubSeq(string, 1, n - 1)) \in Text
           /\ Filtered(SubSeq(string, 1, n)) =
                 IF string[n] \in 32..127
                 THEN Append(Filtered(SubSeq(string, 1, n - 1)), string[n])
                 ELSE Filtered(SubSeq(string, 1, n - 1))
<1>1. string[n] \in Char8
  BY ElementOfSeq DEF Text
<1>2. SubSeq(string, 1, n - 1) \in Text
  BY DEF Text
<1>3. SubSeq(string, 1, n) = Append(SubSeq(string, 1, n - 1), string[n])
  BY DEF Text
<1> QED
  BY <1>1, <1>2, <1>3, FilteredAppend, ZenonT(60)

\* Two strings can be filtered apart.
LEMMA FilteredConcat ==
    ASSUME NEW u \in Text, NEW t \in Text
    PROVE  /\ Filtered(u) \in Text /\ Filtered(t) \in Text
           /\ Filtered(u \o t) = Filtered(u) \o Filtered(t)
<1> DEFINE Upto(n) == SubSeq(t, 1, n)
           Good(n) == Filtered(u \o Upto(n)) = Filtered(u) \o Filtered(Upto(n))
           T == {n \in Nat : n <= Len(t) /\ ~Good(n)}
<1>1. Len(t) \in Nat /\ u \o <<>> = u /\ Upto(0) = <<>> /\ Upto(Len(t)) = t
  BY DEF Text
<1>2. ASSUME NEW v \in Text PROVE Filtered(v) \in Text
  BY <1>2, FilteredAppend DEF Char8
<1>3. Good(0)
  <2>1. Filtered(u) \o <<>> = Filtered(u)
    BY <1>2 DEF Text
  <2> QED
    BY <1>1, <2>1, FilteredEmpty
<1>4. ASSUME NEW n \in 1..Len(t), Good(n - 1) PROVE Good(n)
  <2> DEFINE c == t[n]
             v == Upto(n - 1)
  <2>1. c \in Char8 /\ v \in Text /\ u \o v \in Text
    <3>1. c \in Char8
      BY ElementOfSeq DEF Text
    <3> QED
      BY <3>1 DEF Text
  <2>2. Upto(n) = Append(v, c)
    BY DEF Text
  <2>3. u \o Append(v, c) = Append(u \o v, c)
    BY <2>1 DEF Text
  <2>4. Filtered(v) \in Text /\ Filtered(u) \in Text
    BY <1>2, <2>1
  <2>5. Filtered(u) \o Append(Filtered(v), c) = Append(Filtered(u) \o Filtered(v), c)
    BY <2>1, <2>4 DEF Text
  <2>6. Filtered(u \o v) = Filtered(u) \o Filtered(v)
    BY <1>4
  <2> HIDE DEF c, v, Upto
  <2>7. Filtered(Append(v, c)) = IF c \in 32..127 THEN Append(Filtered(v), c) ELSE Filtered(v)
    BY <2>1, FilteredAppend
  <2>8. Filtered(Append(u \o v, c)) =
           IF c \in 32..127 THEN Append(Filtered(u \o v), c) ELSE Filtered(u \o v)
    BY <2>1, FilteredAppend
  <2>9. Filtered(u \o Upto(n)) = Filtered(u) \o Filtered(Upto(n))
    BY <2>2, <2>3, <2>5, <2>6, <2>7, <2>8
  <2> QED
    BY <2>9
<1> HIDE DEF Good, Upto
<1>5. T = {}
  <2> SUFFICES ASSUME T # {} PROVE FALSE
    OBVIOUS
  <2>1. PICK m \in T : \A n \in T : m <= n
    BY SmallestOf
  <2>2. m # 0 /\ m - 1 \in Nat /\ m - 1 \notin T
    BY <1>3, <2>1
  <2> QED
    BY <1>1, <1>4, <2>1, <2>2
<1>6. Good(Len(t))
  BY <1>1, <1>5
<1> QED
  BY <1>1, <1>2, <1>6 DEF Good

-----------------------------------------------------------------------------
(* The inductive invariant *)

\* What is kept of the first n characters of the string that was passed.
Read(n) == Filtered(SubSeq(source, 1, n))

\* The call, which does not change.
CallInv ==
    /\ source \in Text
    /\ size \in 0..Len(source)
    /\ version # "cstrings" => size = Len(source)
    /\ shared => version \in {"clear", "cstrings"}

\* Before the result is cleared nothing is read.
ClearInv == pc = "clear" => version = "clear" /\ s = source /\ i = 1

\* The string that is read is the one that was passed, but for one that was cleared with
\* the result.
AppendInv ==
    pc = "append" =>
        /\ version \in {"index", "append", "clear"}
        /\ i \in 1..(Len(s) + 1)
        /\ result = Read(i - 1)
        /\ IF version = "clear" /\ shared THEN s = <<>> ELSE s = source

\* The place to write is never behind the place to read, and what has been written are
\* kept characters, none of which is a terminator.
CopyInv ==
    pc = "cstrings" =>
        /\ version = "cstrings"
        /\ s = source
        /\ i \in 1..(size + 1) /\ destp \in 1..i
        /\ dest \in Text /\ Len(dest) = Len(source) + 1
        /\ SubSeq(dest, 1, destp - 1) = Read(i - 1)
        /\ \A k \in 1..(destp - 1) : dest[k] \in 32..127
        /\ shared => \A k \in i..Len(source) : dest[k] = source[k]

\* Between two blocks, i is at the character that was dropped, or at the end of the string.
BlockInv ==
    pc \in {"block", "scan"} =>
        /\ version = "block"
        /\ s = source
        /\ i \in 1..(Len(s) + 1)
        /\ pc = "block" => /\ result = Read(i - 1)
                           /\ \/ i = 1 /\ b = 1
                              \/ b = i + 1 /\ (i <= Len(s) => s[i] \notin 32..127)
        /\ pc = "scan" => /\ b \in 1..i
                          /\ result \in Text
                          /\ result \o SubSeq(s, b, i - 1) = Read(i - 1)

\* What is erased has been dropped.
EraseInv ==
    pc = "erase" =>
        /\ version = "erase"
        /\ s \in Text
        /\ i \in 1..(Len(s) + 1)
        /\ Filtered(source) = SubSeq(s, 1, i - 1) \o Filtered(SubSeq(s, i, Len(s)))

IInv ==
    /\ pc \in {"append", "clear", "cstrings", "block", "scan", "erase", "done"}
    /\ CallInv /\ ClearInv /\ AppendInv /\ CopyInv /\ BlockInv /\ EraseInv /\ VersionsAgree

\* The comparison of signed characters keeps the bytes from 32 to 127.
LEMMA IsKeptKeeps == \A byte \in Char8 : IsKept(byte) <=> byte \in 32..127
BY DEF Char8, IsKept, Char

LEMMA ReadNothing == Read(0) = <<>>
<1>1. SubSeq(source, 1, 0) = <<>>
  OBVIOUS
<1> QED
  BY <1>1, FilteredEmpty DEF Read

LEMMA ReadAll == source \in Text => Read(Len(source)) = Filtered(source)
<1>1. source \in Text => SubSeq(source, 1, Len(source)) = source
  BY DEF Text
<1> QED
  BY <1>1 DEF Read

LEMMA ReadNext ==
    ASSUME source \in Text, NEW n \in 1..Len(source)
    PROVE  /\ source[n] \in Char8
           /\ Read(n - 1) \in Text
           /\ Read(n) = IF IsKept(source[n]) THEN Append(Read(n - 1), source[n]) ELSE Read(n - 1)
BY FilteredNext, IsKeptKeeps DEF Read

LEMMA InitIInv == Init => IInv
<1> SUFFICES ASSUME Init PROVE IInv
  OBVIOUS
<1>1. source \in Text /\ Len(source) \in Nat
  <2>1. source \in BoundedSeq(Byte, MaxLength)
    BY DEF Init
  <2>2. source \in Seq(Byte)
    BY <2>1, ByteAssumption DEF BoundedSeq, SeqOf
  <2>3. Byte \subseteq Char8
    BY ByteAssumption DEF Char8
  <2>4. source \in Text
    BY <2>2, <2>3, SeqMonotonic DEF Text
  <2> QED
    BY <2>4 DEF Text
<1>2. /\ version \in {"index", "append", "clear", "cstrings", "block", "erase"}
      /\ pc = (IF version = "index" THEN "append" ELSE version)
      /\ s = source /\ i = 1 /\ b = 1 /\ destp = 1
      /\ size \in IF version = "cstrings" THEN 0..Len(source) ELSE {Len(source)}
      /\ shared \in IF version \in {"cstrings", "clear"} THEN BOOLEAN ELSE {FALSE}
  BY DEF Init
<1>3. version # "clear" => result = <<>>
  BY DEF Init
<1>4. dest \in Text /\ Len(dest) = Len(source) + 1
         /\ (shared => \A k \in 1..Len(source) : dest[k] = source[k])
  <2>1. PICK filler \in Byte :
           dest = IF shared THEN Append(source, 0) ELSE [k \in 1..(Len(source) + 1) |-> filler]
    BY DEF Init
  <2>2. filler \in Char8 /\ 0 \in Char8
    BY ByteAssumption DEF Char8
  <2>3. CASE shared
    BY <1>1, <2>1, <2>2, <2>3 DEF Text
  <2>4. CASE ~shared
    BY <1>1, <2>1, <2>2, <2>4 DEF Text
  <2> QED
    BY <2>3, <2>4
<1>5. CallInv /\ ClearInv /\ AppendInv
  <2>1. CallInv
    <3>1. size \in 0..Len(source) /\ (version # "cstrings" => size = Len(source))
      BY <1>1, <1>2
    <3>2. shared => version \in {"clear", "cstrings"}
      BY <1>2
    <3> QED
      BY <1>1, <3>1, <3>2 DEF CallInv
  <2>2. ClearInv
    BY <1>2 DEF ClearInv
  <2>3. AppendInv
    BY <1>1, <1>2, <1>3, ReadNothing DEF AppendInv
  <2> QED
    BY <2>1, <2>2, <2>3
<1>7. CopyInv
  <2>1. SubSeq(dest, 1, 0) = <<>>
    OBVIOUS
  <2>2. pc = "cstrings" => size \in Nat
    BY <1>1, <1>2
  <2> SUFFICES ASSUME pc = "cstrings"
               PROVE  /\ i \in 1..(size + 1) /\ destp \in 1..i
                      /\ SubSeq(dest, 1, destp - 1) = Read(i - 1)
                      /\ \A k \in 1..(destp - 1) : dest[k] \in 32..127
                      /\ shared => \A k \in i..Len(source) : dest[k] = source[k]
    BY <1>2, <1>4 DEF CopyInv
  <2>3. i = 1 /\ destp = 1 /\ i - 1 = 0 /\ destp - 1 = 0
    BY <1>2
  <2>4. \A k \in 1..(destp - 1) : dest[k] \in 32..127
    BY <2>3
  <2>5. shared => \A k \in i..Len(source) : dest[k] = source[k]
    BY <1>4, <2>3
  <2>6. i \in 1..(size + 1) /\ destp \in 1..i
    BY <2>2, <2>3
  <2> QED
    BY <2>1, <2>3, <2>4, <2>5, <2>6, ReadNothing
<1>8. BlockInv
  BY <1>1, <1>2, <1>3, ReadNothing DEF BlockInv
<1>6. EraseInv
  <2>1. SubSeq(source, 1, 0) = <<>> /\ SubSeq(source, 1, Len(source)) = source
    BY <1>1 DEF Text
  <2>2. Filtered(source) = <<>> \o Filtered(source)
    BY <1>1, FilteredConcat DEF Text
  <2>3. i = 1 /\ i - 1 = 0 /\ s = source /\ 1 \in 1..(Len(source) + 1)
    BY <1>1, <1>2
  <2> QED
    BY <1>1, <1>2, <2>1, <2>2, <2>3 DEF EraseInv
<1> QED
  BY <1>2, <1>5, <1>6, <1>7, <1>8 DEF IInv, VersionsAgree

-----------------------------------------------------------------------------
(* Every step keeps it *)

LEMMA ClearResultIInv == IInv /\ ClearResult => IInv'
<1> SUFFICES ASSUME IInv, ClearResult PROVE IInv'
  OBVIOUS
<1>1. version = "clear" /\ s = source /\ i = 1
  BY DEF IInv, ClearInv, ClearResult
<1>2. UNCHANGED call /\ pc' = "append" /\ result' = <<>> /\ i' = i
         /\ s' = (IF shared THEN <<>> ELSE s)
  BY DEF ClearResult
<1>3. CallInv'
  BY <1>2 DEF IInv, CallInv, call
<1>4. AppendInv'
  <2>1. Len(s') \in Nat
    BY <1>1, <1>2 DEF IInv, CallInv, Text
  <2>2. i' \in 1..(Len(s') + 1) /\ i' - 1 = 0
    BY <1>1, <1>2, <2>1
  <2>3. Read(0)' = <<>>
    BY <1>2, ReadNothing DEF Read, call
  <2> QED
    BY <1>1, <1>2, <2>2, <2>3 DEF AppendInv, call
<1> QED
  BY <1>2, <1>3, <1>4 DEF IInv, ClearInv, CopyInv, BlockInv, EraseInv, VersionsAgree

LEMMA AppendCharIInv == IInv /\ AppendChar => IInv'
<1> SUFFICES ASSUME IInv, AppendChar PROVE IInv'
  OBVIOUS
<1>1. /\ version \in {"index", "append", "clear"}
      /\ i \in 1..(Len(s) + 1)
      /\ result = Read(i - 1)
      /\ IF version = "clear" /\ shared THEN s = <<>> ELSE s = source
  BY DEF IInv, AppendInv, AppendChar
<1>2. CallInv /\ UNCHANGED call /\ UNCHANGED s
  BY DEF IInv, AppendChar
<1>3. CallInv' /\ \A n : Read(n)' = Read(n)
  BY <1>2 DEF CallInv, call, Read
<1>4. Len(s) \in Nat
  BY <1>1, <1>2 DEF CallInv, Text
<1>5. CASE (AtEnd \/ Overflown) /\ Done(result)
  <2>1. pc' = "done" /\ result' = result
    BY <1>5 DEF Done
  <2>2. AtEnd => i - 1 = Len(s)
    BY <1>1, <1>4 DEF AtEnd
  <2>3. ASSUME AtEnd
        PROVE  result = IF version = "clear" /\ shared THEN <<>>
                        ELSE Filtered(SubSeq(source, 1, size))
    <3>1. CASE version = "clear" /\ shared
      BY <1>1, <2>2, <2>3, <3>1, ReadNothing
    <3>2. CASE ~(version = "clear" /\ shared)
      BY <1>1, <1>2, <2>2, <2>3, <3>2 DEF CallInv, Read
    <3> QED
      BY <3>1, <3>2
  <2>4. ASSUME Overflown, ~AtEnd
        PROVE  /\ version = "index" /\ Len(source) > MaxInt + 1
               /\ result = Filtered(SubSeq(source, 1, MaxInt + 1))
    <3>1. version = "index" /\ i = MaxInt + 2 /\ s = source /\ MaxInt \in Nat
      BY <1>1, <2>4, IntAssumption DEF Overflown
    <3>2. i - 1 = MaxInt + 1 /\ Len(source) > MaxInt + 1
      BY <1>4, <2>4, <3>1 DEF AtEnd
    <3>3. result = Read(MaxInt + 1)
      BY <1>1, <3>2
    <3> QED
      BY <3>1, <3>2, <3>3 DEF Read
  <2>5. VersionsAgree'
    BY <1>2, <1>5, <2>1, <2>3, <2>4 DEF VersionsAgree, call
  <2> QED
    BY <1>3, <2>1, <2>5 DEF IInv, ClearInv, AppendInv, CopyInv, BlockInv, EraseInv
<1>6. CASE /\ ~AtEnd /\ i' = i + 1 /\ UNCHANGED pc
           /\ result' = IF IsKept(s[i]) THEN Append(result, s[i]) ELSE result
  <2>1. /\ pc' = "append" /\ i' = i + 1
        /\ result' = IF IsKept(s[i]) THEN Append(result, s[i]) ELSE result
    BY <1>6 DEF AppendChar
  <2>2. i \in 1..Len(s)
    BY <1>1, <1>4, <1>6 DEF AtEnd
  <2>3. s = source
    BY <1>1, <2>2
  <2>4. result' = Read(i)
    BY <1>1, <1>2, <2>1, <2>2, <2>3, ReadNext DEF CallInv
  <2>5. i' \in 1..(Len(s) + 1) /\ i' - 1 = i
    BY <1>4, <2>1, <2>2
  <2>6. AppendInv'
    BY <1>1, <1>2, <1>3, <2>3, <2>4, <2>5 DEF AppendInv, call
  <2> QED
    BY <1>3, <2>1, <2>6 DEF IInv, ClearInv, CopyInv, BlockInv, EraseInv, VersionsAgree
<1> QED
  BY <1>5, <1>6 DEF AppendChar

\* A string that is terminated at n and not before reads as its first n - 1 characters.
LEMMA ReadTerminated ==
    ASSUME NEW array \in Text, NEW n \in 1..Len(array),
           \A k \in 1..(n - 1) : array[k] \in 32..127
    PROVE  CString([array EXCEPT ![n] = 0]) = n
<1> DEFINE a == [array EXCEPT ![n] = 0]
           I == {k \in 1..Len(a) : a[k] = 0}
<1>1. a \in Text /\ Len(a) = Len(array) /\ Len(array) \in Nat
  BY DEF Text, Char8
<1>2. \A k \in 1..Len(array) : a[k] = IF k = n THEN 0 ELSE array[k]
  BY DEF Text
<1>3. n \in I /\ \A k \in I : k \in Nat /\ n <= k
  <2>1. n \in I
    BY <1>1, <1>2
  <2>2. ASSUME NEW k \in I PROVE k \in Nat /\ n <= k
    <3>1. k \in 1..Len(array) /\ a[k] = 0
      BY <1>1
    <3>2. ASSUME k < n PROVE FALSE
      <4>1. array[k] = 0 /\ array[k] \in 32..127
        BY <1>1, <1>2, <3>1, <3>2
      <4> QED
        BY <4>1
    <3> QED
      BY <1>1, <3>1, <3>2
  <2> QED
    BY <2>1, <2>2
<1>4. Min(I) = n
  BY <1>3 DEF Min
<1>5. CString(a) = IF I # {} THEN Min(I) ELSE 0
  BY DEF CString, SelectInSeq
<1> QED
  BY <1>3, <1>4, <1>5

\* Writing a character behind the first n - 1.
LEMMA WriteNext ==
    ASSUME NEW array \in Text, NEW n \in 1..Len(array), NEW c \in Char8,
           NEW a, a = [array EXCEPT ![n] = c]
    PROVE  /\ a \in Text /\ Len(a) = Len(array)
           /\ \A k \in 1..Len(array) : a[k] = IF k = n THEN c ELSE array[k]
           /\ SubSeq(a, 1, n - 1) = SubSeq(array, 1, n - 1)
           /\ SubSeq(a, 1, n) = Append(SubSeq(array, 1, n - 1), c)
<1>1. /\ a \in Text /\ Len(a) = Len(array) /\ Len(array) \in Nat
      /\ \A k \in 1..Len(array) : a[k] = IF k = n THEN c ELSE array[k]
  BY DEF Text
<1>2. SubSeq(a, 1, n - 1) = SubSeq(array, 1, n - 1)
  BY <1>1 DEF Text
<1>3. SubSeq(a, 1, n) = Append(SubSeq(a, 1, n - 1), a[n])
  BY <1>1 DEF Text
<1> QED
  BY <1>1, <1>2, <1>3

LEMMA CopyCharIInv == IInv /\ CopyChar => IInv'
<1> SUFFICES ASSUME IInv, CopyChar PROVE IInv'
  OBVIOUS
<1>1. /\ version = "cstrings" /\ s = source
      /\ i \in 1..(size + 1) /\ destp \in 1..i
      /\ dest \in Text /\ Len(dest) = Len(source) + 1
      /\ SubSeq(dest, 1, destp - 1) = Read(i - 1)
      /\ \A k \in 1..(destp - 1) : dest[k] \in 32..127
      /\ shared => \A k \in i..Len(source) : dest[k] = source[k]
  BY DEF IInv, CopyInv, CopyChar
<1>2. CallInv /\ UNCHANGED call /\ UNCHANGED s
  BY DEF IInv, CopyChar
<1>3. CallInv' /\ \A n : Read(n)' = Read(n)
  BY <1>2 DEF CallInv, call, Read
<1>4. Len(source) \in Nat /\ size \in 0..Len(source) /\ destp \in 1..Len(dest)
  <2>1. Len(source) \in Nat /\ size \in 0..Len(source)
    BY <1>2 DEF CallInv, Text
  <2> QED
    BY <1>1, <2>1
<1>5. CASE i > size
  <2>1. /\ pc' = "done" /\ dest' = [dest EXCEPT ![destp] = 0]
        /\ result' = SubSeq(dest', 1, CString(dest') - 1)
    BY <1>5 DEF CopyChar, Done
  <2>2. i - 1 = size
    BY <1>1, <1>4, <1>5
  <2>3. CString(dest') = destp
    BY <1>1, <1>4, <2>1, ReadTerminated
  <2>4. SubSeq(dest', 1, destp - 1) = SubSeq(dest, 1, destp - 1)
    <3>1. 0 \in Char8
      BY DEF Char8
    <3> QED
      BY <1>1, <1>4, <2>1, <3>1, WriteNext
  <2>5. result' = Read(size)
    BY <1>1, <2>1, <2>2, <2>3, <2>4
  <2>6. VersionsAgree'
    BY <1>1, <1>2, <2>5 DEF VersionsAgree, call, Read
  <2> QED
    BY <1>3, <2>1, <2>6 DEF IInv, ClearInv, AppendInv, CopyInv, BlockInv, EraseInv
<1>6. CASE ~(i > size)
  <2>1. /\ pc' = "cstrings" /\ i' = i + 1
        /\ IF IsKept(SrcChar) THEN dest' = [dest EXCEPT ![destp] = SrcChar] /\ destp' = destp + 1
                              ELSE UNCHANGED <<dest, destp>>
    BY <1>6 DEF CopyChar
  <2>2. i \in 1..size /\ i \in 1..Len(source)
    BY <1>1, <1>4, <1>6
  <2>3. SrcChar = source[i]
    BY <1>1, <1>4, <2>2 DEF SrcChar
  <2>4. source[i] \in Char8
        /\ Read(i) = IF IsKept(source[i]) THEN Append(Read(i - 1), source[i]) ELSE Read(i - 1)
    BY <1>2, <2>2, ReadNext DEF CallInv
  <2>5. i' \in 1..(size + 1) /\ i' - 1 = i
    BY <1>4, <2>1, <2>2
  <2>6. CASE IsKept(source[i])
    <3>1. dest' = [dest EXCEPT ![destp] = source[i]] /\ destp' = destp + 1
      BY <2>1, <2>3, <2>6
    <3>2. /\ dest' \in Text /\ Len(dest') = Len(dest)
          /\ \A k \in 1..Len(dest) : dest'[k] = IF k = destp THEN source[i] ELSE dest[k]
          /\ SubSeq(dest', 1, destp) = Append(SubSeq(dest, 1, destp - 1), source[i])
      <4>1. dest \in Text /\ destp \in 1..Len(dest) /\ source[i] \in Char8
        BY <1>1, <1>4, <2>4
      <4>2. dest' = [dest EXCEPT ![destp] = source[i]]
        BY <3>1
      <4>3. dest' \in Text /\ Len(dest') = Len(dest)
        BY <4>1, <4>2 DEF Text
      <4>4. \A k \in 1..Len(dest) : dest'[k] = IF k = destp THEN source[i] ELSE dest[k]
        BY <4>1, <4>2, WriteNext
      <4>5. SubSeq(dest', 1, destp) = Append(SubSeq(dest, 1, destp - 1), source[i])
        BY <4>1, <4>2, WriteNext
      <4> QED
        BY <4>3, <4>4, <4>5
    <3>3. SubSeq(dest', 1, destp' - 1) = Read(i)
      BY <1>1, <1>4, <2>4, <2>6, <3>1, <3>2
    <3>4. \A k \in 1..(destp' - 1) : dest'[k] \in 32..127
      BY <1>1, <1>4, <2>4, <2>6, <3>1, <3>2, IsKeptKeeps
    <3>5. shared => \A k \in i'..Len(source) : dest'[k] = source[k]
      BY <1>1, <1>4, <2>1, <3>2
    <3>6. destp' \in 1..i'
      BY <1>1, <2>1, <3>1
    <3>7. CopyInv'
      BY <1>1, <1>2, <1>3, <2>5, <3>2, <3>3, <3>4, <3>5, <3>6 DEF CopyInv, call
    <3> QED
      BY <1>3, <2>1, <3>7 DEF IInv, ClearInv, AppendInv, BlockInv, EraseInv, VersionsAgree
  <2>7. CASE ~IsKept(source[i])
    <3>1. UNCHANGED <<dest, destp>>
      BY <2>1, <2>3, <2>7
    <3>2. shared => \A k \in i'..Len(source) : dest'[k] = source[k]
      BY <1>1, <1>4, <2>1, <3>1
    <3>3. destp' \in 1..i'
      BY <1>1, <2>1, <3>1
    <3>4. CopyInv'
      BY <1>1, <1>2, <1>3, <2>4, <2>5, <2>7, <3>1, <3>2, <3>3 DEF CopyInv, call
    <3> QED
      BY <1>3, <2>1, <3>4 DEF IInv, ClearInv, AppendInv, BlockInv, EraseInv, VersionsAgree
  <2> QED
    BY <2>6, <2>7
<1> QED
  BY <1>5, <1>6

LEMMA StartBlockIInv == IInv /\ StartBlock => IInv'
<1> SUFFICES ASSUME IInv, StartBlock PROVE IInv'
  OBVIOUS
<1>1. /\ version = "block" /\ s = source
      /\ i \in 1..(Len(s) + 1)
      /\ result = Read(i - 1)
      /\ \/ i = 1 /\ b = 1
         \/ b = i + 1 /\ (i <= Len(s) => s[i] \notin 32..127)
  BY DEF IInv, BlockInv, StartBlock
<1>2. CallInv /\ UNCHANGED call /\ UNCHANGED <<s, b>>
  BY DEF IInv, StartBlock
<1>3. CallInv' /\ \A n : Read(n)' = Read(n)
  BY <1>2 DEF CallInv, call, Read
<1>4. Len(s) \in Nat /\ i \in Nat /\ b \in 1..(i + 1)
  BY <1>1, <1>2 DEF CallInv, Text
\* Nothing is kept of the character between i and b.
<1>5. b <= Len(s) + 1 => result = Read(b - 1)
  <2>1. CASE i = 1 /\ b = 1
    BY <1>1, <2>1
  <2>2. CASE b = i + 1 /\ i <= Len(s) /\ s[i] \notin 32..127
    BY <1>1, <1>2, <1>4, <2>2, ReadNext, IsKeptKeeps DEF CallInv
  <2> QED
    BY <1>1, <1>4, <2>1, <2>2
<1>6. CASE b <= Len(s)
  <2>1. pc' = "scan" /\ i' = b /\ UNCHANGED result
    BY <1>6 DEF StartBlock
  <2>2. SubSeq(s, b, b - 1) = <<>>
    BY <1>4
  <2>3. result \in Text
    <3>1. b \in 1..Len(source) /\ source \in Text
      BY <1>1, <1>2, <1>4, <1>6 DEF CallInv
    <3>2. Read(b - 1) \in Text
      BY <3>1, ReadNext
    <3> QED
      BY <1>4, <1>5, <1>6, <3>2
  <2>4. result \o <<>> = result
    BY <2>3 DEF Text
  <2>5. result' \o SubSeq(s', b', i' - 1) = Read(i' - 1)
    <3>1. s' = s /\ b' = b /\ i' = b /\ result' = result
      BY <1>2, <2>1
    <3>2. result = Read(b - 1)
      BY <1>4, <1>5, <1>6
    <3> QED
      BY <2>2, <2>4, <3>1, <3>2
  <2>6. b \in 1..b /\ b \in 1..(Len(s) + 1)
    BY <1>4, <1>6
  <2>7. BlockInv'
    BY <1>1, <1>2, <1>3, <2>1, <2>3, <2>5, <2>6 DEF BlockInv, call
  <2> QED
    BY <1>3, <2>1, <2>7 DEF IInv, ClearInv, AppendInv, CopyInv, EraseInv, VersionsAgree
<1>7. CASE ~(b <= Len(s))
  <2>1. pc' = "done" /\ result' = result
    BY <1>7 DEF StartBlock, Done
  <2>2. result = Read(Len(s))
    <3>1. CASE b = Len(s) + 1
      BY <1>4, <1>5, <3>1
    <3>2. CASE b # Len(s) + 1
      <4>1. i - 1 = Len(s)
        BY <1>1, <1>4, <1>7, <3>2
      <4> QED
        BY <1>1, <4>1
    <3> QED
      BY <3>1, <3>2
  <2>3. VersionsAgree'
    BY <1>1, <1>2, <2>1, <2>2 DEF VersionsAgree, call, Read, CallInv
  <2> QED
    BY <1>3, <2>1, <2>3 DEF IInv, ClearInv, AppendInv, CopyInv, BlockInv, EraseInv
<1> QED
  BY <1>6, <1>7

LEMMA ScanIInv == IInv /\ (Scan \/ AppendBlock) => IInv'
<1> SUFFICES ASSUME IInv, Scan \/ AppendBlock PROVE IInv'
  OBVIOUS
<1>1. /\ version = "block" /\ s = source
      /\ i \in 1..(Len(s) + 1) /\ b \in 1..i
      /\ result \in Text
      /\ result \o SubSeq(s, b, i - 1) = Read(i - 1)
  BY DEF IInv, BlockInv, Scan, AppendBlock
<1>2. CallInv /\ UNCHANGED call /\ UNCHANGED s
  BY DEF IInv, Scan, AppendBlock
<1>3. CallInv' /\ \A n : Read(n)' = Read(n)
  BY <1>2 DEF CallInv, call, Read
<1>4. Len(s) \in Nat /\ i \in Nat /\ b \in Nat
  BY <1>1, <1>2 DEF CallInv, Text
<1>5. CASE Scan
  <2>1. pc' = "scan" /\ i' = i + 1 /\ UNCHANGED <<b, result>> /\ ~AtEnd /\ IsKept(s[i])
    BY <1>5 DEF Scan
  <2>2. i \in 1..Len(s)
    BY <1>1, <1>4, <2>1 DEF AtEnd
  <2>3. s[i] \in Char8 /\ Read(i) = Append(Read(i - 1), s[i])
    BY <1>1, <1>2, <2>1, <2>2, ReadNext DEF CallInv
  <2>4. s \in Text
    BY <1>1, <1>2 DEF CallInv
  <2>5. SubSeq(s, b, i - 1) \in Text /\ SubSeq(s, b, i) = Append(SubSeq(s, b, i - 1), s[i])
    BY <1>1, <1>4, <2>2, <2>4 DEF Text
  <2>6. \A u, v \in Text, c \in Char8 : u \o Append(v, c) = Append(u \o v, c)
    BY DEF Text
  <2>7. result \o SubSeq(s, b, i) = Read(i)
    BY <1>1, <2>3, <2>5, <2>6, ZenonT(60)
  <2>8. i' \in 1..(Len(s) + 1) /\ b \in 1..i' /\ i' - 1 = i
    BY <1>1, <1>4, <2>1, <2>2
  <2>9. BlockInv'
    BY <1>1, <1>2, <1>3, <2>1, <2>7, <2>8 DEF BlockInv, call
  <2> QED
    BY <1>3, <2>1, <2>9 DEF IInv, ClearInv, AppendInv, CopyInv, EraseInv, VersionsAgree
<1>6. CASE AppendBlock
  <2>1. /\ pc' = "block" /\ b' = i + 1 /\ i' = i
        /\ result' = result \o SubSeq(s, b, i - 1)
        /\ ~AtEnd => ~IsKept(s[i])
    BY <1>6 DEF AppendBlock
  <2>2. i <= Len(s) => s[i] \notin 32..127
    <3> SUFFICES ASSUME i <= Len(s) PROVE s[i] \notin 32..127
      OBVIOUS
    <3>1. i \in 1..Len(s) /\ ~IsKept(s[i])
      BY <1>1, <1>4, <2>1 DEF AtEnd
    <3>2. s[i] \in Char8
      BY <1>1, <1>2, <3>1, ReadNext DEF CallInv
    <3> QED
      BY <3>1, <3>2, IsKeptKeeps
  <2>3. BlockInv'
    BY <1>1, <1>2, <1>3, <2>1, <2>2 DEF BlockInv, call
  <2> QED
    BY <1>3, <2>1, <2>3 DEF IInv, ClearInv, AppendInv, CopyInv, EraseInv, VersionsAgree
<1> QED
  BY <1>5, <1>6

\* Erasing the character at i leaves what is before it and what is behind it.
LEMMA EraseAt ==
    ASSUME NEW string \in Text, NEW n \in 1..Len(string)
    PROVE  LET rest == RemoveAt(string, n)
           IN  /\ rest \in Text /\ Len(rest) = Len(string) - 1
               /\ SubSeq(rest, 1, n - 1) = SubSeq(string, 1, n - 1)
               /\ SubSeq(rest, n, Len(rest)) = SubSeq(string, n + 1, Len(string))
<1> DEFINE u == SubSeq(string, 1, n - 1)
           v == SubSeq(string, n + 1, Len(string))
           rest == u \o v
<1>1. Len(string) \in Nat
  BY DEF Text
<1>2. u \in Text /\ Len(u) = n - 1 /\ v \in Text /\ Len(v) = Len(string) - n
  BY <1>1 DEF Text
<1>3. RemoveAt(string, n) = rest
  BY DEF RemoveAt
<1> HIDE DEF u, v
<1>4. rest \in Text /\ Len(rest) = Len(string) - 1
  BY <1>1, <1>2, SMTT(30) DEF Text
<1>5. SubSeq(rest, 1, n - 1) = u
  BY <1>1, <1>2 DEF Text
<1>6. SubSeq(rest, n, Len(rest)) = v
  BY <1>1, <1>2 DEF Text
<1> QED
  BY <1>3, <1>4, <1>5, <1>6 DEF u, v

LEMMA EraseCharIInv == IInv /\ EraseChar => IInv'
<1> SUFFICES ASSUME IInv, EraseChar PROVE IInv'
  OBVIOUS
<1>1. /\ version = "erase" /\ s \in Text
      /\ i \in 1..(Len(s) + 1)
      /\ Filtered(source) = SubSeq(s, 1, i - 1) \o Filtered(SubSeq(s, i, Len(s)))
  BY DEF IInv, EraseInv, EraseChar
<1>2. CallInv /\ UNCHANGED call
  BY DEF IInv, EraseChar
<1>3. CallInv'
  BY <1>2 DEF CallInv, call
<1>4. Len(s) \in Nat
  BY <1>1 DEF Text
<1>5. CASE AtEnd
  <2>1. pc' = "done" /\ result' = s
    BY <1>5 DEF EraseChar, Done
  <2>2. i = Len(s) + 1 /\ i - 1 = Len(s)
    BY <1>1, <1>4, <1>5 DEF AtEnd
  <2>3. SubSeq(s, i, Len(s)) = <<>> /\ SubSeq(s, 1, i - 1) = s /\ s \o <<>> = s
    BY <1>1, <1>4, <2>2 DEF Text
  <2>4. Filtered(source) = s
    BY <1>1, <2>3, FilteredEmpty
  <2>5. SubSeq(source, 1, size) = source
    BY <1>1, <1>2 DEF CallInv, Text
  <2>6. VersionsAgree'
    BY <1>1, <1>2, <2>1, <2>4, <2>5 DEF VersionsAgree, call
  <2> QED
    BY <1>3, <2>1, <2>6 DEF IInv, ClearInv, AppendInv, CopyInv, BlockInv, EraseInv
<1>6. CASE ~AtEnd
  <2>1. pc' = "erase"
    BY <1>6 DEF EraseChar
  <2>2. i \in 1..Len(s) /\ s[i] \in Char8
    <3>1. i \in 1..Len(s)
      BY <1>1, <1>4, <1>6 DEF AtEnd
    <3> QED
      BY <1>1, <3>1, ElementOfSeq DEF Text
  <2> DEFINE before == SubSeq(s, 1, i - 1)
             behind == SubSeq(s, i + 1, Len(s))
  <2>3. before \in Text /\ behind \in Text /\ <<s[i]>> \in Text
    BY <1>1, <1>4, <2>2 DEF Text
  <2>4. SubSeq(s, i, Len(s)) = <<s[i]>> \o behind
    BY <1>1, <2>2, SubSeqRecursiveFirst DEF Text
  <2>5. Filtered(<<s[i]>>) = IF s[i] \in 32..127 THEN <<s[i]>> ELSE <<>>
    <3>1. <<>> \in Text /\ Append(<<>>, s[i]) = <<s[i]>>
      BY DEF Text
    <3> QED
      BY <2>2, <3>1, FilteredAppend, FilteredEmpty, ZenonT(60)
  <2>6. /\ Filtered(behind) \in Text
        /\ Filtered(SubSeq(s, i, Len(s))) = Filtered(<<s[i]>>) \o Filtered(behind)
    BY <2>3, <2>4, FilteredConcat
  <2>7. EraseInv'
    <3>1. CASE IsKept(s[i])
      <4>1. i' = i + 1 /\ s' = s
        BY <1>6, <3>1 DEF EraseChar
      <4>2. i + 1 \in 1..(Len(s) + 1) /\ (i + 1) - 1 = i
        BY <1>4, <2>2
      <4>3. SubSeq(s, 1, i) = before \o <<s[i]>>
        BY <1>1, <1>4, <2>2 DEF Text
      <4>4. Filtered(SubSeq(s, i, Len(s))) = <<s[i]>> \o Filtered(behind)
        BY <2>2, <2>5, <2>6, <3>1, IsKeptKeeps
      <4> HIDE DEF before, behind
      <4>5. before \o (<<s[i]>> \o Filtered(behind)) = (before \o <<s[i]>>) \o Filtered(behind)
        BY <2>3, <2>6, ConcatAssociative, SMTT(30) DEF Text
      <4>6. Filtered(source) = SubSeq(s, 1, i) \o Filtered(behind)
        BY <1>1, <4>3, <4>4, <4>5 DEF before
      <4> QED
        BY <1>1, <1>2, <4>1, <4>2, <4>6 DEF EraseInv, call, behind
    <3>2. CASE ~IsKept(s[i])
      <4>1. i' = i /\ s' = RemoveAt(s, i)
        BY <1>6, <3>2 DEF EraseChar
      <4>2. /\ s' \in Text /\ Len(s') = Len(s) - 1
            /\ SubSeq(s', 1, i - 1) = before
            /\ SubSeq(s', i, Len(s')) = behind
        BY <1>1, <2>2, <4>1, EraseAt
      <4>3. Filtered(SubSeq(s, i, Len(s))) = Filtered(behind)
        <5>1. Filtered(<<s[i]>>) = <<>>
          BY <2>2, <2>5, <3>2, IsKeptKeeps
        <5> HIDE DEF behind
        <5> QED
          BY <2>6, <5>1 DEF Text
      <4>4. i \in 1..(Len(s') + 1)
        BY <1>4, <2>2, <4>2
      <4> HIDE DEF behind
      <4>5. Filtered(source) = before \o Filtered(behind)
        BY <1>1, <4>3
      <4> QED
        BY <1>1, <1>2, <4>1, <4>2, <4>4, <4>5 DEF EraseInv, call
    <3> QED
      BY <3>1, <3>2
  <2> QED
    BY <1>3, <2>1, <2>7 DEF IInv, ClearInv, AppendInv, CopyInv, BlockInv, VersionsAgree
<1> QED
  BY <1>5, <1>6

LEMMA NextIInv == IInv /\ [Next]_vars => IInv'
<1>1. IInv /\ (Returned \/ UNCHANGED vars) => IInv'
  <2> SUFFICES ASSUME IInv, UNCHANGED vars PROVE IInv'
    BY DEF Returned
  <2>1. CallInv' /\ ClearInv' /\ VersionsAgree'
    BY DEF IInv, vars, call, CallInv, ClearInv, VersionsAgree
  <2>2. AppendInv' /\ BlockInv'
    BY DEF IInv, vars, call, AppendInv, BlockInv, Read
  <2>3. CopyInv'
    BY DEF IInv, vars, call, CopyInv, Read
  <2>4. EraseInv'
    BY DEF IInv, vars, call, EraseInv
  <2> QED
    BY <2>1, <2>2, <2>3, <2>4 DEF IInv, vars
<1> QED
  BY <1>1, ClearResultIInv, AppendCharIInv, CopyCharIInv, StartBlockIInv, ScanIInv,
     EraseCharIInv DEF Next, Run

LEMMA IInvHolds == Spec => []IInv
BY InitIInv, NextIInv, PTL DEF Spec

-----------------------------------------------------------------------------
(* Theorems *)

\* All ten versions return the kept characters of what they read, in their order, for
\* every string, every length and whatever was in the caller's string or array, but for
\* the one that loses a shared string and the four that may stop where their int ends.
THEOREM AllVersionsAgree == Spec => []VersionsAgree
<1>1. IInv => VersionsAgree
  BY DEF IInv
<1> QED
  BY <1>1, IInvHolds, PTL

\* At every turn of the loops, what has been read has been filtered; and the version for
\* C strings, reading the array it writes to, never writes to what it has not read.
THEOREM EveryTurnFilters == Spec => []ReadIsFiltered
<1>1. IInv => ReadIsFiltered
  <2> SUFFICES ASSUME IInv PROVE ReadIsFiltered
    OBVIOUS
  <2>1. pc = "append" => result = Read(i - 1)
    BY DEF IInv, AppendInv
  <2>2. pc = "cstrings" => /\ destp <= i
                           /\ SubSeq(dest, 1, destp - 1) = Read(i - 1)
                           /\ shared => \A k \in i..Len(source) : dest[k] = source[k]
    BY DEF IInv, CopyInv, CallInv
  <2>3. /\ pc = "block" => result = Read(i - 1)
        /\ pc = "scan" => result \o SubSeq(s, b, i - 1) = Read(i - 1)
    BY DEF IInv, BlockInv
  <2>4. pc = "erase" => /\ i <= Len(s) + 1
                        /\ Filtered(source) = SubSeq(s, 1, i - 1) \o Filtered(SubSeq(s, i, Len(s)))
    <3> SUFFICES ASSUME pc = "erase" PROVE i <= Len(s) + 1
      BY DEF IInv, EraseInv
    <3>1. Len(s) \in Nat /\ i \in 1..(Len(s) + 1)
      BY DEF IInv, EraseInv, Text
    <3> QED
      BY <3>1
  <2> QED
    BY <2>1, <2>2, <2>3, <2>4 DEF ReadIsFiltered, Read
<1> QED
  BY <1>1, IInvHolds, PTL

=============================================================================
