-------------------------- MODULE NestedZipProofs --------------------------
(***************************************************************************)
(* Theorems about NestedZip, for chains of every length, every number of   *)
(* runs, interrupted or not, and every set of files that a user may pack.  *)
(***************************************************************************)
EXTENDS NestedZip, WellFoundedInduction, TLAPS

-----------------------------------------------------------------------------
(* Induction *)

\* A set of numbers has a smallest one: a claim about numbers that fails for one of
\* them fails for a first one.
LEMMA SmallestOf == \A T \in SUBSET Nat : T # {} => \E m \in T : \A n \in T : m <= n
<1> SUFFICES ASSUME NEW T \in SUBSET Nat, T # {} PROVE \E m \in T : \A n \in T : m <= n
  OBVIOUS
<1> DEFINE R == OpToRel(<, Nat)
<1>1. \A m, n \in Nat : m < n => <<m, n>> \in R
  BY DEF OpToRel
<1>2. IsWellFoundedOn(R, Nat)
  BY NatLessThanWellFounded
<1> HIDE DEF R
<1>3. PICK m \in T : \A n \in T : ~(<<n, m>> \in R)
  BY WFMin, <1>2
<1>4. m \in Nat /\ \A n \in T : n \in Nat /\ ~(n < m)
  BY <1>1, <1>3
<1> QED
  BY <1>4

-----------------------------------------------------------------------------
(* Innermost *)

\* What was packed first into an archive.
Peel(c) == IF c.kind = "zip" /\ c.members # <<>> THEN c.members[1].content ELSE Nothing

\* The contents of a chain from c downwards.
PeeledTo(f, c, last) == f = [k \in 0..last |-> IF k = 0 THEN c ELSE Peel(f[k - 1])]

LEMMA PeeledAt ==
    ASSUME NEW f, NEW c, NEW last \in Nat, PeeledTo(f, c, last)
    PROVE  f[0] = c /\ \A k \in 1..last : f[k] = Peel(f[k - 1])
<1> DEFINE F(h) == [k \in 0..last |-> IF k = 0 THEN c ELSE Peel(h[k - 1])]
<1>1. f = F(f)
  BY DEF PeeledTo
<1>2. F(f)[0] = c /\ \A k \in 1..last : F(f)[k] = Peel(f[k - 1])
  OBVIOUS
<1> HIDE DEF F
<1> QED
  BY <1>1, <1>2

LEMMA PeeledExists == \A c : \A last \in Nat : \E f : PeeledTo(f, c, last)
<1> SUFFICES ASSUME NEW c PROVE \A last \in Nat : \E f : PeeledTo(f, c, last)
  OBVIOUS
<1> DEFINE Good(last) == \E f : PeeledTo(f, c, last)
           T == {last \in Nat : ~Good(last)}
<1>1. Good(0)
  <2>1. PeeledTo([k \in 0..0 |-> c], c, 0)
    BY DEF PeeledTo
  <2> QED
    BY <2>1
<1>2. ASSUME NEW last \in Nat, Good(last) PROVE Good(last + 1)
  <2>1. PICK f : PeeledTo(f, c, last)
    BY <1>2
  <2> DEFINE g == [k \in 0..(last + 1) |-> IF k = last + 1 THEN Peel(f[last]) ELSE f[k]]
  <2>2. PeeledTo(g, c, last + 1)
    <3> SUFFICES ASSUME NEW k \in 0..(last + 1)
                 PROVE  g[k] = IF k = 0 THEN c ELSE Peel(g[k - 1])
      BY DEF PeeledTo
    <3>1. CASE k = last + 1
      BY <3>1
    <3>2. CASE k # last + 1
      <4>1. k \in 0..last /\ g[k] = f[k] /\ (k # 0 => g[k - 1] = f[k - 1])
        BY <3>2
      <4> QED
        BY <2>1, <4>1, PeeledAt
    <3> QED
      BY <3>1, <3>2
  <2> QED
    BY <2>2
<1> HIDE DEF Good
<1>3. T = {}
  <2> SUFFICES ASSUME T # {} PROVE FALSE
    OBVIOUS
  <2>1. PICK m \in T : \A n \in T : m <= n
    BY SmallestOf
  <2>2. m # 0 /\ m - 1 \in Nat /\ m - 1 \notin T
    BY <1>1, <2>1
  <2> QED
    BY <1>2, <2>1, <2>2
<1> QED
  BY <1>3 DEF Good

\* Chains from the same content agree as far as both go.
LEMMA PeeledUnique ==
    ASSUME NEW c, NEW last \in Nat, NEW end \in Nat, last <= end,
           NEW f, PeeledTo(f, c, last), NEW g, PeeledTo(g, c, end)
    PROVE  \A n \in 0..last : f[n] = g[n]
<1> DEFINE T == {n \in Nat : n <= last /\ f[n] # g[n]}
<1> SUFFICES ASSUME T # {} PROVE FALSE
  OBVIOUS
<1>1. PICK m \in T : \A n \in T : m <= n
  BY SmallestOf
<1>2. m # 0
  BY <1>1, PeeledAt
<1>3. m \in 1..last /\ m \in 1..end /\ m - 1 \in Nat /\ m - 1 \notin T
  BY <1>1, <1>2
<1>4. f[m] = Peel(f[m - 1]) /\ g[m] = Peel(g[m - 1])
  BY <1>3, PeeledAt
<1> QED
  BY <1>1, <1>3, <1>4

LEMMA InnermostIsPeeled ==
    ASSUME NEW c, NEW n \in Nat
    PROVE  \E f : PeeledTo(f, c, n) /\ f[n] = Innermost(c, n)
<1> DEFINE f == CHOOSE f : PeeledTo(f, c, n)
<1>1. PeeledTo(f, c, n)
  BY PeeledExists
<1>2. Innermost(c, n) = f[n]
  BY DEF Innermost, PeeledTo, Peel
<1> QED
  BY <1>1, <1>2

\* One level further down, seen from the bottom and from the top.
LEMMA InnermostNext ==
    ASSUME NEW c, NEW n \in Nat
    PROVE  Innermost(c, 0) = c /\ Innermost(c, n + 1) = Peel(Innermost(c, n))
<1>1. PICK f : PeeledTo(f, c, n) /\ f[n] = Innermost(c, n)
  BY InnermostIsPeeled
<1>2. n + 1 \in Nat /\ n <= n + 1 /\ n + 1 \in 1..(n + 1) /\ n \in 0..n /\ (n + 1) - 1 = n
  OBVIOUS
<1>3. PICK g : PeeledTo(g, c, n + 1) /\ g[n + 1] = Innermost(c, n + 1)
  BY <1>2, InnermostIsPeeled
<1>4. f[n] = g[n]
  BY <1>1, <1>2, <1>3, PeeledUnique
<1>5. g[n + 1] = Peel(g[n])
  BY <1>2, <1>3, PeeledAt
<1>6. PICK h : PeeledTo(h, c, 0) /\ h[0] = Innermost(c, 0)
  BY InnermostIsPeeled
<1>7. h[0] = c
  BY <1>6, PeeledAt
<1> QED
  BY <1>1, <1>3, <1>4, <1>5, <1>6, <1>7

LEMMA InnermostInside ==
    ASSUME NEW c
    PROVE  \A n \in Nat : Innermost(c, n + 1) = Innermost(Peel(c), n)
<1> DEFINE Good(n) == Innermost(c, n + 1) = Innermost(Peel(c), n)
           T == {n \in Nat : ~Good(n)}
<1>1. Good(0)
  <2>1. Innermost(c, 0 + 1) = Peel(Innermost(c, 0)) /\ Innermost(c, 0) = c
    BY InnermostNext
  <2>2. Innermost(Peel(c), 0) = Peel(c)
    BY InnermostNext
  <2> QED
    BY <2>1, <2>2
<1>2. ASSUME NEW n \in Nat, Good(n) PROVE Good(n + 1)
  <2>1. n + 1 \in Nat
    OBVIOUS
  <2>2. Innermost(c, (n + 1) + 1) = Peel(Innermost(c, n + 1))
    BY <2>1, InnermostNext
  <2>3. Innermost(Peel(c), n + 1) = Peel(Innermost(Peel(c), n))
    BY InnermostNext
  <2> QED
    BY <1>2, <2>2, <2>3
<1> HIDE DEF Good
<1>3. T = {}
  <2> SUFFICES ASSUME T # {} PROVE FALSE
    OBVIOUS
  <2>1. PICK m \in T : \A n \in T : m <= n
    BY SmallestOf
  <2>2. m # 0 /\ m - 1 \in Nat /\ m - 1 \notin T /\ (m - 1) + 1 = m
    BY <1>1, <2>1
  <2> QED
    BY <1>2, <2>1, <2>2
<1>4. \A n \in Nat : Good(n)
  BY <1>3
<1> QED
  BY <1>4 DEF Good

\* There is nothing inside of what is no archive.
LEMMA InnermostOfNothing == \A n \in Nat : Innermost(Nothing, n) = Nothing
<1> DEFINE Good(n) == Innermost(Nothing, n) = Nothing
           T == {n \in Nat : ~Good(n)}
<1>1. Good(0)
  BY InnermostNext
<1>2. ASSUME NEW n \in Nat, Good(n) PROVE Good(n + 1)
  <2>1. Innermost(Nothing, n + 1) = Peel(Nothing)
    BY <1>2, InnermostNext
  <2>2. Nothing.kind = "nothing"
    BY DEF Nothing
  <2> QED
    BY <2>1, <2>2 DEF Peel
<1> HIDE DEF Good
<1>3. T = {}
  <2> SUFFICES ASSUME T # {} PROVE FALSE
    OBVIOUS
  <2>1. PICK m \in T : \A n \in T : m <= n
    BY SmallestOf
  <2>2. m # 0 /\ m - 1 \in Nat /\ m - 1 \notin T /\ (m - 1) + 1 = m
    BY <1>1, <2>1
  <2> QED
    BY <1>2, <2>1, <2>2
<1>4. \A n \in Nat : Good(n)
  BY <1>3
<1> QED
  BY <1>4 DEF Good

\* A chain with something at its end is an archive that is not empty.
LEMMA SomethingInside ==
    ASSUME NEW c, NEW n \in Nat, n > 0, Innermost(c, n) # Nothing
    PROVE  c.kind = "zip" /\ c.members # <<>>
<1>1. n - 1 \in Nat /\ (n - 1) + 1 = n
  OBVIOUS
<1>2. Innermost(c, (n - 1) + 1) = Innermost(Peel(c), n - 1)
  BY <1>1, InnermostInside
<1>3. Peel(c) # Nothing
  BY <1>1, <1>2, InnermostOfNothing
<1> QED
  BY <1>3 DEF Peel

-----------------------------------------------------------------------------
(* Whole *)

\* A chain is whole if each of its contents is in order.
LEMMA WholeIf ==
    ASSUME NEW c, NEW n \in Nat,
           Innermost(c, n) # Nothing,
           \A k \in 1..n : /\ Innermost(c, n - k).kind = "zip"
                           /\ Len(Innermost(c, n - k).members) = 2
                           /\ Innermost(c, n - k).members[2] = Member(Tmp(k), Text(k))
    PROVE  Whole(c, n)
<1> DEFINE At(k) == IF k = n THEN c ELSE Innermost(c, n - k)
           Fine(k) == /\ At(k).kind = "zip"
                      /\ Len(At(k).members) = 2
                      /\ At(k).members[2] = Member(Tmp(k), Text(k))
           F(w) == [k \in 0..n |-> IF k = 0 THEN At(k) # Nothing
                                   ELSE /\ At(k).kind = "zip"
                                        /\ Len(At(k).members) = 2
                                        /\ At(k).members[2] = Member(Tmp(k), Text(k))
                                        /\ w[k - 1]]
           w == CHOOSE w : w = F(w)
           True(k) == w[k] = TRUE
           T == {k \in Nat : k <= n /\ ~True(k)}
<1>1. \A k \in 0..n : At(k) = Innermost(c, n - k)
  <2>1. Innermost(c, 0) = c
    BY InnermostNext
  <2>2. n - n = 0
    OBVIOUS
  <2> QED
    BY <2>1, <2>2
<1>2. At(0) # Nothing /\ \A k \in 1..n : Fine(k)
  <2>1. n - 0 = n
    OBVIOUS
  <2> HIDE DEF At
  <2> QED
    BY <1>1, <2>1
<1>3. Whole(c, n) = w[n]
  BY DEF Whole
<1> HIDE DEF At
<1>4. ASSUME NEW v
      PROVE  F(v)[0] = TRUE /\ \A k \in 1..n : v[k - 1] = TRUE => F(v)[k] = TRUE
  <2>1. F(v)[0] = (At(0) # Nothing)
    OBVIOUS
  <2>2. ASSUME NEW k \in 1..n, v[k - 1] = TRUE PROVE F(v)[k] = TRUE
    <3>1. F(v)[k] = (/\ At(k).kind = "zip"
                     /\ Len(At(k).members) = 2
                     /\ At(k).members[2] = Member(Tmp(k), Text(k))
                     /\ v[k - 1])
      <4>1. k \in 0..n /\ k # 0
        OBVIOUS
      <4> QED
        BY <4>1, Zenon
    <3>2. /\ At(k).kind = "zip"
          /\ Len(At(k).members) = 2
          /\ At(k).members[2] = Member(Tmp(k), Text(k))
      BY <1>2
    <3> HIDE DEF F
    <3> QED
      BY <2>2, <3>1, <3>2, Zenon
  <2> HIDE DEF F
  <2> QED
    BY <1>2, <2>1, <2>2, Zenon
<1>5. w = F(w)
  <2> DEFINE all == [k \in 0..n |-> TRUE]
  <2>1. all = F(all)
    <3>1. \A k \in 0..n : F(all)[k] = TRUE
      <4>1. \A k \in 1..n : all[k - 1] = TRUE
        OBVIOUS
      <4>2. \A k \in 0..n : k = 0 \/ k \in 1..n
        OBVIOUS
      <4> HIDE DEF F, all
      <4> QED
        BY <1>4, <4>1, <4>2, Zenon
    <3>2. F(all) = [k \in 0..n |-> F(all)[k]]
      OBVIOUS
    <3> HIDE DEF F
    <3> QED
      BY <3>1, <3>2
  <2> HIDE DEF all, F
  <2> QED
    BY <2>1
<1> HIDE DEF w, F
<1>6. True(0)
  BY <1>4, <1>5, Zenon
<1>7. ASSUME NEW k \in 1..n, True(k - 1) PROVE True(k)
  BY <1>4, <1>5, <1>7, Zenon
<1> HIDE DEF True
<1>8. T = {}
  <2> SUFFICES ASSUME T # {} PROVE FALSE
    OBVIOUS
  <2>1. PICK m \in T : \A k \in T : m <= k
    BY SmallestOf
  <2>2. m # 0
    BY <1>6, <2>1
  <2>3. m \in 1..n /\ m - 1 \in Nat /\ m - 1 \notin T
    BY <2>1, <2>2
  <2> QED
    BY <1>7, <2>1, <2>3
<1>9. True(n)
  BY <1>8
<1> QED
  BY <1>3, <1>9 DEF True

-----------------------------------------------------------------------------
(* Chains that are in order *)

\* The name of what is packed first at level n.
PackedName(n) == IF n = 1 THEN input.name ELSE Zip(n - 1)

\* An archive of level n that has been closed after both members were added.
Full(n, c) ==
    c.kind = "zip" /\ Len(c.members) = 2 /\ c.members[2] = Member(Tmp(n), Text(n))

\* c has the named content of level n in it, which is in G and, if it is an archive of the
\* level below, was closed after both members were added.
Inside(G, n, inner) ==
    /\ <<PackedName(n), inner>> \in G
    /\ inner # Nothing
    /\ n > 1 => Full(n - 1, inner)

\* c is an archive of level n with both of its members.
Links(G, n, c) ==
    \E inner : /\ Inside(G, n, inner)
               /\ c = Archive(<<Member(PackedName(n), inner), Member(Tmp(n), Text(n))>>)

\* c is what is left of an archive of level n when its making was interrupted.
Partial(G, n, c) ==
    \/ c = Archive(<<>>)
    \/ c = Archive(<<Member(PackedName(n), Broken)>>)
    \/ \E inner :
          /\ Inside(G, n, inner)
          /\ \/ c = Archive(<<Member(PackedName(n), inner)>>)
             \/ c = Archive(<<Member(PackedName(n), inner), Member(Tmp(n), Broken)>>)

\* Every archive in a set of named contents, under a name of the program, is linked to
\* another content of the set, or its making was interrupted.  (The input may be an
\* archive with such a name, of an earlier run, with the input in it that was there then,
\* and so on.  A set that is closed says all of that without recursion.)
ClosedChain(G) ==
    \A n \in Level : \A c :
        <<Zip(n), c>> \in G /\ c.kind = "zip" => Links(G, n, c) \/ Partial(G, n, c)

FilesIn(G) == \A f \in Present : <<f, files[f]>> \in G

GoodFiles == \E G : ClosedChain(G) /\ FilesIn(G)

LEMMA NamesDiffer ==
    /\ \A m, n : Tmp(m) # Zip(n) /\ Tmp(m) # Doc /\ Zip(m) # Doc
    /\ \A m, n : (Tmp(m) = Tmp(n) <=> m = n) /\ (Zip(m) = Zip(n) <=> m = n)
BY DEF Tmp, Zip, Doc

LEMMA KindsDiffer ==
    /\ Nothing.kind = "nothing" /\ Original.kind = "original" /\ Broken.kind = "broken"
    /\ \A n : Text(n).kind = "text"
    /\ \A m : Archive(m).kind = "zip" /\ Archive(m).members = m
    /\ \A name, c : Member(name, c).name = name /\ Member(name, c).content = c
BY DEF Nothing, Original, Broken, Text, Archive, Member

LEMMA LinksMonotone ==
    ASSUME NEW G, NEW H, G \subseteq H, NEW n, NEW c
    PROVE  /\ Links(G, n, c) => Links(H, n, c)
           /\ Partial(G, n, c) => Partial(H, n, c)
<1>1. \A inner : Inside(G, n, inner) => Inside(H, n, inner)
  BY DEF Inside
<1> QED
  BY <1>1 DEF Links, Partial

\* The members of an archive whose making was interrupted, and of one that is complete.
MembersAre(G, n, m) ==
    \/ m = <<>>
    \/ m = <<Member(PackedName(n), Broken)>>
    \/ \E inner :
          /\ Inside(G, n, inner)
          /\ \/ m = <<Member(PackedName(n), inner)>>
             \/ \E text \in {Broken, Text(n)} :
                   m = <<Member(PackedName(n), inner), Member(Tmp(n), text)>>

LEMMA ChainMembers ==
    ASSUME NEW G, NEW n, NEW c, Links(G, n, c) \/ Partial(G, n, c)
    PROVE  c.kind = "zip" /\ MembersAre(G, n, c.members)
<1>1. CASE Links(G, n, c)
  <2>1. PICK inner : /\ Inside(G, n, inner)
                     /\ c = Archive(<<Member(PackedName(n), inner), Member(Tmp(n), Text(n))>>)
    BY <1>1 DEF Links
  <2>2. c.kind = "zip" /\ c.members = <<Member(PackedName(n), inner), Member(Tmp(n), Text(n))>>
    BY <2>1, KindsDiffer
  <2> QED
    BY <2>1, <2>2 DEF MembersAre
<1>2. CASE c = Archive(<<>>) \/ c = Archive(<<Member(PackedName(n), Broken)>>)
  BY <1>2, KindsDiffer DEF MembersAre
<1>3. ASSUME NEW inner, Inside(G, n, inner),
             \/ c = Archive(<<Member(PackedName(n), inner)>>)
             \/ c = Archive(<<Member(PackedName(n), inner), Member(Tmp(n), Broken)>>)
      PROVE  c.kind = "zip" /\ MembersAre(G, n, c.members)
  <2>1. /\ c.kind = "zip"
        /\ \/ c.members = <<Member(PackedName(n), inner)>>
           \/ c.members = <<Member(PackedName(n), inner), Member(Tmp(n), Broken)>>
    BY <1>3, KindsDiffer
  <2> QED
    BY <1>3, <2>1 DEF MembersAre
<1> QED
  BY <1>1, <1>2, <1>3 DEF Partial

\* What is linked is an archive of two members, and what is in it is again in order.
LEMMA LinkedContent ==
    ASSUME NEW G, NEW n \in Level, NEW c, Links(G, n, c)
    PROVE  /\ Full(n, c)
           /\ c.members[1] = Member(PackedName(n), Peel(c))
           /\ Inside(G, n, Peel(c))
<1>1. PICK inner : /\ Inside(G, n, inner)
                   /\ c = Archive(<<Member(PackedName(n), inner), Member(Tmp(n), Text(n))>>)
  BY DEF Links
<1>2. c.kind = "zip" /\ c.members = <<Member(PackedName(n), inner), Member(Tmp(n), Text(n))>>
  BY <1>1, KindsDiffer
<1>3. /\ c.members # <<>> /\ Len(c.members) = 2
      /\ c.members[1] = Member(PackedName(n), inner)
      /\ c.members[2] = Member(Tmp(n), Text(n))
  BY <1>2
<1>4. Peel(c) = inner
  BY <1>2, <1>3, KindsDiffer DEF Peel
<1> QED
  BY <1>1, <1>2, <1>3, <1>4 DEF Full

\* An archive that was closed after both members were added is not a partial one.
LEMMA FullIsLinked ==
    ASSUME NEW G, ClosedChain(G), NEW n \in Level, NEW c, <<Zip(n), c>> \in G, Full(n, c)
    PROVE  Links(G, n, c)
<1>1. c.kind = "zip" /\ Len(c.members) = 2 /\ c.members[2] = Member(Tmp(n), Text(n))
  BY DEF Full
<1> SUFFICES ASSUME Partial(G, n, c) PROVE FALSE
  BY <1>1 DEF ClosedChain
<1>2. Text(n) # Broken
  <2>1. "text" # "broken"
    OBVIOUS
  <2> QED
    BY <2>1, KindsDiffer
<1>3. CASE c.members = <<>>
  BY <1>1, <1>3
<1>4. ASSUME NEW m, c.members = <<m>> PROVE FALSE
  BY <1>1, <1>4
<1>5. ASSUME NEW m, c.members = <<m, Member(Tmp(n), Broken)>> PROVE FALSE
  <2>1. c.members[2] = Member(Tmp(n), Broken)
    BY <1>5
  <2>2. c.members[2].content = Broken
    BY <2>1, KindsDiffer
  <2>3. c.members[2].content = Text(n)
    BY <1>1, KindsDiffer
  <2> QED
    BY <1>2, <2>2, <2>3
<1>6. \/ c.members = <<>>
      \/ \E m : c.members = <<m>>
      \/ \E m : c.members = <<m, Member(Tmp(n), Broken)>>
  <2>1. \A m : c = Archive(m) => c.members = m
    BY KindsDiffer
  <2> QED
    BY <2>1, Zenon DEF Partial
<1> QED
  BY <1>3, <1>4, <1>5, <1>6, Zenon

\* From an archive that is in order, every level down to the first is.
LEMMA LinkedDownwards ==
    ASSUME NEW G, ClosedChain(G), NEW n \in Level, NEW c, Links(G, n, c)
    PROVE  \A k \in 0..(n - 1) : Links(G, n - k, Innermost(c, k))
<1> DEFINE Good(k) == Links(G, n - k, Innermost(c, k))
           T == {k \in Nat : k <= n - 1 /\ ~Good(k)}
<1>1. MaxCount \in Nat /\ n \in Nat /\ n >= 1 /\ n <= MaxCount
  BY CountAssumption DEF Level
<1>2. Good(0)
  <2>1. n - 0 = n /\ Innermost(c, 0) = c
    BY <1>1, InnermostNext
  <2> QED
    BY <2>1
<1>3. ASSUME NEW k \in Nat, k + 1 <= n - 1, Good(k) PROVE Good(k + 1)
  <2> DEFINE d == Innermost(c, k)
             m == n - k
  <2>1. m \in Level /\ m > 1 /\ m - 1 \in Level /\ n - (k + 1) = m - 1
    BY <1>1, <1>3 DEF Level
  <2>2. Links(G, m, d)
    BY <1>3
  <2> HIDE DEF m, d
  <2>3. <<PackedName(m), Peel(d)>> \in G /\ Full(m - 1, Peel(d))
    BY <2>1, <2>2, LinkedContent DEF Inside
  <2>4. PackedName(m) = Zip(m - 1)
    BY <2>1 DEF PackedName
  <2>5. Links(G, m - 1, Peel(d))
    BY <2>1, <2>3, <2>4, FullIsLinked
  <2>6. Innermost(c, k + 1) = Peel(d)
    BY InnermostNext DEF d
  <2> QED
    BY <2>1, <2>5, <2>6
<1> HIDE DEF Good
<1>4. T = {}
  <2> SUFFICES ASSUME T # {} PROVE FALSE
    OBVIOUS
  <2>1. PICK m \in T : \A k \in T : m <= k
    BY SmallestOf
  <2>2. m # 0 /\ m - 1 \in Nat /\ m - 1 \notin T /\ (m - 1) + 1 = m
    BY <1>2, <2>1
  <2> QED
    BY <1>1, <1>3, <2>1, <2>2
<1>5. \A k \in 0..(n - 1) : Good(k)
  BY <1>1, <1>4
<1> QED
  BY <1>5 DEF Good

LEMMA LinkedIsWhole ==
    ASSUME NEW G, ClosedChain(G), NEW n \in Level, NEW c, Links(G, n, c)
    PROVE  Whole(c, n)
<1>1. MaxCount \in Nat /\ n \in Nat /\ n >= 1 /\ n <= MaxCount
  BY CountAssumption DEF Level
<1>2. ASSUME NEW k \in 1..n
      PROVE  /\ Innermost(c, n - k).kind = "zip"
             /\ Len(Innermost(c, n - k).members) = 2
             /\ Innermost(c, n - k).members[2] = Member(Tmp(k), Text(k))
  <2>1. n - k \in 0..(n - 1) /\ n - (n - k) = k /\ k \in Level
    BY <1>1 DEF Level
  <2>2. Links(G, k, Innermost(c, n - k))
    BY <2>1, LinkedDownwards
  <2> QED
    BY <2>1, <2>2, LinkedContent DEF Full
<1>3. Innermost(c, n) # Nothing
  <2>1. n - 1 \in 0..(n - 1) /\ n - (n - 1) = 1 /\ 1 \in Level /\ n - 1 \in Nat /\ (n - 1) + 1 = n
    BY <1>1 DEF Level
  <2>2. Links(G, 1, Innermost(c, n - 1))
    BY <2>1, LinkedDownwards
  <2>3. Innermost(c, n) = Peel(Innermost(c, n - 1))
    BY <2>1, InnermostNext
  <2> QED
    BY <2>1, <2>2, <2>3, LinkedContent DEF Inside
<1> QED
  BY <1>1, <1>2, <1>3, WholeIf

\* What is inside an archive that is in order is a chain of one level less.
LEMMA InsideIsWhole ==
    ASSUME NEW G, ClosedChain(G), NEW n \in Level, NEW inner, Inside(G, n, inner)
    PROVE  Whole(inner, n - 1)
<1>1. MaxCount \in Nat /\ n \in Nat /\ n >= 1 /\ n <= MaxCount
  BY CountAssumption DEF Level
<1>2. CASE n = 1
  <2>1. Innermost(inner, 0) = inner /\ inner # Nothing
    BY InnermostNext DEF Inside
  <2>2. Whole(inner, 0)
    BY <2>1, WholeIf
  <2> QED
    BY <1>2, <2>2
<1>3. CASE n # 1
  <2>1. n - 1 \in Level /\ n > 1
    BY <1>1, <1>3 DEF Level
  <2>2. <<Zip(n - 1), inner>> \in G /\ Full(n - 1, inner)
    BY <2>1 DEF Inside, PackedName
  <2> QED
    BY <2>1, <2>2, FullIsLinked, LinkedIsWhole
<1> QED
  BY <1>2, <1>3

-----------------------------------------------------------------------------
(* The inductive invariant *)

\* Where the program is.
ProgramInv ==
    /\ input \in Inputs
    /\ zip_count \in 0..MaxCount
    /\ pc \in {"idle", "tmp", "open", "add", "extract"}
    /\ pc # "idle" => i \in 1..zip_count

\* What the next archive is made of is there: the text that was just written, the archive
\* that was just closed.
PackInv ==
    /\ pc \in {"open", "add"} => Tmp(i) \in Present /\ files[Tmp(i)] = Text(i)
    /\ pc \in {"tmp", "open", "add"} /\ i > 1 => Zip(i - 1) \in Present /\ Full(i - 1, files[Zip(i - 1)])

IInv == ProgramInv /\ PackInv /\ GoodFiles

LEMMA GrowClosed ==
    ASSUME NEW G, ClosedChain(G), NEW name, NEW c,
           c.kind = "zip" => \A n \in Level :
               name = Zip(n) => Links(G, n, c) \/ Partial(G, n, c)
    PROVE  ClosedChain(G \cup {<<name, c>>})
<1> DEFINE H == G \cup {<<name, c>>}
<1> SUFFICES ASSUME NEW n \in Level, NEW d, <<Zip(n), d>> \in H, d.kind = "zip"
             PROVE  Links(H, n, d) \/ Partial(H, n, d)
  BY DEF ClosedChain
<1>1. Links(G, n, d) \/ Partial(G, n, d)
  <2>1. CASE <<Zip(n), d>> \in G
    BY <2>1 DEF ClosedChain
  <2>2. CASE name = Zip(n) /\ c = d
    BY <2>2
  <2> QED
    BY <2>1, <2>2
<1> QED
  BY <1>1, LinksMonotone

\* Of the state, a closed set knows the name of the input only.
LEMMA SameChain == input' = input => \A G : ClosedChain(G)' <=> ClosedChain(G)
<1> SUFFICES ASSUME input' = input, NEW G PROVE ClosedChain(G)' <=> ClosedChain(G)
  OBVIOUS
<1>1. \A n : PackedName(n)' = PackedName(n)
  BY DEF PackedName
<1>2. \A n, inner : Inside(G, n, inner)' <=> Inside(G, n, inner)
  BY <1>1 DEF Inside
<1>3. \A n, c : (Links(G, n, c)' <=> Links(G, n, c)) /\ (Partial(G, n, c)' <=> Partial(G, n, c))
  BY <1>1, <1>2 DEF Links, Partial
<1> QED
  BY <1>3 DEF ClosedChain

LEMMA WrittenFiles ==
    ASSUME NEW name, NEW c, files' = Written(name, c)
    PROVE  /\ Present' = Present \cup {name}
           /\ \A f \in Present' : files'[f] = IF f = name THEN c ELSE files[f]
BY DEF Written, Present

\* Writing a file keeps what is there in order, if the new content is no archive or one
\* that is in order.
LEMMA GoodWritten ==
    ASSUME NEW G, ClosedChain(G), FilesIn(G), input' = input,
           NEW name, NEW c, files' = Written(name, c),
           c.kind = "zip" => \A n \in Level :
               name = Zip(n) => Links(G, n, c) \/ Partial(G, n, c)
    PROVE  GoodFiles'
<1> DEFINE H == G \cup {<<name, c>>}
<1>1. ClosedChain(H)
  BY GrowClosed
<1> HIDE DEF H
<1>2. ClosedChain(H)'
  BY <1>1, SameChain
<1>3. FilesIn(H)'
  BY WrittenFiles DEF FilesIn, H
<1> QED
  BY <1>2, <1>3 DEF GoodFiles

\* A file that is extracted is the last member of that name; the others stay.
HoldsMembers(extracted, members) ==
    /\ DOMAIN extracted = Present \cup {members[k].name : k \in DOMAIN members}
    /\ \A f \in DOMAIN extracted :
          \/ /\ \A k \in DOMAIN members : members[k].name # f
             /\ f \in Present /\ extracted[f] = files[f]
          \/ \E k \in DOMAIN members : /\ members[k].name = f
                                       /\ extracted[f] = members[k].content

LEMMA ExtractedAt ==
    ASSUME NEW members, DOMAIN members \subseteq {1, 2}
    PROVE  HoldsMembers(Extracted(members), members)
<1> DEFINE extracted == Extracted(members)
           IsLast(k, f) == /\ members[k].name = f
                           /\ \A l \in DOMAIN members : members[l].name = f => l <= k
<1>1. DOMAIN extracted = Present \cup {members[k].name : k \in DOMAIN members}
  BY DEF Extracted
<1>2. ASSUME NEW f \in DOMAIN extracted
      PROVE  extracted[f] = IF \E k \in DOMAIN members : members[k].name = f
                            THEN members[CHOOSE k \in DOMAIN members : IsLast(k, f)].content
                            ELSE files[f]
  BY <1>1 DEF Extracted
<1> HIDE DEF extracted
<1>3. ASSUME NEW f \in DOMAIN extracted, NEW k \in DOMAIN members, members[k].name = f
      PROVE  \E l \in DOMAIN members : members[l].name = f /\ extracted[f] = members[l].content
  <2>1. \E l \in DOMAIN members : IsLast(l, f)
    BY <1>3
  <2>2. PICK l : l = CHOOSE m \in DOMAIN members : IsLast(m, f)
    OBVIOUS
  <2>3. l \in DOMAIN members /\ IsLast(l, f)
    BY <2>1, <2>2
  <2>4. extracted[f] = members[l].content
    BY <1>2, <1>3, <2>2
  <2> QED
    BY <2>3, <2>4
<1>4. ASSUME NEW f \in DOMAIN extracted, ~\E k \in DOMAIN members : members[k].name = f
      PROVE  f \in Present /\ extracted[f] = files[f]
  BY <1>1, <1>2, <1>4
<1> QED
  BY <1>1, <1>3, <1>4 DEF extracted, HoldsMembers

\* Extracting members that are in G keeps the files in order.
LEMMA GoodExtracted ==
    ASSUME NEW G, ClosedChain(G), FilesIn(G), input' = input,
           NEW members, DOMAIN members \subseteq {1, 2}, files' = Extracted(members),
           \A k \in DOMAIN members : <<members[k].name, members[k].content>> \in G
    PROVE  GoodFiles'
<1>1. ClosedChain(G)'
  BY SameChain
<1>2. FilesIn(G)'
  <2> SUFFICES ASSUME NEW f \in DOMAIN files' PROVE <<f, files'[f]>> \in G
    BY DEF FilesIn, Present
  <2>1. \/ f \in Present /\ files'[f] = files[f]
        \/ \E k \in DOMAIN members : members[k].name = f /\ files'[f] = members[k].content
    BY ExtractedAt DEF HoldsMembers
  <2> QED
    BY <2>1 DEF FilesIn
<1> QED
  BY <1>1, <1>2 DEF GoodFiles

\* The same files are in order after a step that leaves them alone.
LEMMA GoodUnchanged == GoodFiles /\ UNCHANGED <<files, input>> => GoodFiles'
BY SameChain DEF GoodFiles, FilesIn, Present

\* An archive that is on the disk is in order, or its making was interrupted.
LEMMA GoodArchive ==
    ASSUME NEW G, ClosedChain(G), FilesIn(G), NEW n \in Level, IsArchive(Zip(n))
    PROVE  Links(G, n, files[Zip(n)]) \/ Partial(G, n, files[Zip(n)])
BY DEF ClosedChain, FilesIn, IsArchive

LEMMA InitIInv == Init => IInv
<1> SUFFICES ASSUME Init PROVE IInv
  OBVIOUS
<1>1. ProgramInv /\ PackInv
  BY CountAssumption DEF Init, ProgramInv, PackInv
<1>2. GoodFiles
  <2> DEFINE G == {<<input.name, Original>>}
  <2>1. ClosedChain(G)
    BY KindsDiffer DEF ClosedChain
  <2>2. FilesIn(G)
    <3>1. CASE files = <<>>
      BY <3>1 DEF FilesIn, Present
    <3>2. CASE files = [f \in {input.name} |-> Original]
      BY <3>2 DEF FilesIn, Present
    <3> QED
      BY <3>1, <3>2 DEF Init
  <2> QED
    BY <2>1, <2>2 DEF GoodFiles
<1> QED
  BY <1>1, <1>2 DEF IInv

\* What is added to an archive, when it is there.
LEMMA PackedIs ==
    Packed = Member(PackedName(i), IF i = 1 THEN Source ELSE files[Zip(i - 1)])
BY DEF Packed, PackedName

\* What is packed first is there, at every level above the first.
LEMMA PackedIsInside ==
    ASSUME IInv, pc = "add", Packed.content # Nothing,
           NEW G, ClosedChain(G), FilesIn(G)
    PROVE  \E inner, H :
              /\ ClosedChain(H) /\ FilesIn(H) /\ Inside(H, i, inner)
              /\ Packed = Member(PackedName(i), inner)
<1>1. MaxCount \in Nat /\ i \in 1..zip_count /\ zip_count \in 0..MaxCount /\ i \in Nat
  BY CountAssumption DEF IInv, ProgramInv
<1> DEFINE inner == IF i = 1 THEN Source ELSE files[Zip(i - 1)]
<1>2. Packed = Member(PackedName(i), inner)
  BY PackedIs
<1>3. inner # Nothing
  BY <1>2, KindsDiffer
<1>4. i > 1 => Full(i - 1, inner)
  BY <1>1 DEF IInv, PackInv
<1>5. inner.kind = "zip" => <<PackedName(i), inner>> \in G
  <2>1. CASE i = 1
    BY <2>1, KindsDiffer DEF Source, PackedName, FilesIn
  <2>2. CASE i # 1
    BY <1>1, <2>2 DEF IInv, PackInv, PackedName, FilesIn
  <2> QED
    BY <2>1, <2>2
<1> DEFINE H == G \cup {<<PackedName(i), inner>>}
<1> HIDE DEF inner
<1>6. ClosedChain(H) /\ FilesIn(H)
  <2>1. CASE inner.kind = "zip"
    <3>1. H = G
      BY <1>5, <2>1
    <3> HIDE DEF H
    <3> QED
      BY <3>1
  <2>2. CASE inner.kind # "zip"
    <3>1. ClosedChain(H)
      BY <2>2, GrowClosed
    <3>2. FilesIn(H)
      BY DEF FilesIn
    <3> QED
      BY <3>1, <3>2
  <2> QED
    BY <2>1, <2>2
<1>7. Inside(H, i, inner)
  BY <1>3, <1>4 DEF Inside
<1> QED
  BY <1>2, <1>6, <1>7

LEMMA PackingIInv ==
    IInv /\ (WriteTmp \/ StopWriting \/ OpenZip \/ AddMembers \/ AddMissing \/ Interrupted) => IInv'
<1> SUFFICES ASSUME IInv,
                    \/ WriteTmp \/ StopWriting \/ OpenZip
                    \/ AddMembers \/ AddMissing \/ Interrupted
             PROVE  IInv'
  OBVIOUS
<1>1. /\ input \in Inputs /\ zip_count \in 0..MaxCount /\ MaxCount \in Nat
      /\ i \in 1..zip_count /\ i \in Level /\ i \in Nat
      /\ UNCHANGED <<input, zip_count>>
  BY CountAssumption
  DEF IInv, ProgramInv, WriteTmp, StopWriting, OpenZip, AddMembers, AddMissing, Interrupted, Level
<1>2. PICK G : ClosedChain(G) /\ FilesIn(G)
  BY DEF IInv, GoodFiles
<1>3. CASE WriteTmp
  <2>1. pc = "tmp" /\ pc' = "open" /\ i' = i /\ files' = Written(Tmp(i), Text(i))
    BY <1>3 DEF WriteTmp
  <2>2. GoodFiles'
    BY <1>1, <1>2, <2>1, GoodWritten, KindsDiffer
  <2>3. PackInv'
    BY <1>1, <2>1, WrittenFiles, NamesDiffer DEF IInv, PackInv
  <2> QED
    BY <1>1, <2>1, <2>2, <2>3 DEF IInv, ProgramInv
<1>4. CASE StopWriting
  <2>1. pc' = "idle" /\ files' = Written(Tmp(i), Broken)
    BY <1>4 DEF StopWriting
  <2>2. GoodFiles'
    BY <1>1, <1>2, <2>1, GoodWritten, KindsDiffer
  <2> QED
    BY <1>1, <2>1, <2>2 DEF IInv, ProgramInv, PackInv
<1>5. CASE OpenZip
  <2>1. pc = "open" /\ pc' = "add" /\ i' = i /\ files' = Written(Zip(i), Broken)
    BY <1>5 DEF OpenZip
  <2>2. GoodFiles'
    BY <1>1, <1>2, <2>1, GoodWritten, KindsDiffer
  <2>3. PackInv'
    <3>1. i > 1 => Zip(i - 1) # Zip(i)
      BY <1>1, NamesDiffer
    <3> QED
      BY <1>1, <2>1, <3>1, WrittenFiles, NamesDiffer DEF IInv, PackInv
  <2> QED
    BY <1>1, <2>1, <2>2, <2>3 DEF IInv, ProgramInv
<1>6. CASE AddMembers
  <2> DEFINE c == Archive(<<Packed, Member(Tmp(i), files[Tmp(i)])>>)
  <2>1. /\ pc = "add" /\ i' = i + 1
        /\ pc' = (IF i = zip_count THEN "idle" ELSE "tmp")
        /\ files' = Written(Zip(i), c)
        /\ Packed.content # Nothing
    BY <1>6 DEF AddMembers
  <2>2. files[Tmp(i)] = Text(i)
    BY <2>1 DEF IInv, PackInv
  <2>3. PICK inner, H : /\ ClosedChain(H) /\ FilesIn(H) /\ Inside(H, i, inner)
                        /\ Packed = Member(PackedName(i), inner)
    BY <1>2, <2>1, PackedIsInside
  <2>4. Links(H, i, c)
    BY <2>2, <2>3 DEF Links
  <2> HIDE DEF c
  <2>5. \A n \in Level : Zip(i) = Zip(n) => Links(H, n, c)
    BY <2>4, NamesDiffer
  <2>6. GoodFiles'
    BY <1>1, <2>1, <2>3, <2>5, GoodWritten
  <2>7. Full(i, c)
    BY <1>1, <2>4, LinkedContent
  <2>8. PackInv'
    <3>1. (i + 1) - 1 = i
      BY <1>1
    <3>2. Zip(i) \in Present' /\ files'[Zip(i)] = c
      BY <2>1, WrittenFiles
    <3> QED
      BY <2>1, <2>7, <3>1, <3>2 DEF PackInv
  <2>9. pc' # "idle" => i' \in 1..zip_count
    BY <1>1, <2>1
  <2> QED
    BY <1>1, <2>1, <2>6, <2>8, <2>9 DEF IInv, ProgramInv
<1>7. CASE AddMissing
  <2>1. pc' = "idle" /\ files' = Written(Zip(i), Archive(<<>>))
    BY <1>7 DEF AddMissing
  <2>2. \A n : Partial(G, n, Archive(<<>>))
    BY DEF Partial
  <2>3. GoodFiles'
    BY <1>1, <1>2, <2>1, <2>2, GoodWritten
  <2> QED
    BY <1>1, <2>1, <2>3 DEF IInv, ProgramInv, PackInv
<1>8. CASE Interrupted
  <2> DEFINE text == Member(Tmp(i), files[Tmp(i)])
  <2>1. pc = "add" /\ pc' = "idle" /\ Packed.content # Nothing
    BY <1>8 DEF Interrupted
  <2>2. PICK members \in {<<>>, <<CutOff(Packed)>>, <<Packed>>,
                          <<Packed, CutOff(text)>>, <<Packed, text>>} :
               files' = Written(Zip(i), Archive(members))
    BY <1>8 DEF Interrupted
  <2>3. PICK inner, H : /\ ClosedChain(H) /\ FilesIn(H) /\ Inside(H, i, inner)
                        /\ Packed = Member(PackedName(i), inner)
    BY <1>2, <2>1, PackedIsInside
  <2>4. /\ text = Member(Tmp(i), Text(i))
        /\ CutOff(Packed) = Member(PackedName(i), Broken)
        /\ CutOff(text) = Member(Tmp(i), Broken)
    BY <2>1, <2>3, KindsDiffer DEF IInv, PackInv, CutOff
  <2> DEFINE c == Archive(members)
  <2>5. Links(H, i, c) \/ Partial(H, i, c)
    BY <2>2, <2>3, <2>4 DEF Links, Partial
  <2> HIDE DEF c
  <2>6. \A n \in Level : Zip(i) = Zip(n) => Links(H, n, c) \/ Partial(H, n, c)
    BY <2>5, NamesDiffer
  <2>7. files' = Written(Zip(i), c)
    BY <2>2 DEF c
  <2>8. GoodFiles'
    BY <1>1, <2>3, <2>6, <2>7, GoodWritten
  <2> QED
    BY <1>1, <2>1, <2>8 DEF IInv, ProgramInv, PackInv
<1> QED
  BY <1>3, <1>4, <1>5, <1>6, <1>7, <1>8

\* What can be extracted from an archive of level n: what is in G, and members that were
\* cut off.
Extractable(G, n) ==
    G \cup {<<Tmp(n), Text(n)>>, <<PackedName(n), Broken>>, <<Tmp(n), Broken>>}

MembersOf(H, n, m) ==
    /\ DOMAIN m \subseteq {1, 2}
    /\ \A k \in DOMAIN m : /\ m[k].name \in {PackedName(n), Tmp(n)}
                          /\ <<m[k].name, m[k].content>> \in H

LEMMA ExtractableClosed ==
    ASSUME NEW G, ClosedChain(G), FilesIn(G), NEW n
    PROVE  ClosedChain(Extractable(G, n)) /\ FilesIn(Extractable(G, n))
<1> DEFINE G1 == G \cup {<<Tmp(n), Text(n)>>}
           G2 == G1 \cup {<<PackedName(n), Broken>>}
           G3 == G2 \cup {<<Tmp(n), Broken>>}
<1>1. Text(n).kind # "zip" /\ Broken.kind # "zip"
  BY KindsDiffer
<1>2. Extractable(G, n) = G3
  BY DEF Extractable
<1>3. G \subseteq G3
  OBVIOUS
<1>4. ClosedChain(G1)
  BY <1>1, GrowClosed
<1> HIDE DEF G1
<1>5. ClosedChain(G2)
  BY <1>1, <1>4, GrowClosed
<1> HIDE DEF G2
<1>6. ClosedChain(G3)
  BY <1>1, <1>5, GrowClosed
<1> QED
  BY <1>2, <1>3, <1>6 DEF FilesIn

OneMember(G, n, m, c) ==
    m = <<Member(PackedName(n), c)>> /\ <<PackedName(n), c>> \in Extractable(G, n)

TwoMembers(G, n, m, c, d) ==
    /\ m = <<Member(PackedName(n), c), Member(Tmp(n), d)>>
    /\ <<PackedName(n), c>> \in Extractable(G, n)
    /\ <<Tmp(n), d>> \in Extractable(G, n)

\* There are at most two members, and each has a name of the level.
LEMMA MembersShape ==
    ASSUME NEW G, NEW n, NEW m, MembersAre(G, n, m)
    PROVE  \/ m = <<>>
           \/ \E c : OneMember(G, n, m, c)
           \/ \E c, d : TwoMembers(G, n, m, c, d)
<1>1. \A inner : Inside(G, n, inner) => <<PackedName(n), inner>> \in Extractable(G, n)
  BY DEF Inside, Extractable
<1>2. /\ <<PackedName(n), Broken>> \in Extractable(G, n)
      /\ \A text \in {Broken, Text(n)} : <<Tmp(n), text>> \in Extractable(G, n)
  BY DEF Extractable
<1> QED
  BY <1>1, <1>2 DEF MembersAre, OneMember, TwoMembers

LEMMA MembersExtractable ==
    ASSUME NEW G, NEW n, NEW m, MembersAre(G, n, m)
    PROVE  MembersOf(Extractable(G, n), n, m)
<1>1. CASE m = <<>>
  BY <1>1 DEF MembersOf
<1>2. ASSUME NEW c, OneMember(G, n, m, c)
      PROVE  MembersOf(Extractable(G, n), n, m)
  <2>1. DOMAIN m = {1} /\ m[1] = Member(PackedName(n), c)
    BY <1>2 DEF OneMember
  <2>2. <<PackedName(n), c>> \in Extractable(G, n)
    BY <1>2 DEF OneMember
  <2> QED
    BY <2>1, <2>2, KindsDiffer DEF MembersOf
<1>3. ASSUME NEW c, NEW d, TwoMembers(G, n, m, c, d)
      PROVE  MembersOf(Extractable(G, n), n, m)
  <2>1. /\ DOMAIN m = {1, 2}
        /\ m[1] = Member(PackedName(n), c) /\ m[2] = Member(Tmp(n), d)
    BY <1>3 DEF TwoMembers
  <2>2. /\ <<PackedName(n), c>> \in Extractable(G, n)
        /\ <<Tmp(n), d>> \in Extractable(G, n)
    BY <1>3 DEF TwoMembers
  <2> QED
    BY <2>1, <2>2, KindsDiffer DEF MembersOf
<1> QED
  BY <1>1, <1>2, <1>3, MembersShape

\* The members of an archive on the disk.
LEMMA ArchiveMembers ==
    ASSUME NEW G, ClosedChain(G), FilesIn(G), NEW n \in Level, IsArchive(Zip(n))
    PROVE  MembersAre(G, n, files[Zip(n)].members)
BY GoodArchive, ChainMembers

LEMMA FirstMembers ==
    ASSUME NEW a, NEW b, NEW members, members = <<a>> \/ members = <<a, b>>,
           NEW k \in DOMAIN members
    PROVE  /\ k \in {1, 2}
           /\ DOMAIN SubSeq(members, 1, k) = 1..k
           /\ \A l \in 1..k : l \in DOMAIN members /\ SubSeq(members, 1, k)[l] = members[l]
<1>1. CASE members = <<a>>
  BY <1>1
<1>2. CASE members = <<a, b>>
  BY <1>2
<1> QED
  BY <1>1, <1>2

\* What a killed extraction has written: the members up to number k, which is broken.
LEMMA BrokenOff ==
    ASSUME NEW u, NEW k \in {1, 2}, DOMAIN u = 1..k,
           \A l \in 1..k : \E name, content : u[l] = Member(name, content),
           NEW written, written = [u EXCEPT ![k].content = Broken]
    PROVE  /\ DOMAIN written = 1..k
           /\ \A l \in 1..k : /\ written[l].name = u[l].name
                              /\ written[l].content = IF l = k THEN Broken ELSE u[l].content
<1>1. written = [u EXCEPT ![k] = [u[k] EXCEPT !.content = Broken]]
  OBVIOUS
<1>2. k \in 1..k
  OBVIOUS
<1>3. DOMAIN written = 1..k
  BY <1>1
<1>4. written[k] = [u[k] EXCEPT !.content = Broken]
  BY <1>1, <1>2
<1>5. \A l \in 1..k : l # k => written[l] = u[l]
  BY <1>1
<1>6. PICK name, content : u[k] = Member(name, content)
  BY <1>2
<1>7. u[k] = [name |-> name, content |-> content]
  BY <1>6 DEF Member
<1>8. written[k] = [name |-> name, content |-> Broken]
  BY <1>4, <1>7
<1>9. written[k].name = u[k].name /\ written[k].content = Broken
  BY <1>7, <1>8
<1> QED
  BY <1>3, <1>5, <1>9

LEMMA KilledMembers ==
    ASSUME NEW G, NEW n, NEW members, MembersAre(G, n, members), NEW k \in DOMAIN members
    PROVE  MembersOf(Extractable(G, n), n, [SubSeq(members, 1, k) EXCEPT ![k].content = Broken])
<1> DEFINE u == SubSeq(members, 1, k)
           written == [SubSeq(members, 1, k) EXCEPT ![k].content = Broken]
<1>1. /\ k \in {1, 2} /\ DOMAIN u = 1..k
      /\ \A l \in 1..k : /\ l \in DOMAIN members /\ u[l] = members[l]
                        /\ \E name, content : members[l] = Member(name, content)
  <2>1. CASE members = <<>>
    BY <2>1
  <2>2. ASSUME NEW c, OneMember(G, n, members, c)
        PROVE  /\ k \in {1, 2} /\ DOMAIN u = 1..k
               /\ \A l \in 1..k : /\ l \in DOMAIN members /\ u[l] = members[l]
                                 /\ \E name, content : members[l] = Member(name, content)
    <3>1. DOMAIN members = {1} /\ members[1] = Member(PackedName(n), c)
      BY <2>2 DEF OneMember
    <3>2. \A l \in DOMAIN members : \E name, content : members[l] = Member(name, content)
      BY <3>1
    <3> QED
      BY <2>2, <3>2, FirstMembers DEF OneMember
  <2>3. ASSUME NEW c, NEW d, TwoMembers(G, n, members, c, d)
        PROVE  /\ k \in {1, 2} /\ DOMAIN u = 1..k
               /\ \A l \in 1..k : /\ l \in DOMAIN members /\ u[l] = members[l]
                                 /\ \E name, content : members[l] = Member(name, content)
    <3>1. /\ DOMAIN members = {1, 2}
          /\ members[1] = Member(PackedName(n), c) /\ members[2] = Member(Tmp(n), d)
      BY <2>3 DEF TwoMembers
    <3>2. \A l \in DOMAIN members : \E name, content : members[l] = Member(name, content)
      BY <3>1
    <3> QED
      BY <2>3, <3>2, FirstMembers DEF TwoMembers
  <2> QED
    BY <2>1, <2>2, <2>3, MembersShape
<1>2. written = [u EXCEPT ![k].content = Broken]
  OBVIOUS
<1> HIDE DEF u, written
<1>3. /\ DOMAIN written = 1..k
      /\ \A l \in 1..k : /\ written[l].name = u[l].name
                        /\ written[l].content = IF l = k THEN Broken ELSE u[l].content
  <2>1. \A l \in 1..k : \E name, content : u[l] = Member(name, content)
    BY <1>1
  <2> QED
    BY <1>1, <1>2, <2>1, BrokenOff
<1>4. MembersOf(Extractable(G, n), n, members)
  BY MembersExtractable
<1>5. \A name \in {PackedName(n), Tmp(n)} : <<name, Broken>> \in Extractable(G, n)
  BY DEF Extractable
<1>6. ASSUME NEW l \in DOMAIN written
      PROVE  /\ written[l].name \in {PackedName(n), Tmp(n)}
             /\ <<written[l].name, written[l].content>> \in Extractable(G, n)
  <2>1. l \in DOMAIN members /\ written[l].name = members[l].name
    BY <1>1, <1>3
  <2>2. written[l].content = Broken \/ written[l].content = members[l].content
    BY <1>1, <1>3
  <2>3. /\ members[l].name \in {PackedName(n), Tmp(n)}
        /\ <<members[l].name, members[l].content>> \in Extractable(G, n)
    BY <1>4, <2>1 DEF MembersOf
  <2> QED
    BY <1>5, <2>1, <2>2, <2>3
<1>7. DOMAIN written \subseteq {1, 2}
  BY <1>1, <1>3
<1>8. MembersOf(Extractable(G, n), n, written)
  BY <1>6, <1>7 DEF MembersOf
<1> QED
  BY <1>8 DEF written

\* Whether it is killed or not, an extraction writes members of the archive of its level.
LEMMA UnpackedMembers ==
    ASSUME IInv, ExtractZip \/ KillExtracting, NEW G, ClosedChain(G), FilesIn(G)
    PROVE  \E m : MembersOf(Extractable(G, i), i, m) /\ files' = Extracted(m)
<1> DEFINE members == files[Zip(i)].members
<1>1. i \in Level /\ IsArchive(Zip(i))
  BY CountAssumption DEF IInv, ProgramInv, Level, ExtractZip, KillExtracting
<1>2. MembersAre(G, i, members)
  BY <1>1, ArchiveMembers
<1>3. CASE ExtractZip
  <2>1. files' = Extracted(members)
    BY <1>3 DEF ExtractZip
  <2> HIDE DEF members
  <2> QED
    BY <1>2, <2>1, MembersExtractable
<1>4. CASE KillExtracting
  <2>1. PICK k \in DOMAIN members :
           files' = Extracted([SubSeq(members, 1, k) EXCEPT ![k].content = Broken])
    BY <1>4 DEF KillExtracting
  <2> HIDE DEF members
  <2> QED
    BY <1>2, <2>1, KilledMembers
<1> QED
  BY <1>3, <1>4

LEMMA UnpackingIInv == IInv /\ (ExtractZip \/ SkipZip \/ KillExtracting) => IInv'
<1> SUFFICES ASSUME IInv, ExtractZip \/ SkipZip \/ KillExtracting PROVE IInv'
  OBVIOUS
<1>1. /\ input \in Inputs /\ zip_count \in 0..MaxCount /\ MaxCount \in Nat
      /\ i \in 1..zip_count /\ i \in Level /\ i \in Nat
      /\ UNCHANGED <<input, zip_count>>
  BY CountAssumption
  DEF IInv, ProgramInv, ExtractZip, SkipZip, KillExtracting, NextLevelDown, Level
<1>2. ProgramInv' /\ PackInv'
  <2>1. CASE ExtractZip \/ SkipZip
    <3>1. i' = i - 1 /\ pc' = (IF i = 1 THEN "idle" ELSE "extract")
      BY <2>1 DEF ExtractZip, SkipZip, NextLevelDown
    <3>2. i # 1 => i - 1 \in 1..zip_count
      BY <1>1
    <3> QED
      BY <1>1, <3>1, <3>2 DEF IInv, ProgramInv, PackInv
  <2>2. CASE KillExtracting
    BY <1>1, <2>2 DEF KillExtracting, IInv, ProgramInv, PackInv
  <2> QED
    BY <2>1, <2>2
<1>3. PICK G : ClosedChain(G) /\ FilesIn(G)
  BY DEF IInv, GoodFiles
<1>4. CASE ExtractZip \/ KillExtracting
  <2>1. PICK m : MembersOf(Extractable(G, i), i, m) /\ files' = Extracted(m)
    BY <1>3, <1>4, UnpackedMembers
  <2>2. ClosedChain(Extractable(G, i)) /\ FilesIn(Extractable(G, i))
    BY <1>3, ExtractableClosed
  <2>3. GoodFiles'
    BY <1>1, <2>1, <2>2, GoodExtracted DEF MembersOf
  <2> QED
    BY <1>2, <2>3 DEF IInv
<1>5. CASE SkipZip
  BY <1>1, <1>2, <1>5, GoodUnchanged DEF SkipZip, IInv
<1> QED
  BY <1>4, <1>5

LEMMA UserIInv == IInv /\ (RunZip \/ RunUnzip \/ Kill \/ TakeAway) => IInv'
<1> SUFFICES ASSUME IInv, RunZip \/ RunUnzip \/ Kill \/ TakeAway PROVE IInv'
  OBVIOUS
<1>1. MaxCount \in Nat /\ input' = input
  BY CountAssumption DEF RunZip, RunUnzip, Kill, TakeAway, Start
<1>2. ProgramInv' /\ PackInv'
  <2>1. CASE RunZip
    <3>1. PICK n \in Level : pc' = "tmp" /\ zip_count' = n /\ i' = 1
      BY <2>1 DEF RunZip, Start
    <3> QED
      BY <1>1, <3>1 DEF IInv, ProgramInv, PackInv, Level
  <2>2. CASE RunUnzip
    <3>1. PICK n \in Level : pc' = "extract" /\ zip_count' = n /\ i' = n
      BY <2>2 DEF RunUnzip, Start
    <3> QED
      BY <1>1, <3>1 DEF IInv, ProgramInv, PackInv, Level
  <2>3. CASE Kill \/ TakeAway
    <3>1. pc' = "idle" /\ zip_count' = zip_count
      BY <2>3 DEF Kill, TakeAway, UserActs
    <3> QED
      BY <1>1, <3>1 DEF IInv, ProgramInv, PackInv
  <2> QED
    BY <2>1, <2>2, <2>3
<1>3. GoodFiles'
  <2>1. CASE RunZip \/ RunUnzip \/ Kill
    <3>1. files' = files
      BY <2>1 DEF RunZip, RunUnzip, Start, Kill
    <3> QED
      BY <1>1, <3>1, GoodUnchanged DEF IInv
  <2>2. CASE TakeAway
    <3>1. PICK n \in Level : IsArchive(Zip(n)) /\ files' = [f \in {Zip(n)} |-> files[Zip(n)]]
      BY <2>2 DEF TakeAway
    <3>2. PICK G : ClosedChain(G) /\ FilesIn(G)
      BY DEF IInv, GoodFiles
    <3>3. ClosedChain(G)'
      BY <1>1, <3>2, SameChain
    <3>4. FilesIn(G)'
      BY <3>1, <3>2 DEF FilesIn, Present, IsArchive
    <3> QED
      BY <3>3, <3>4 DEF GoodFiles
  <2> QED
    BY <2>1, <2>2
<1> QED
  BY <1>2, <1>3 DEF IInv

LEMMA NextIInv == IInv /\ [Next]_vars => IInv'
<1>1. IInv /\ UNCHANGED vars => IInv'
  BY GoodUnchanged DEF IInv, ProgramInv, PackInv, Present, vars
<1> QED
  BY <1>1, PackingIInv, UnpackingIInv, UserIInv DEF Next

LEMMA IInvHolds == Spec => []IInv
BY InitIInv, NextIInv, PTL DEF Spec

-----------------------------------------------------------------------------
(* Theorems *)

\* However often the user runs and interrupts the program, by a kill or an exception, an
\* archive that can be opened lacks something at its outermost level at most: what is in
\* it is a whole chain down to a file, of one level less than its name says.
THEOREM EveryArchiveIsWhole == Spec => []ArchivesAreWhole
<1>1. IInv => ArchivesAreWhole
  <2> DEFINE Fine(n, m) ==
                 \/ m = <<>>
                 \/ Len(m) = 1 /\ m[1].content = Broken
                 \/ /\ Len(m) \in {1, 2}
                    /\ Whole(m[1].content, n - 1)
                    /\ Len(m) = 2 => \/ m[2] = Member(Tmp(n), Text(n))
                                     \/ m[2] = Member(Tmp(n), Broken)
  <2> SUFFICES ASSUME IInv, NEW n \in Level, IsArchive(Zip(n))
               PROVE  Fine(n, files[Zip(n)].members)
    BY DEF ArchivesAreWhole
  <2>1. PICK G : ClosedChain(G) /\ FilesIn(G)
    BY DEF IInv, GoodFiles
  <2>2. MembersAre(G, n, files[Zip(n)].members)
    BY <2>1, ArchiveMembers
  <2>3. ASSUME NEW m, MembersAre(G, n, m) PROVE Fine(n, m)
    <3>1. CASE m = <<>>
      BY <3>1
    <3>2. CASE m = <<Member(PackedName(n), Broken)>>
      <4>1. Len(m) = 1 /\ m[1] = Member(PackedName(n), Broken)
        BY <3>2
      <4> QED
        BY <4>1, KindsDiffer
    <3>3. ASSUME NEW inner, Inside(G, n, inner), m = <<Member(PackedName(n), inner)>>
          PROVE  Fine(n, m)
      <4>1. Len(m) = 1 /\ m[1] = Member(PackedName(n), inner)
        BY <3>3
      <4>2. Whole(inner, n - 1) /\ m[1].content = inner
        BY <2>1, <3>3, <4>1, InsideIsWhole, KindsDiffer
      <4> QED
        BY <4>1, <4>2
    <3>4. ASSUME NEW inner, Inside(G, n, inner), NEW text \in {Broken, Text(n)},
                 m = <<Member(PackedName(n), inner), Member(Tmp(n), text)>>
          PROVE  Fine(n, m)
      <4>1. /\ Len(m) = 2
            /\ m[1] = Member(PackedName(n), inner) /\ m[2] = Member(Tmp(n), text)
        BY <3>4
      <4>2. Whole(inner, n - 1) /\ m[1].content = inner
        BY <2>1, <3>4, <4>1, InsideIsWhole, KindsDiffer
      <4> QED
        BY <4>1, <4>2
    <3> HIDE DEF Fine
    <3> QED
      BY <2>3, <3>1, <3>2, <3>3, <3>4 DEF MembersAre
  <2> HIDE DEF Fine
  <2> QED
    BY <2>2, <2>3
<1> QED
  BY <1>1, IInvHolds, PTL

-----------------------------------------------------------------------------
(* What a packing finds at the bottom *)

Packing == pc \in {"tmp", "open", "add"}

\* What the first archive has inside.
Expected == IF input = [dir |-> "here", name |-> Tmp(1)] THEN Text(1) ELSE asked

\* The input is as it was asked for until it is packed, and the last archive that was
\* closed has it at its bottom.
KeepInv ==
    /\ pc = "tmp" /\ i = 1 => Source = asked
    /\ pc \in {"open", "add"} /\ i = 1 => Source = Expected
    /\ Packing /\ i > 1 => Innermost(files[Zip(i - 1)], i - 1) = Expected

LEMMA InputIs ==
    ASSUME input \in Inputs
    PROVE  /\ input.dir \in {"here", "elsewhere"} /\ input.name # Zip(1)
           /\ input = [dir |-> "here", name |-> Tmp(1)]
                 <=> input.dir = "here" /\ input.name = Tmp(1)
BY InputsAssumption

\* A file is written that is not the input.
LEMMA SourceKept ==
    ASSUME NEW name, NEW c, files' = Written(name, c), input' = input,
           input.dir = "elsewhere" \/ input.name # name
    PROVE  Source' = Source
BY WrittenFiles DEF Source

\* The archive that is closed has the input at its bottom.
LEMMA ClosedHasInput ==
    ASSUME IInv, KeepInv, AddMembers
    PROVE  /\ Zip(i) \in Present'
           /\ Innermost(files'[Zip(i)], i) = Expected
<1> DEFINE inner == IF i = 1 THEN Source ELSE files[Zip(i - 1)]
           c == Archive(<<Packed, Member(Tmp(i), files[Tmp(i)])>>)
<1>1. pc = "add" /\ files' = Written(Zip(i), c)
  BY DEF AddMembers
<1>2. i \in Nat /\ i - 1 \in Nat /\ (i - 1) + 1 = i /\ (i # 1 => i > 1)
  BY <1>1, CountAssumption DEF IInv, ProgramInv
<1>3. Peel(c) = inner
  <2>1. c.kind = "zip" /\ c.members = <<Packed, Member(Tmp(i), files[Tmp(i)])>>
    BY KindsDiffer
  <2>2. c.members # <<>> /\ c.members[1] = Packed
    BY <2>1
  <2>3. Packed.content = inner
    BY PackedIs, KindsDiffer
  <2> HIDE DEF c, inner
  <2> QED
    BY <2>1, <2>2, <2>3 DEF Peel
<1>4. Innermost(inner, i - 1) = Expected
  <2>1. CASE i = 1
    <3>1. Innermost(inner, 0) = inner /\ i - 1 = 0
      BY <2>1, InnermostNext
    <3> QED
      BY <1>1, <2>1, <3>1 DEF KeepInv
  <2>2. CASE i # 1
    BY <1>1, <1>2, <2>2 DEF KeepInv, Packing
  <2> QED
    BY <2>1, <2>2
<1> HIDE DEF c, inner
<1>5. Innermost(c, (i - 1) + 1) = Innermost(inner, i - 1)
  BY <1>2, <1>3, InnermostInside
<1>6. Zip(i) \in Present' /\ files'[Zip(i)] = c
  BY <1>1, WrittenFiles
<1> QED
  BY <1>2, <1>4, <1>5, <1>6

LEMMA InitKeepInv == Init => KeepInv
BY DEF Init, KeepInv, Packing

LEMMA NextKeepInv == IInv /\ KeepInv /\ [Next]_vars => KeepInv'
<1> SUFFICES ASSUME IInv, KeepInv, [Next]_vars PROVE KeepInv'
  OBVIOUS
<1>1. input \in Inputs
  BY DEF IInv, ProgramInv
<1>2. CASE WriteTmp
  <2>1. /\ pc = "tmp" /\ pc' = "open" /\ i' = i /\ input' = input /\ asked' = asked
        /\ files' = Written(Tmp(i), Text(i))
    BY <1>2 DEF WriteTmp
  <2>2. i = 1 => Source' = Expected
    <3>1. CASE input = [dir |-> "here", name |-> Tmp(1)]
      BY <1>1, <2>1, <3>1, InputIs, WrittenFiles DEF Source, Expected
    <3>2. CASE input # [dir |-> "here", name |-> Tmp(1)]
      <4>1. input.dir = "elsewhere" \/ input.name # Tmp(1)
        BY <1>1, <3>2, InputIs
      <4> QED
        BY <2>1, <3>2, <4>1, SourceKept DEF Expected, KeepInv
    <3> QED
      BY <3>1, <3>2
  <2>3. i > 1 => files'[Zip(i - 1)] = files[Zip(i - 1)]
    BY <2>1, WrittenFiles, NamesDiffer DEF IInv, PackInv
  <2>4. Expected' = Expected
    BY <2>1 DEF Expected
  <2> QED
    BY <2>1, <2>2, <2>3, <2>4 DEF KeepInv, Packing
<1>3. CASE OpenZip
  <2>1. /\ pc = "open" /\ pc' = "add" /\ i' = i /\ input' = input /\ asked' = asked
        /\ files' = Written(Zip(i), Broken)
    BY <1>3 DEF OpenZip
  <2>2. i = 1 => Source' = Source
    BY <1>1, <2>1, InputIs, SourceKept
  <2>3. i > 1 => files'[Zip(i - 1)] = files[Zip(i - 1)]
    <3>1. i \in Nat /\ i - 1 # i
      BY <2>1, CountAssumption DEF IInv, ProgramInv
    <3> QED
      BY <2>1, <3>1, WrittenFiles, NamesDiffer DEF IInv, PackInv
  <2>4. Expected' = Expected
    BY <2>1 DEF Expected
  <2> QED
    BY <2>1, <2>2, <2>3, <2>4 DEF KeepInv, Packing
<1>4. CASE AddMembers
  <2>1. /\ pc = "add" /\ i' = i + 1 /\ pc' \in {"idle", "tmp"}
        /\ input' = input /\ asked' = asked
    BY <1>4 DEF AddMembers
  <2>2. i \in 1..zip_count /\ zip_count \in 0..MaxCount /\ MaxCount \in Nat
    BY <2>1, CountAssumption DEF IInv, ProgramInv
  <2>3. i \in Nat /\ i' # 1 /\ i' - 1 = i
    BY <2>1, <2>2
  <2>4. Innermost(files'[Zip(i)], i) = Expected
    BY <1>4, ClosedHasInput
  <2>5. Expected' = Expected
    BY <2>1 DEF Expected
  <2> QED
    BY <2>1, <2>3, <2>4, <2>5 DEF KeepInv, Packing
<1>5. CASE RunZip
  <2>1. pc' = "tmp" /\ i' = 1 /\ asked' = Source /\ files' = files /\ input' = input
    BY <1>5 DEF RunZip, Start
  <2>2. Source' = Source
    BY <2>1 DEF Source, Present
  <2> QED
    BY <2>1, <2>2 DEF KeepInv, Packing
<1>6. CASE \/ RunUnzip \/ StopWriting \/ AddMissing \/ Interrupted
         \/ ExtractZip \/ SkipZip \/ Kill \/ KillExtracting \/ TakeAway
  <2>1. pc' \in {"idle", "extract"}
    BY <1>6 DEF RunUnzip, Start, StopWriting, AddMissing, Interrupted, ExtractZip, SkipZip,
                NextLevelDown, Kill, KillExtracting, TakeAway, UserActs
  <2> QED
    BY <2>1 DEF KeepInv, Packing
<1>7. CASE UNCHANGED vars
  BY <1>7 DEF vars, KeepInv, Packing, Source, Expected, Present
<1> QED
  BY <1>2, <1>3, <1>4, <1>5, <1>6, <1>7 DEF Next

\* What is found at the bottom of a chain that was packed to its end is what the input
\* held when the program was asked to pack it, wherever the input is and whatever the
\* program writes in between, save a tmp1.txt in the working directory.
THEOREM InputIsKept == Spec => PackingKeepsInput
<1>1. /\ IInv /\ KeepInv /\ [Next]_vars
      /\ pc = "add" /\ pc' = "idle" /\ i' = zip_count + 1
      => Innermost(files'[Zip(zip_count)], zip_count) = Expected
  <2> SUFFICES ASSUME IInv, KeepInv, [Next]_vars,
                      pc = "add", pc' = "idle", i' = zip_count + 1
               PROVE  Innermost(files'[Zip(zip_count)], zip_count) = Expected
    OBVIOUS
  <2>1. i \in 1..zip_count /\ zip_count \in Nat
    BY CountAssumption DEF IInv, ProgramInv
  <2>2. CASE AddMembers
    <3>1. i = zip_count
      BY <2>1, <2>2 DEF AddMembers
    <3> QED
      BY <2>2, <3>1, ClosedHasInput
  <2>3. CASE AddMissing \/ Interrupted \/ Kill \/ UNCHANGED vars
    BY <2>1, <2>3 DEF AddMissing, Interrupted, Kill, vars
  <2>4. ~(\/ RunZip \/ RunUnzip \/ WriteTmp \/ StopWriting \/ OpenZip
          \/ ExtractZip \/ SkipZip \/ KillExtracting \/ TakeAway)
    BY DEF RunZip, RunUnzip, Start, UserActs, WriteTmp, StopWriting, OpenZip, ExtractZip,
           SkipZip, KillExtracting, TakeAway
  <2> QED
    BY <2>2, <2>3, <2>4 DEF Next
<1>2. Spec => []KeepInv
  BY IInvHolds, InitKeepInv, NextKeepInv, PTL DEF Spec
<1> QED
  BY <1>1, <1>2, IInvHolds, PTL DEF Spec, PackingKeepsInput, Expected

-----------------------------------------------------------------------------
(* What an unpacking brings back *)

CarriedLevel == carried[1]

\* The input has not the name of tmp1.txt, of the carried archive or of one above it.
Apart == input.name \notin {Tmp(1)} \cup {Zip(n) : n \in CarriedLevel..MaxCount}

\* There is something at the bottom of the carried archive.
Filled == carried[2] # Nothing

\* At level n there is the chain that was carried, or what is left of it.
CarriedAt(n) ==
    /\ Zip(n) \in Present /\ files[Zip(n)].kind = "zip"
    /\ Innermost(files[Zip(n)], n) = carried[2]

\* The carried archive stays as it is and none appears above it.
StaysInv ==
    /\ CarriedAt(CarriedLevel)
    /\ \A n \in Level : n > CarriedLevel => Zip(n) \notin Present

CarryInv ==
    /\ CarriedLevel \in 0..MaxCount
    /\ Packing => CarriedLevel = 0
    /\ CarriedLevel > 0 /\ Apart /\ Filled
          => StaysInv /\ (pc = "extract" /\ zip_count = CarriedLevel => CarriedAt(i))

\* An extraction leaves the files alone that are no members.
LEMMA OthersStay ==
    ASSUME NEW members, DOMAIN members \subseteq {1, 2}, files' = Extracted(members),
           NEW f, \A k \in DOMAIN members : members[k].name # f
    PROVE  (f \in Present' <=> f \in Present) /\ (f \in Present => files'[f] = files[f])
<1>1. HoldsMembers(files', members)
  BY ExtractedAt
<1>2. Present' = DOMAIN files'
  BY DEF Present
<1> QED
  BY <1>1, <1>2 DEF HoldsMembers

\* Whether it is killed or not, an extraction writes no other files than those that were
\* packed at that level.
LEMMA OnlyPackedNames ==
    ASSUME IInv, ExtractZip \/ KillExtracting
    PROVE  \A f : f # PackedName(i) /\ f # Tmp(i) =>
               (f \in Present' <=> f \in Present) /\ (f \in Present => files'[f] = files[f])
<1>1. PICK G : ClosedChain(G) /\ FilesIn(G)
  BY DEF IInv, GoodFiles
<1>2. PICK m : MembersOf(Extractable(G, i), i, m) /\ files' = Extracted(m)
  BY <1>1, UnpackedMembers
<1>3. /\ DOMAIN m \subseteq {1, 2}
      /\ \A k \in DOMAIN m : m[k].name \in {PackedName(i), Tmp(i)}
  BY <1>2 DEF MembersOf
<1> QED
  BY <1>2, <1>3, OthersStay

\* A complete extraction of a carried level brings back what was packed there.
LEMMA BroughtBack ==
    ASSUME IInv, ExtractZip, CarriedAt(i), Filled, PackedName(i) # Tmp(i)
    PROVE  /\ PackedName(i) \in Present'
           /\ Innermost(files'[PackedName(i)], i - 1) = carried[2]
           /\ i > 1 => files'[PackedName(i)].kind = "zip"
<1> DEFINE c == files[Zip(i)]
           members == c.members
<1>1. /\ i \in Level /\ i \in Nat /\ i > 0
      /\ i - 1 \in Nat /\ (i - 1) + 1 = i /\ (i > 1 => i - 1 > 0)
  BY CountAssumption DEF IInv, ProgramInv, Level, ExtractZip
<1>2. IsArchive(Zip(i)) /\ files' = Extracted(members)
  BY DEF ExtractZip
<1>3. PICK G : ClosedChain(G) /\ FilesIn(G)
  BY DEF IInv, GoodFiles
<1>4. MembersAre(G, i, members)
  BY <1>1, <1>2, <1>3, ArchiveMembers
<1>5. Innermost(c, i) = carried[2] /\ c.kind = "zip" /\ members # <<>>
  <2>1. Innermost(c, i) = carried[2] /\ Innermost(c, i) # Nothing
    BY DEF CarriedAt, Filled
  <2> QED
    BY <1>1, <2>1, SomethingInside
<1>6. Peel(c) = members[1].content
  BY <1>5 DEF Peel
<1> HIDE DEF c, members
<1>7. Innermost(Peel(c), i - 1) = carried[2]
  <2>1. Innermost(c, (i - 1) + 1) = Innermost(Peel(c), i - 1)
    BY <1>1, InnermostInside
  <2> QED
    BY <1>1, <1>5, <2>1
<1>8. i > 1 => Peel(c).kind = "zip"
  BY <1>1, <1>7, SomethingInside DEF Filled
<1>9. /\ 1 \in DOMAIN members /\ DOMAIN members \subseteq {1, 2}
      /\ members[1].name = PackedName(i)
      /\ 2 \in DOMAIN members => members[2].name = Tmp(i)
  <2>1. ASSUME NEW a, OneMember(G, i, members, a)
        PROVE  DOMAIN members = {1} /\ members[1].name = PackedName(i)
    <3>1. DOMAIN members = {1} /\ members[1] = Member(PackedName(i), a)
      BY <2>1 DEF OneMember
    <3> QED
      BY <3>1, KindsDiffer
  <2>2. ASSUME NEW a, NEW b, TwoMembers(G, i, members, a, b)
        PROVE  /\ DOMAIN members = {1, 2} /\ members[1].name = PackedName(i)
               /\ members[2].name = Tmp(i)
    <3>1. /\ DOMAIN members = {1, 2}
          /\ members[1] = Member(PackedName(i), a) /\ members[2] = Member(Tmp(i), b)
      BY <2>2 DEF TwoMembers
    <3> QED
      BY <3>1, KindsDiffer
  <2> QED
    BY <1>4, <1>5, <2>1, <2>2, MembersShape
<1>10. PackedName(i) \in Present' /\ files'[PackedName(i)] = Peel(c)
  <2>1. HoldsMembers(files', members)
    BY <1>2, <1>9, ExtractedAt
  <2>2. PackedName(i) \in DOMAIN files'
    BY <1>9, <2>1 DEF HoldsMembers
  <2>3. \E k \in DOMAIN members : /\ members[k].name = PackedName(i)
                                 /\ files'[PackedName(i)] = members[k].content
    BY <1>9, <2>1, <2>2 DEF HoldsMembers
  <2> QED
    BY <1>6, <1>9, <2>2, <2>3 DEF Present
<1> QED
  BY <1>7, <1>8, <1>10

LEMMA InitCarryInv == Init => CarryInv
BY CountAssumption DEF Init, CarryInv, Packing, CarriedLevel

\* An unpacking, killed or not, leaves the carried archive and the names above it alone.
LEMMA UnpackingStays ==
    ASSUME IInv, CarryInv, CarriedLevel > 0, Apart, Filled, ExtractZip \/ KillExtracting
    PROVE  StaysInv'
<1>1. carried' = carried /\ pc = "extract" /\ IsArchive(Zip(i))
  BY DEF ExtractZip, KillExtracting, NextLevelDown
<1>2. i \in Level /\ i \in Nat /\ MaxCount \in Nat /\ CarriedLevel \in 1..MaxCount
  BY <1>1, CountAssumption DEF IInv, ProgramInv, Level, CarryInv
<1>3. StaysInv /\ i <= CarriedLevel
  BY <1>1, <1>2 DEF CarryInv, StaysInv, IsArchive
<1>4. ASSUME NEW n \in CarriedLevel..MaxCount
      PROVE  /\ Zip(n) \in Present' <=> Zip(n) \in Present
             /\ Zip(n) \in Present => files'[Zip(n)] = files[Zip(n)]
  <2>1. Zip(n) # Tmp(i)
    BY NamesDiffer
  <2>2. Zip(n) # input.name
    BY DEF Apart
  <2>3. i > 1 => Zip(n) # Zip(i - 1)
    <3>1. n # i - 1
      BY <1>2, <1>3
    <3> QED
      BY <3>1, NamesDiffer
  <2>4. Zip(n) # PackedName(i)
    BY <1>2, <2>2, <2>3 DEF PackedName, Level
  <2> QED
    BY <2>1, <2>4, OnlyPackedNames
<1>5. CarriedLevel' = CarriedLevel /\ CarriedLevel \in CarriedLevel..MaxCount
  BY <1>1, <1>2 DEF CarriedLevel
<1>6. CarriedAt(CarriedLevel)'
  BY <1>1, <1>3, <1>4, <1>5 DEF StaysInv, CarriedAt
<1>7. \A n \in Level : n > CarriedLevel => Zip(n) \notin Present'
  <2> SUFFICES ASSUME NEW n \in Level, n > CarriedLevel PROVE Zip(n) \notin Present'
    OBVIOUS
  <2>1. n \in CarriedLevel..MaxCount
    BY <1>2 DEF Level
  <2> QED
    BY <1>3, <1>4, <2>1 DEF StaysInv
<1> QED
  BY <1>5, <1>6, <1>7 DEF StaysInv

LEMMA NextCarryInv == IInv /\ CarryInv /\ [Next]_vars => CarryInv'
<1> SUFFICES ASSUME IInv, CarryInv, [Next]_vars PROVE CarryInv'
  OBVIOUS
<1>1. MaxCount \in Nat /\ CarriedLevel \in 0..MaxCount
  BY CountAssumption DEF CarryInv
<1>2. CASE RunZip
  <2>1. CarriedLevel' = 0
    BY <1>2 DEF RunZip, CarriedLevel
  <2> QED
    BY <1>1, <2>1 DEF CarryInv
<1>3. CASE WriteTmp \/ StopWriting \/ OpenZip \/ AddMembers \/ AddMissing \/ Interrupted
  <2>1. Packing /\ carried' = carried
    BY <1>3 DEF WriteTmp, StopWriting, OpenZip, AddMembers, AddMissing, Interrupted, Packing
  <2>2. CarriedLevel' = 0
    BY <2>1 DEF CarryInv, CarriedLevel
  <2> QED
    BY <1>1, <2>2 DEF CarryInv
<1>4. CASE RunUnzip
  <2>1. PICK n \in Level : pc' = "extract" /\ zip_count' = n /\ i' = n
    BY <1>4 DEF RunUnzip, Start
  <2>2. UNCHANGED <<files, input, carried>>
    BY <1>4 DEF RunUnzip, Start
  <2>3. /\ CarriedLevel' = CarriedLevel /\ Apart' = Apart /\ Filled' = Filled /\ StaysInv' = StaysInv
        /\ \A m : CarriedAt(m)' = CarriedAt(m)
    BY <2>2 DEF CarriedLevel, Apart, Filled, StaysInv, CarriedAt, Present
  <2>4. ~Packing'
    BY <2>1 DEF Packing
  <2>5. zip_count' = CarriedLevel /\ StaysInv => CarriedAt(i)'
    BY <2>1, <2>2 DEF StaysInv, CarriedAt, Present
  <2> QED
    BY <1>1, <2>3, <2>4, <2>5 DEF CarryInv
<1>5. CASE ExtractZip
  <2>1. /\ pc = "extract" /\ i' = i - 1 /\ pc' = (IF i = 1 THEN "idle" ELSE "extract")
        /\ UNCHANGED <<zip_count, input, carried>>
    BY <1>5 DEF ExtractZip, NextLevelDown
  <2>2. CarriedLevel' = CarriedLevel /\ Apart' = Apart /\ Filled' = Filled /\ ~Packing'
    BY <2>1 DEF CarriedLevel, Apart, Filled, Packing
  <2>3. CarriedLevel > 0 /\ Apart /\ Filled => StaysInv'
    BY <1>5, UnpackingStays
  <2>4. ASSUME CarriedLevel > 0, Apart, Filled, pc' = "extract", zip_count' = CarriedLevel'
        PROVE  CarriedAt(i)'
    <3>1. CarriedAt(i) /\ i # 1
      BY <2>1, <2>2, <2>4 DEF CarryInv
    <3>2. i > 1
      BY <2>1, <3>1, CountAssumption DEF IInv, ProgramInv
    <3>3. PackedName(i) = Zip(i - 1) /\ PackedName(i) # Tmp(i)
      BY <3>1, NamesDiffer DEF PackedName
    <3> QED
      BY <1>5, <2>1, <2>4, <3>1, <3>2, <3>3, BroughtBack DEF CarriedAt
  <2> QED
    BY <1>1, <2>2, <2>3, <2>4 DEF CarryInv
<1>6. CASE SkipZip
  <2>1. /\ pc = "extract" /\ ~IsArchive(Zip(i)) /\ pc' \in {"idle", "extract"}
        /\ UNCHANGED <<files, zip_count, input, carried>>
    BY <1>6 DEF SkipZip, NextLevelDown
  <2>2. CarriedLevel' = CarriedLevel /\ Apart' = Apart /\ Filled' = Filled /\ StaysInv' = StaysInv /\ ~Packing'
    BY <2>1 DEF CarriedLevel, Apart, Filled, StaysInv, CarriedAt, Packing, Present
  <2>3. CarriedLevel > 0 /\ Apart /\ Filled => zip_count # CarriedLevel
    BY <2>1 DEF CarryInv, CarriedAt, IsArchive
  <2> QED
    BY <1>1, <2>1, <2>2, <2>3 DEF CarryInv
<1>7. CASE Kill
  <2>1. pc' = "idle" /\ UNCHANGED <<files, input, carried>>
    BY <1>7 DEF Kill
  <2>2. CarriedLevel' = CarriedLevel /\ Apart' = Apart /\ Filled' = Filled /\ StaysInv' = StaysInv /\ ~Packing'
    BY <2>1 DEF CarriedLevel, Apart, Filled, StaysInv, CarriedAt, Packing, Present
  <2> QED
    BY <1>1, <2>1, <2>2 DEF CarryInv
<1>8. CASE KillExtracting
  <2>1. pc' = "idle" /\ UNCHANGED <<input, carried>>
    BY <1>8 DEF KillExtracting
  <2>2. CarriedLevel' = CarriedLevel /\ Apart' = Apart /\ Filled' = Filled /\ ~Packing'
    BY <2>1 DEF CarriedLevel, Apart, Filled, Packing
  <2>3. CarriedLevel > 0 /\ Apart /\ Filled => StaysInv'
    BY <1>8, UnpackingStays
  <2> QED
    BY <1>1, <2>1, <2>2, <2>3 DEF CarryInv
<1>9. CASE TakeAway
  <2>1. PICK n \in Level : /\ IsArchive(Zip(n))
                           /\ files' = [f \in {Zip(n)} |-> files[Zip(n)]]
                           /\ carried' = <<n, Innermost(files[Zip(n)], n)>>
    BY <1>9 DEF TakeAway
  <2>2. pc' = "idle"
    BY <1>9 DEF TakeAway, UserActs
  <2>3. /\ CarriedLevel' = n /\ CarriedLevel' \in 0..MaxCount
        /\ carried'[2] = Innermost(files[Zip(n)], n)
    BY <1>1, <2>1 DEF CarriedLevel, Level
  <2>4. Present' = {Zip(n)} /\ files'[Zip(n)] = files[Zip(n)]
    BY <2>1 DEF Present
  <2>5. CarriedAt(n)'
    BY <2>1, <2>3, <2>4 DEF CarriedAt, IsArchive
  <2>6. \A k \in Level : k > n => Zip(k) \notin Present'
    BY <2>4, NamesDiffer DEF Level
  <2>7. StaysInv'
    BY <2>3, <2>5, <2>6 DEF StaysInv, CarriedAt
  <2> QED
    BY <2>2, <2>3, <2>7 DEF CarryInv, Packing
<1>10. CASE UNCHANGED vars
  BY <1>10 DEF vars, CarryInv, Packing, CarriedLevel, Apart, Filled, StaysInv, CarriedAt, Present
<1> QED
  BY <1>2, <1>3, <1>4, <1>5, <1>6, <1>7, <1>8, <1>9, <1>10 DEF Next

\* An unpacking from the carried archive that goes through to its end brings back what
\* was packed at the bottom, whatever other runs came in between.
THEOREM UnpackingBringsBack == Spec => RoundTrip
<1>1. /\ IInv /\ CarryInv /\ [Next]_vars
      /\ pc = "extract" /\ pc' = "idle" /\ i' # i
      /\ zip_count = carried[1] /\ carried[2] # Nothing
      /\ input.name \notin {Tmp(1)} \cup {Zip(n) : n \in carried[1]..MaxCount}
      => files'[input.name] = carried[2]
  <2> SUFFICES ASSUME IInv, CarryInv, [Next]_vars,
                      pc = "extract", pc' = "idle", i' # i, zip_count = CarriedLevel,
                      Apart, Filled
               PROVE  files'[input.name] = carried[2]
    BY DEF CarriedLevel, Apart, Filled
  <2>1. i \in 1..zip_count /\ zip_count \in Nat /\ CarriedLevel > 0
    BY CountAssumption DEF IInv, ProgramInv
  <2>2. CarriedAt(i)
    BY <2>1 DEF CarryInv
  <2>3. CASE ExtractZip
    <3>1. i = 1
      BY <2>3 DEF ExtractZip, NextLevelDown
    <3>2. PackedName(i) = input.name /\ PackedName(i) # Tmp(i)
      BY <3>1 DEF PackedName, Apart
    <3>3. Innermost(files'[input.name], 0) = carried[2]
      BY <2>2, <2>3, <3>1, <3>2, BroughtBack
    <3> QED
      BY <3>3, InnermostNext
  <2>4. ~SkipZip
    BY <2>2 DEF SkipZip, IsArchive, CarriedAt
  <2>5. ~(Kill \/ KillExtracting \/ UNCHANGED vars)
    BY DEF Kill, KillExtracting, vars
  <2>6. ~(\/ RunZip \/ RunUnzip \/ TakeAway \/ WriteTmp \/ StopWriting \/ OpenZip
          \/ AddMembers \/ AddMissing \/ Interrupted)
    BY DEF RunZip, RunUnzip, Start, UserActs, TakeAway, WriteTmp, StopWriting, OpenZip,
           AddMembers, AddMissing, Interrupted
  <2> QED
    BY <2>3, <2>4, <2>5, <2>6 DEF Next
<1>2. Spec => []CarryInv
  BY IInvHolds, InitCarryInv, NextCarryInv, PTL DEF Spec
<1> QED
  BY <1>1, <1>2, IInvHolds, PTL DEF Spec, RoundTrip

=============================================================================
