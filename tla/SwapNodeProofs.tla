--------------------------- MODULE SwapNodeProofs ---------------------------
(***************************************************************************)
(* swapNode, called on any two nodes of any tree that callers who keep to  *)
(* the contract can build: for every set of keys, values and addresses it  *)
(* exchanges the two exactly if they are Swappable.                        *)
(***************************************************************************)
EXTENDS SwapNode, TreeContractProofs

-----------------------------------------------------------------------------
(* The memory after each of swapNode's assignments, field by field *)

\* The children's fields of n in h.
Kids(h, n) == {h[n].left, h[n].right}

\* h and g differ in the child pointers at most.
SameButChildren(h, g) ==
    /\ IsMemory(g) /\ DOMAIN g = DOMAIN h
    /\ \A x \in DOMAIN h : /\ g[x].key = h[x].key /\ g[x].value = h[x].value
                           /\ g[x].parent = h[x].parent /\ g[x].LeftOrRight = h[x].LeftOrRight

\* g is h with c in the field of p that a flag names.
Written(h, p, flag, c, g) ==
    /\ SameButChildren(h, g)
    /\ \A x \in DOMAIN h :
          /\ g[x].left = IF x = p /\ flag = 1 THEN c ELSE h[x].left
          /\ g[x].right = IF x = p /\ flag = 2 THEN c ELSE h[x].right

LEMMA SetField ==
    ASSUME NEW h, IsMemory(h), NEW p \in DOMAIN h, NEW flag \in {1, 2}, NEW c \in Ptr
    PROVE  Written(h, p, flag, c, [h EXCEPT ![p][Field(flag)] = c])
<1>1. CASE flag = 1
  BY <1>1 DEF Field, Written, SameButChildren, IsMemory, Node
<1>2. CASE flag = 2
  BY <1>2 DEF Field, Written, SameButChildren, IsMemory, Node
<1> QED
  BY <1>1, <1>2

\* What the child pointer that n's flag names holds.
Named(h, n) == IF h[n].LeftOrRight = 1 THEN h[h[n].parent].left ELSE h[h[n].parent].right

\* Two nodes with parents, and flags that say left or right.
Inner(h, a, b) ==
    /\ a \in DOMAIN h /\ b \in DOMAIN h /\ a # b
    /\ \A n \in {a, b} : h[n].parent \in DOMAIN h /\ h[n].LeftOrRight \in {1, 2}

LEMMA FieldRead ==
    ASSUME NEW h, NEW p, NEW flag \in {1, 2}
    PROVE  h[p][Field(flag)] = IF flag = 1 THEN h[p].left ELSE h[p].right
BY DEF Field

\* The parents' pointers: the second write is what is left of two to one field.
LEMMA ParentsSwappedIs ==
    ASSUME NEW h, IsMemory(h), NEW a, NEW b, Inner(h, a, b)
    PROVE  LET g == ParentsSwapped(h, a, b)
           IN  /\ SameButChildren(h, g)
               /\ \A x \in DOMAIN h :
                     /\ g[x].left = IF x = h[b].parent /\ h[b].LeftOrRight = 1 THEN Named(h, a)
                                    ELSE IF x = h[a].parent /\ h[a].LeftOrRight = 1 THEN Named(h, b)
                                    ELSE h[x].left
                     /\ g[x].right = IF x = h[b].parent /\ h[b].LeftOrRight = 2 THEN Named(h, a)
                                     ELSE IF x = h[a].parent /\ h[a].LeftOrRight = 2 THEN Named(h, b)
                                     ELSE h[x].right
<1> DEFINE pa == h[a].parent
           pb == h[b].parent
           la == h[a].LeftOrRight
           lb == h[b].LeftOrRight
           h2 == [h EXCEPT ![pa][Field(la)] = Named(h, b)]
           g  == [h2 EXCEPT ![pb][Field(lb)] = Named(h, a)]
<1>1. /\ pa \in DOMAIN h /\ pb \in DOMAIN h /\ la \in {1, 2} /\ lb \in {1, 2}
      /\ a \in DOMAIN h /\ b \in DOMAIN h
  BY DEF Inner
<1>2. FlagTested(h, a) = la
  BY <1>1 DEF FlagTested
<1>3. h = [h EXCEPT ![a].LeftOrRight = la]
  BY <1>1 DEF IsMemory, Node
<1>4. h[pa][Field(la)] = Named(h, a) /\ h[pb][Field(lb)] = Named(h, b)
  BY <1>1, FieldRead DEF Named
<1>5. ParentsSwapped(h, a, b) = g
  <2> DEFINE f  == Field(FlagTested(h, a))
             h1 == [h EXCEPT ![a].LeftOrRight = FlagTested(h, a)]
  <2>1. lb # 0
    BY <1>1
  <2>2. ParentsSwapped(h, a, b) =
          [[h1 EXCEPT ![pa][f] = h[pb][Field(lb)]] EXCEPT ![pb][Field(lb)] = h[pa][f]]
    BY <2>1 DEF ParentsSwapped
  <2>3. f = Field(la) /\ h1 = h
    BY <1>2, <1>3
  <2> HIDE DEF f, h1, la, lb, pa, pb
  <2> QED
    BY <1>4, <2>2, <2>3
<1>6. Named(h, a) \in Ptr /\ Named(h, b) \in Ptr
  BY <1>1 DEF Named, IsMemory, Node
<1>7. Written(h, pa, la, Named(h, b), h2)
  <2> HIDE DEF pa, la
  <2> QED
    BY <1>1, <1>6, SetField
<1>8. IsMemory(h2) /\ DOMAIN h2 = DOMAIN h
  BY <1>7 DEF Written, SameButChildren
<1>9. Written(h2, pb, lb, Named(h, a), g)
  <2>1. pb \in DOMAIN h2
    BY <1>1, <1>8
  <2> HIDE DEF pb, lb, h2
  <2> QED
    BY <1>1, <1>6, <1>8, <2>1, SetField
<1> HIDE DEF h2, g
<1>10. SameButChildren(h, g)
  BY <1>7, <1>8, <1>9 DEF Written, SameButChildren
<1>11. \A x \in DOMAIN h :
         /\ g[x].left = IF x = pb /\ lb = 1 THEN Named(h, a)
                         ELSE IF x = pa /\ la = 1 THEN Named(h, b) ELSE h[x].left
         /\ g[x].right = IF x = pb /\ lb = 2 THEN Named(h, a)
                          ELSE IF x = pa /\ la = 2 THEN Named(h, b) ELSE h[x].right
  BY <1>7, <1>8, <1>9 DEF Written
<1> QED
  BY <1>5, <1>10, <1>11

\* The nodes' own links.
LEMMA LinksSwappedIs ==
    ASSUME NEW h, IsMemory(h), NEW a \in DOMAIN h, NEW b \in DOMAIN h, a # b
    PROVE  LET g == LinksSwapped(h, a, b)
           IN  /\ IsMemory(g) /\ DOMAIN g = DOMAIN h
               /\ \A x \in DOMAIN h :
                     /\ g[x].key = h[x].key /\ g[x].value = h[x].value
                     /\ g[x].left = h[x].left /\ g[x].right = h[x].right
                     /\ g[x].parent = h[Renamed(x, a, b)].parent
                     /\ g[x].LeftOrRight = h[Renamed(x, a, b)].LeftOrRight
<1> DEFINE g == LinksSwapped(h, a, b)
           A == [h[a] EXCEPT !.parent = h[b].parent, !.LeftOrRight = h[b].LeftOrRight]
           B == [h[b] EXCEPT !.parent = h[a].parent, !.LeftOrRight = h[a].LeftOrRight]
<1>1. g = [x \in DOMAIN h |-> IF x = a THEN A ELSE IF x = b THEN B ELSE h[x]]
  <2>1. DOMAIN g = DOMAIN h
    BY DEF LinksSwapped
  <2>2. \A x \in DOMAIN h : g[x] = IF x = a THEN A ELSE IF x = b THEN B ELSE h[x]
    BY DEF LinksSwapped
  <2>3. g = [x \in DOMAIN g |-> g[x]]
    BY DEF LinksSwapped
  <2> QED
    BY <2>1, <2>2, <2>3
<1>2. \A x \in DOMAIN h : h[x] \in Node
  BY DEF IsMemory
<1>3. A \in Node /\ B \in Node
  BY <1>2 DEF Node
<1>4. /\ A.key = h[a].key /\ A.value = h[a].value /\ A.left = h[a].left /\ A.right = h[a].right
      /\ A.parent = h[b].parent /\ A.LeftOrRight = h[b].LeftOrRight
      /\ B.key = h[b].key /\ B.value = h[b].value /\ B.left = h[b].left /\ B.right = h[b].right
      /\ B.parent = h[a].parent /\ B.LeftOrRight = h[a].LeftOrRight
  BY <1>2 DEF Node
<1> HIDE DEF A, B, g
<1>5. IsMemory(g) /\ DOMAIN g = DOMAIN h
  BY <1>1, <1>2, <1>3 DEF IsMemory
<1>6. g[a] = A /\ g[b] = B /\ \A x \in DOMAIN h \ {a, b} : g[x] = h[x]
  BY <1>1
<1> QED
  BY <1>4, <1>5, <1>6 DEF g, Renamed

\* The children of n are given to p.
LEMMA AdoptedIs ==
    ASSUME NEW h, IsMemory(h), NEW n \in DOMAIN h, NEW p \in DOMAIN h
    PROVE  LET g == Adopted(h, n, p)
           IN  /\ IsMemory(g) /\ DOMAIN g = DOMAIN h
               /\ \A x \in DOMAIN h :
                     /\ g[x].key = h[x].key /\ g[x].value = h[x].value
                     /\ g[x].left = h[x].left /\ g[x].right = h[x].right
                     /\ g[x].LeftOrRight = h[x].LeftOrRight
                     /\ g[x].parent = IF x \in Kids(h, n) THEN p ELSE h[x].parent
BY DEF Adopted, Kids, IsMemory, Node, Ptr

\* The nodes' child pointers.
LEMMA SubtreesSwappedIs ==
    ASSUME NEW h, IsMemory(h), NEW a \in DOMAIN h, NEW b \in DOMAIN h, a # b
    PROVE  LET g == SubtreesSwapped(h, a, b)
           IN  /\ IsMemory(g) /\ DOMAIN g = DOMAIN h
               /\ \A x \in DOMAIN h :
                     /\ g[x].key = h[x].key /\ g[x].value = h[x].value
                     /\ g[x].left = h[Renamed(x, a, b)].left
                     /\ g[x].right = h[Renamed(x, a, b)].right
                     /\ g[x].LeftOrRight = h[x].LeftOrRight
                     /\ g[x].parent = h[x].parent
<1> DEFINE g == SubtreesSwapped(h, a, b)
           A == [h[a] EXCEPT !.left = h[b].left, !.right = h[b].right]
           B == [h[b] EXCEPT !.left = h[a].left, !.right = h[a].right]
<1>1. g = [x \in DOMAIN h |-> IF x = a THEN A ELSE IF x = b THEN B ELSE h[x]]
  <2>1. DOMAIN g = DOMAIN h
    BY DEF SubtreesSwapped
  <2>2. \A x \in DOMAIN h : g[x] = IF x = a THEN A ELSE IF x = b THEN B ELSE h[x]
    BY DEF SubtreesSwapped
  <2>3. g = [x \in DOMAIN g |-> g[x]]
    BY DEF SubtreesSwapped
  <2> QED
    BY <2>1, <2>2, <2>3
<1>2. \A x \in DOMAIN h : h[x] \in Node
  BY DEF IsMemory
<1>3. A \in Node /\ B \in Node
  BY <1>2 DEF Node
<1>4. /\ A.key = h[a].key /\ A.value = h[a].value /\ A.left = h[b].left /\ A.right = h[b].right
      /\ A.parent = h[a].parent /\ A.LeftOrRight = h[a].LeftOrRight
      /\ B.key = h[b].key /\ B.value = h[b].value /\ B.left = h[a].left /\ B.right = h[a].right
      /\ B.parent = h[b].parent /\ B.LeftOrRight = h[b].LeftOrRight
  BY <1>2 DEF Node
<1> HIDE DEF A, B, g
<1>5. IsMemory(g) /\ DOMAIN g = DOMAIN h
  BY <1>1, <1>2, <1>3 DEF IsMemory
<1>6. g[a] = A /\ g[b] = B /\ \A x \in DOMAIN h \ {a, b} : g[x] = h[x]
  BY <1>1
<1> QED
  BY <1>4, <1>5, <1>6 DEF g, Renamed

\* The parent that x is left with, if g is the memory after the first step.
Told(h, g, a, b, x) ==
    IF (LeafIn(g, a) \/ LeafIn(g, b)) /\ x \in Kids(g, b) THEN a
    ELSE IF x \in Kids(g, a) THEN b
    ELSE h[Renamed(x, a, b)].parent

\* All of swapNode, in terms of the pointers that its first step leaves.
LEMMA SwappedIs ==
    ASSUME NEW h, IsMemory(h), NEW a, NEW b, Inner(h, a, b),
           NEW g, g = ParentsSwapped(h, a, b)
    PROVE  LET s == Swapped(h, a, b)
           IN  /\ IsMemory(s) /\ DOMAIN s = DOMAIN h
               /\ \A x \in DOMAIN h :
                     /\ s[x].key = h[x].key /\ s[x].value = h[x].value
                     /\ s[x].left = g[Renamed(x, a, b)].left
                     /\ s[x].right = g[Renamed(x, a, b)].right
                     /\ s[x].LeftOrRight = h[Renamed(x, a, b)].LeftOrRight
                     /\ s[x].parent = Told(h, g, a, b, x)
<1> DEFINE l == LinksSwapped(g, a, b)
           c == Adopted(l, a, b)
           d == Adopted(c, b, a)
           t == ChildrenTold(l, a, b)
           s == Swapped(h, a, b)
<1>1. a \in DOMAIN h /\ b \in DOMAIN h /\ a # b
  BY DEF Inner
<1>2. \A x \in DOMAIN h : Renamed(x, a, b) \in DOMAIN h
  BY <1>1 DEF Renamed
<1>3. SameButChildren(h, g)
  BY ParentsSwappedIs
<1>4. IsMemory(g) /\ DOMAIN g = DOMAIN h
  BY <1>3 DEF SameButChildren
<1>5. /\ IsMemory(l) /\ DOMAIN l = DOMAIN h
      /\ \A x \in DOMAIN h :
            /\ l[x].key = h[x].key /\ l[x].value = h[x].value
            /\ l[x].left = g[x].left /\ l[x].right = g[x].right
            /\ l[x].parent = h[Renamed(x, a, b)].parent
            /\ l[x].LeftOrRight = h[Renamed(x, a, b)].LeftOrRight
  <2>1. /\ IsMemory(l) /\ DOMAIN l = DOMAIN g
        /\ \A x \in DOMAIN g :
              /\ l[x].key = g[x].key /\ l[x].value = g[x].value
              /\ l[x].left = g[x].left /\ l[x].right = g[x].right
              /\ l[x].parent = g[Renamed(x, a, b)].parent
              /\ l[x].LeftOrRight = g[Renamed(x, a, b)].LeftOrRight
    BY <1>1, <1>4, LinksSwappedIs
  <2> HIDE DEF l
  <2> QED
    BY <1>2, <1>3, <1>4, <2>1 DEF SameButChildren
<1>6. s = SubtreesSwapped(t, a, b)
  BY DEF Swapped
<1>7. t = IF ~LeafIn(l, a) /\ ~LeafIn(l, b) THEN c ELSE d
  BY DEF ChildrenTold
<1> HIDE DEF l
<1>8. /\ IsMemory(c) /\ DOMAIN c = DOMAIN h
      /\ \A x \in DOMAIN h :
            /\ c[x].key = l[x].key /\ c[x].value = l[x].value
            /\ c[x].left = l[x].left /\ c[x].right = l[x].right
            /\ c[x].LeftOrRight = l[x].LeftOrRight
            /\ c[x].parent = IF x \in Kids(l, a) THEN b ELSE l[x].parent
  BY <1>1, <1>5, AdoptedIs
<1> HIDE DEF c
<1>9. /\ IsMemory(d) /\ DOMAIN d = DOMAIN h
      /\ \A x \in DOMAIN h :
            /\ d[x].key = c[x].key /\ d[x].value = c[x].value
            /\ d[x].left = c[x].left /\ d[x].right = c[x].right
            /\ d[x].LeftOrRight = c[x].LeftOrRight
            /\ d[x].parent = IF x \in Kids(c, b) THEN a ELSE c[x].parent
  BY <1>1, <1>8, AdoptedIs
<1> HIDE DEF d, t
<1>10. LeafIn(l, a) = LeafIn(g, a) /\ LeafIn(l, b) = LeafIn(g, b)
  BY <1>1, <1>5 DEF LeafIn
<1>11. Kids(l, a) = Kids(g, a) /\ Kids(c, b) = Kids(g, b)
  BY <1>1, <1>5, <1>8 DEF Kids
<1>12. IsMemory(t) /\ DOMAIN t = DOMAIN h
  BY <1>7, <1>8, <1>9
<1>13. \A x \in DOMAIN h :
          /\ t[x].key = h[x].key /\ t[x].value = h[x].value
          /\ t[x].left = g[x].left /\ t[x].right = g[x].right
          /\ t[x].LeftOrRight = h[Renamed(x, a, b)].LeftOrRight
  BY <1>5, <1>7, <1>8, <1>9
<1>14. \A x \in DOMAIN h : t[x].parent = Told(h, g, a, b, x)
  BY <1>5, <1>7, <1>8, <1>9, <1>10, <1>11 DEF Told
<1>15. /\ IsMemory(s) /\ DOMAIN s = DOMAIN h
       /\ \A x \in DOMAIN h :
             /\ s[x].key = t[x].key /\ s[x].value = t[x].value
             /\ s[x].left = t[Renamed(x, a, b)].left
             /\ s[x].right = t[Renamed(x, a, b)].right
             /\ s[x].LeftOrRight = t[x].LeftOrRight
             /\ s[x].parent = t[x].parent
  BY <1>1, <1>6, <1>12, SubtreesSwappedIs
<1> HIDE DEF s
<1> QED
  BY <1>2, <1>13, <1>14, <1>15 DEF s

\* Memories are equal if they are field by field.
LEMMA SameMemory ==
    ASSUME NEW h, IsMemory(h), NEW g, IsMemory(g), DOMAIN g = DOMAIN h,
           \A x \in DOMAIN h :
              /\ g[x].key = h[x].key /\ g[x].value = h[x].value
              /\ g[x].left = h[x].left /\ g[x].right = h[x].right
              /\ g[x].parent = h[x].parent /\ g[x].LeftOrRight = h[x].LeftOrRight
    PROVE  g = h
<1>1. ASSUME NEW x \in DOMAIN h PROVE g[x] = h[x]
  <2>1. g[x] \in Node /\ h[x] \in Node
    BY DEF IsMemory
  <2> QED
    BY <2>1 DEF Node
<1>2. g = [x \in DOMAIN g |-> g[x]] /\ h = [x \in DOMAIN h |-> h[x]]
  BY DEF IsMemory
<1> QED
  BY <1>1, <1>2

\* The memory wanted, field by field.
LEMMA ExchangedIs ==
    ASSUME NEW h, IsMemory(h), NEW a \in DOMAIN h, NEW b \in DOMAIN h
    PROVE  LET e == Exchanged(h, a, b)
           IN  /\ IsMemory(e) /\ DOMAIN e = DOMAIN h
               /\ \A x \in DOMAIN h :
                     /\ e[x].key = h[x].key /\ e[x].value = h[x].value
                     /\ e[x].left = Renamed(h[Renamed(x, a, b)].left, a, b)
                     /\ e[x].right = Renamed(h[Renamed(x, a, b)].right, a, b)
                     /\ e[x].parent = Renamed(h[Renamed(x, a, b)].parent, a, b)
                     /\ e[x].LeftOrRight = h[Renamed(x, a, b)].LeftOrRight
BY DEF Exchanged, Renamed, IsMemory, Node, Ptr

-----------------------------------------------------------------------------
(* What that means for two nodes of a good tree *)

\* Where n is: in one field of its parent, and nowhere else.
Placed(h, n) ==
    LET p == h[n].parent
    IN  /\ p \in DOMAIN h /\ p # n
        /\ h[p].left = n \/ h[p].right = n
        /\ h[p].left # n \/ h[p].right # n
        /\ \A x \in DOMAIN h : n \in Kids(h, x) => x = p

LEMMA InnerIsPlaced ==
    ASSUME NEW h, IsMemory(h), Good(h), NEW n \in DOMAIN h, h[n].parent # NULL
    PROVE  n # RootNode /\ n # NULL /\ Placed(h, n)
<1>1. LinkedIn(h) /\ OrderedIn(h) /\ NULL \notin DOMAIN h
  BY AddrAssumption DEF Good, IsMemory
<1>2. n # RootNode /\ n # NULL
  BY <1>1 DEF LinkedIn
<1> DEFINE p == h[n].parent
<1>3. p \in DOMAIN h /\ (h[p].left = n \/ h[p].right = n) /\ (h[p].left # n \/ h[p].right # n)
  BY <1>1, <1>2 DEF LinkedIn
<1>4. \A x \in DOMAIN h : n \in Kids(h, x) => x = p
  BY <1>1, <1>2 DEF LinkedIn, Kids
<1>5. n \in Sub(h, n) /\ h[n].key \in Int
  BY SubIsClosed, KeyAssumption DEF IsMemory, Node
<1>6. p # n
  BY <1>1, <1>3, <1>5 DEF OrderedIn
<1> QED
  BY <1>2, <1>3, <1>4, <1>6 DEF Placed

\* Two nodes are not each other's children.
LEMMA NotMutual ==
    ASSUME NEW h, IsMemory(h), Good(h), NEW a \in DOMAIN h, NEW b \in DOMAIN h,
           Placed(h, a), Placed(h, b)
    PROVE  ~(h[a].parent = b /\ h[b].parent = a)
<1> SUFFICES ASSUME h[a].parent = b, h[b].parent = a PROVE FALSE
  OBVIOUS
<1>1. OrderedIn(h) /\ h[b].key \in Int
  BY KeyAssumption DEF Good, IsMemory, Node
<1>2. (h[b].left = a \/ h[b].right = a) /\ (h[a].left = b \/ h[a].right = b)
  BY DEF Placed
<1>3. b \in Sub(h, b) /\ Sub(h, b) \subseteq Sub(h, a)
  BY <1>2, SubIsClosed, SubByChildren
<1> QED
  BY <1>1, <1>2, <1>3 DEF OrderedIn

\* Two nodes of a good tree, with parents.
Pair(h, a, b) == IsMemory(h) /\ Good(h) /\ Inner(h, a, b) /\ Placed(h, a) /\ Placed(h, b)

\* The part of Swappable that is about flags.
FlagsServe(h, a, b) ==
    \/ FlagTrue(h, a) /\ FlagTrue(h, b)
    \/ ~FlagTrue(h, a) /\ ~FlagTrue(h, b) /\ h[a].parent = h[b].parent

\* For such flags the first step exchanges a and b wherever a child pointer leads to them.
LEMMA FlagsServeParents ==
    ASSUME NEW h, NEW a, NEW b, Pair(h, a, b), FlagsServe(h, a, b),
           NEW g, g = ParentsSwapped(h, a, b), NEW x \in DOMAIN h
    PROVE  g[x].left = Renamed(h[x].left, a, b) /\ g[x].right = Renamed(h[x].right, a, b)
<1> DEFINE pa == h[a].parent
           pb == h[b].parent
           la == h[a].LeftOrRight
           lb == h[b].LeftOrRight
<1>1. /\ g[x].left = IF x = pb /\ lb = 1 THEN Named(h, a)
                      ELSE IF x = pa /\ la = 1 THEN Named(h, b) ELSE h[x].left
      /\ g[x].right = IF x = pb /\ lb = 2 THEN Named(h, a)
                       ELSE IF x = pa /\ la = 2 THEN Named(h, b) ELSE h[x].right
  BY ParentsSwappedIs DEF Pair
<1>2. /\ a # b /\ la \in {1, 2} /\ lb \in {1, 2}
      /\ h[pa].left = a \/ h[pa].right = a
      /\ h[pa].left # a \/ h[pa].right # a
      /\ h[pb].left = b \/ h[pb].right = b
      /\ h[pb].left # b \/ h[pb].right # b
      /\ h[x].left = a \/ h[x].right = a => x = pa
      /\ h[x].left = b \/ h[x].right = b => x = pb
  BY DEF Pair, Inner, Placed, Kids
<1>3. /\ Named(h, a) = IF la = 1 THEN h[pa].left ELSE h[pa].right
      /\ Named(h, b) = IF lb = 1 THEN h[pb].left ELSE h[pb].right
  BY DEF Named
<1>4. /\ FlagTrue(h, a) <=> la = IF h[pa].left = a THEN 1 ELSE 2
      /\ FlagTrue(h, b) <=> lb = IF h[pb].left = b THEN 1 ELSE 2
  BY DEF FlagTrue
<1> HIDE DEF pa, pb, la, lb
<1>5. CASE FlagTrue(h, a) /\ FlagTrue(h, b)
  BY <1>1, <1>2, <1>3, <1>4, <1>5 DEF Renamed
<1>6. CASE ~FlagTrue(h, a) /\ ~FlagTrue(h, b) /\ pa = pb
  BY <1>1, <1>2, <1>3, <1>4, <1>6 DEF Renamed
<1> QED
  BY <1>5, <1>6 DEF FlagsServe, pa, pb

\* For other flags it leaves a or b where it was.
LEMMA FlagsMustServe ==
    ASSUME NEW h, NEW a, NEW b, Pair(h, a, b), Swapped(h, a, b) = Exchanged(h, a, b)
    PROVE  FlagsServe(h, a, b)
<1> DEFINE pa == h[a].parent
           pb == h[b].parent
           la == h[a].LeftOrRight
           lb == h[b].LeftOrRight
           g == ParentsSwapped(h, a, b)
<1>1. /\ a # b /\ a \in DOMAIN h /\ b \in DOMAIN h /\ la \in {1, 2} /\ lb \in {1, 2}
      /\ pa \in DOMAIN h /\ pb \in DOMAIN h /\ pa # a /\ pb # b
      /\ h[pa].left = a \/ h[pa].right = a
      /\ h[pa].left # a \/ h[pa].right # a
      /\ h[pb].left = b \/ h[pb].right = b
      /\ h[pb].left # b \/ h[pb].right # b
  BY DEF Pair, Inner, Placed
<1>2. ~(pa = b /\ pb = a)
  BY <1>1, NotMutual DEF Pair
<1>3. \A x \in DOMAIN h : x = Renamed(Renamed(x, a, b), a, b) /\ Renamed(x, a, b) \in DOMAIN h
  BY <1>1 DEF Renamed
<1>4. \A x \in DOMAIN h : /\ g[Renamed(x, a, b)].left = Renamed(h[Renamed(x, a, b)].left, a, b)
                          /\ g[Renamed(x, a, b)].right = Renamed(h[Renamed(x, a, b)].right, a, b)
  <2> DEFINE s == Swapped(h, a, b)
  <2>1. \A x \in DOMAIN h : /\ s[x].left = g[Renamed(x, a, b)].left
                            /\ s[x].right = g[Renamed(x, a, b)].right
    BY SwappedIs DEF Pair
  <2>2. \A x \in DOMAIN h : /\ s[x].left = Renamed(h[Renamed(x, a, b)].left, a, b)
                            /\ s[x].right = Renamed(h[Renamed(x, a, b)].right, a, b)
    BY <1>1, ExchangedIs DEF Pair
  <2> HIDE DEF s
  <2> QED
    BY <2>1, <2>2
<1>5. \A x \in DOMAIN h : /\ g[x].left = Renamed(h[x].left, a, b)
                          /\ g[x].right = Renamed(h[x].right, a, b)
  BY <1>3, <1>4
<1>6. \A x \in DOMAIN h :
         /\ g[x].left = IF x = pb /\ lb = 1 THEN Named(h, a)
                         ELSE IF x = pa /\ la = 1 THEN Named(h, b) ELSE h[x].left
         /\ g[x].right = IF x = pb /\ lb = 2 THEN Named(h, a)
                          ELSE IF x = pa /\ la = 2 THEN Named(h, b) ELSE h[x].right
  BY ParentsSwappedIs DEF Pair
<1>7. /\ FlagTrue(h, a) <=> la = IF h[pa].left = a THEN 1 ELSE 2
      /\ FlagTrue(h, b) <=> lb = IF h[pb].left = b THEN 1 ELSE 2
  BY DEF FlagTrue
<1> HIDE DEF pa, pb, la, lb, g
<1>8. ASSUME ~FlagTrue(h, a) PROVE ~FlagTrue(h, b) /\ pa = pb
  BY <1>1, <1>5, <1>6, <1>7, <1>8 DEF Renamed
<1>9. ASSUME ~FlagTrue(h, b) PROVE ~FlagTrue(h, a) /\ pa = pb
  BY <1>1, <1>5, <1>6, <1>7, <1>9 DEF Renamed
<1> QED
  BY <1>8, <1>9 DEF FlagsServe, pa, pb

\* The nodes whose parent changes are found by the child pointers as they are then.
LEMMA KidsRenamed ==
    ASSUME NEW h, NEW a, NEW b, Pair(h, a, b), FlagsServe(h, a, b),
           NEW g, g = ParentsSwapped(h, a, b), NEW n \in {a, b}
    PROVE  /\ LeafIn(g, n) <=> LeafIn(h, n)
           /\ \A x \in DOMAIN h : x \in Kids(g, n) <=> h[Renamed(x, a, b)].parent = n
<1>1. /\ a # b /\ a \in DOMAIN h /\ b \in DOMAIN h /\ n \in DOMAIN h
      /\ LinkedIn(h) /\ IsMemory(h) /\ NULL \notin DOMAIN h
  BY AddrAssumption DEF Pair, Inner, Good, IsMemory
<1>2. g[n].left = Renamed(h[n].left, a, b) /\ g[n].right = Renamed(h[n].right, a, b)
  BY <1>1, FlagsServeParents
<1>3. LeafIn(g, n) <=> LeafIn(h, n)
  BY <1>1, <1>2 DEF LeafIn, Renamed
<1>4. ASSUME NEW x \in DOMAIN h
      PROVE  x \in Kids(g, n) <=> h[Renamed(x, a, b)].parent = n
  <2> DEFINE y == Renamed(x, a, b)
  <2>1. y \in DOMAIN h
    BY <1>1 DEF Renamed
  <2>2. x \in Kids(g, n) <=> y \in Kids(h, n)
    BY <1>1, <1>2 DEF Kids, Renamed
  <2> HIDE DEF y
  <2>3. y \in Kids(h, n) => h[y].parent = n
    BY <1>1, <2>1 DEF LinkedIn, Kids
  <2>4. h[y].parent = n => y \in Kids(h, n)
    BY <1>1, <2>1 DEF LinkedIn, Kids
  <2> QED
    BY <2>2, <2>3, <2>4 DEF y
<1> QED
  BY <1>3, <1>4

\* If one node at least is a leaf, all children are told.
LEMMA SwappableIsExchanged ==
    ASSUME NEW h, NEW a, NEW b, Pair(h, a, b), FlagsServe(h, a, b), LeafIn(h, a) \/ LeafIn(h, b)
    PROVE  Swapped(h, a, b) = Exchanged(h, a, b)
<1> DEFINE g == ParentsSwapped(h, a, b)
           s == Swapped(h, a, b)
           e == Exchanged(h, a, b)
<1>1. a # b /\ a \in DOMAIN h /\ b \in DOMAIN h /\ IsMemory(h) /\ Inner(h, a, b)
  BY DEF Pair, Inner
<1>2. /\ IsMemory(s) /\ DOMAIN s = DOMAIN h
      /\ \A x \in DOMAIN h :
            /\ s[x].key = h[x].key /\ s[x].value = h[x].value
            /\ s[x].left = g[Renamed(x, a, b)].left
            /\ s[x].right = g[Renamed(x, a, b)].right
            /\ s[x].LeftOrRight = h[Renamed(x, a, b)].LeftOrRight
            /\ s[x].parent = Told(h, g, a, b, x)
  BY <1>1, SwappedIs
<1>3. /\ IsMemory(e) /\ DOMAIN e = DOMAIN h
      /\ \A x \in DOMAIN h :
            /\ e[x].key = h[x].key /\ e[x].value = h[x].value
            /\ e[x].left = Renamed(h[Renamed(x, a, b)].left, a, b)
            /\ e[x].right = Renamed(h[Renamed(x, a, b)].right, a, b)
            /\ e[x].parent = Renamed(h[Renamed(x, a, b)].parent, a, b)
            /\ e[x].LeftOrRight = h[Renamed(x, a, b)].LeftOrRight
  BY <1>1, ExchangedIs
<1>4. \A x \in DOMAIN h : Renamed(x, a, b) \in DOMAIN h
  BY <1>1 DEF Renamed
<1>5. \A x \in DOMAIN h : /\ g[x].left = Renamed(h[x].left, a, b)
                          /\ g[x].right = Renamed(h[x].right, a, b)
  BY FlagsServeParents
<1>6. LeafIn(g, a) \/ LeafIn(g, b)
  BY KidsRenamed
<1>7. \A x \in DOMAIN h : /\ x \in Kids(g, a) <=> h[Renamed(x, a, b)].parent = a
                          /\ x \in Kids(g, b) <=> h[Renamed(x, a, b)].parent = b
  BY KidsRenamed
<1> HIDE DEF g, s, e
<1>8. \A x \in DOMAIN h : s[x].parent = e[x].parent
  <2> SUFFICES ASSUME NEW x \in DOMAIN h
               PROVE  Told(h, g, a, b, x) = Renamed(h[Renamed(x, a, b)].parent, a, b)
    BY <1>2, <1>3
  <2> DEFINE q == h[Renamed(x, a, b)].parent
  <2>1. Told(h, g, a, b, x) = IF q = b THEN a ELSE IF q = a THEN b ELSE q
    BY <1>6, <1>7 DEF Told
  <2> HIDE DEF q
  <2>2. Renamed(q, a, b) = IF q = b THEN a ELSE IF q = a THEN b ELSE q
    BY <1>1 DEF Renamed
  <2> QED
    BY <2>1, <2>2 DEF q
<1>9. s = e
  BY <1>2, <1>3, <1>4, <1>5, <1>8, SameMemory
<1> QED
  BY <1>9 DEF s, e

\* If neither is, the children of b are not: they, or b below its child a, keep b as parent.
LEMMA ExchangedHasLeaf ==
    ASSUME NEW h, NEW a, NEW b, Pair(h, a, b), Swapped(h, a, b) = Exchanged(h, a, b)
    PROVE  LeafIn(h, a) \/ LeafIn(h, b)
<1> SUFFICES ASSUME ~LeafIn(h, a), ~LeafIn(h, b) PROVE FALSE
  OBVIOUS
<1> DEFINE g == ParentsSwapped(h, a, b)
<1>1. /\ a # b /\ a \in DOMAIN h /\ b \in DOMAIN h /\ IsMemory(h) /\ Inner(h, a, b)
      /\ LinkedIn(h)
  BY DEF Pair, Inner, Good
<1>2. FlagsServe(h, a, b)
  BY FlagsMustServe
<1>3. ~LeafIn(g, a) /\ ~LeafIn(g, b)
  BY <1>2, KidsRenamed
<1>4. \A x \in DOMAIN h : Told(h, g, a, b, x) = Renamed(h[Renamed(x, a, b)].parent, a, b)
  <2> DEFINE s == Swapped(h, a, b)
  <2>1. \A x \in DOMAIN h : s[x].parent = Told(h, g, a, b, x)
    BY <1>1, SwappedIs
  <2>2. \A x \in DOMAIN h : s[x].parent = Renamed(h[Renamed(x, a, b)].parent, a, b)
    BY <1>1, ExchangedIs
  <2> HIDE DEF s
  <2> QED
    BY <2>1, <2>2
<1> HIDE DEF g
<1>5. \A x \in DOMAIN h :
         Told(h, g, a, b, x) = IF x \in Kids(g, a) THEN b ELSE h[Renamed(x, a, b)].parent
  BY <1>3 DEF Told
<1>6. PICK c \in DOMAIN h : h[c].parent = b
  BY <1>1 DEF LeafIn, LinkedIn
<1>7. CASE c = a
  <2>1. Renamed(b, a, b) = a /\ Renamed(b, a, b) = c /\ Renamed(h[a].parent, a, b) = a
    BY <1>1, <1>6, <1>7 DEF Renamed
  <2> QED
    BY <1>1, <1>4, <1>5, <1>6, <1>7, <2>1
<1>8. CASE c # a
  <2>1. c # b
    BY <1>6 DEF Pair, Placed
  <2>2. Renamed(c, a, b) = c /\ Renamed(h[c].parent, a, b) = a
    BY <1>1, <1>6, <1>8, <2>1 DEF Renamed
  <2> QED
    BY <1>1, <1>4, <1>5, <1>6, <2>2
<1> QED
  BY <1>7, <1>8

-----------------------------------------------------------------------------
(* The inductive invariant *)

\* Nodes below the root say left or right, truly or not.
FlagsIn(h) == \A x \in DOMAIN h : x # RootNode => h[x].LeftOrRight \in {1, 2}

\* The flags of the nodes of h are those they have in heap.
SameFlags(h) == \A x \in DOMAIN h : x \in Live /\ h[x].LeftOrRight = heap[x].LeftOrRight

\* DeleteNode writes no flag.
LEMMA KeepsFlags ==
    ASSUME TypeOK, NEW h \in [Live -> Node], SameFlags(h), NEW p, NEW c, NEW k, NEW v, NEW n
    PROVE  /\ SameFlags([h EXCEPT ![p].left = c])
           /\ SameFlags([h EXCEPT ![p].right = c])
           /\ SameFlags([h EXCEPT ![p].parent = c])
           /\ SameFlags([h EXCEPT ![p].key = k, ![p].value = v])
           /\ SameFlags(Free(h, n))
<1>1. \A a \in Live : h[a] \in Node
  OBVIOUS
<1>2. /\ SameFlags([h EXCEPT ![p].left = c]) /\ SameFlags([h EXCEPT ![p].right = c])
      /\ SameFlags([h EXCEPT ![p].parent = c])
  BY <1>1 DEF SameFlags, Node
<1>3. SameFlags([h EXCEPT ![p].key = k, ![p].value = v])
  BY <1>1 DEF SameFlags, Node
<1>4. SameFlags(Free(h, n))
  BY DEF SameFlags, Free, Restrict
<1> QED
  BY <1>2, <1>3, <1>4

LEMMA WritesFlags ==
    TypeOK /\ TargetStays /\ Writes => SameFlags(heap') \/ InsertAttach
<1> SUFFICES ASSUME TypeOK, TargetStays, Writes, ~InsertAttach PROVE SameFlags(heap')
  OBVIOUS
<1>1. heap \in [Live -> Node] /\ SameFlags(heap) /\ NULL \in Ptr
  BY DEF TypeOK, SameFlags, Ptr, Live
<1>2. \A p \in Live, c \in Ptr :
          CurrentNode \in Live =>
          /\ Relinked(p, CurrentNode, c) \in [Live -> Node]
          /\ SameFlags(Relinked(p, CurrentNode, c))
  BY <1>1, KeepsFlags, RelinkedType DEF Relinked, TypeOK
<1>3. CASE DeleteLeaf
  <2> DEFINE h == Relinked(heap[CurrentNode].parent, CurrentNode, NULL)
  <2>1. CurrentNode \in Live /\ heap[CurrentNode].parent \in Live /\ heap' = Free(h, CurrentNode)
    BY <1>3 DEF DeleteLeaf, Located
  <2>2. h \in [Live -> Node] /\ SameFlags(h)
    BY <1>1, <1>2, <2>1
  <2> HIDE DEF h
  <2> QED
    BY <2>1, <2>2, KeepsFlags
<1>4. CASE DeleteWithLeftChild \/ DeleteWithRightChild
  <2> DEFINE p == heap[CurrentNode].parent
  <2>1. PICK c : Splice(c) /\ CurrentNode \in Live
    BY <1>4 DEF DeleteWithLeftChild, DeleteWithRightChild, Located
  <2>2. p \in Live /\ c \in Live /\ c \in Ptr /\ p \in Ptr
    BY <2>1 DEF Splice, TypeOK, Ptr, Live
  <2> DEFINE h == Relinked(p, CurrentNode, c)
             i == [h EXCEPT ![c].parent = p]
  <2>3. h \in [Live -> Node] /\ SameFlags(h)
    BY <1>2, <2>1, <2>2
  <2>4. heap' = Free(i, CurrentNode)
    BY <2>1 DEF Splice
  <2> HIDE DEF h, p
  <2>5. i \in [Live -> Node] /\ SameFlags(i)
    BY <2>2, <2>3, KeepsFlags DEF Node
  <2> HIDE DEF i
  <2> QED
    BY <2>4, <2>5, KeepsFlags
<1>5. CASE LeftMaxReplace
  <2> DEFINE max   == heap[leftMaxNode]
             moved == [heap EXCEPT ![CurrentNode].key = max.key,
                                   ![CurrentNode].value = max.value]
             h     == [moved EXCEPT ![max.parent].right = NULL]
  <2>1. leftMaxNode \in Live /\ max.parent \in Live /\ heap' = Free(h, leftMaxNode)
        /\ CurrentNode \in Live
    BY <1>5 DEF LeftMaxReplace, TargetStays
  <2>2. moved \in [Live -> Node] /\ SameFlags(moved)
    BY <1>1, <2>1, KeepsFlags, UnlinkType
  <2> HIDE DEF moved
  <2>3. h \in [Live -> Node] /\ SameFlags(h)
    BY <1>1, <2>1, <2>2, KeepsFlags, UnlinkType
  <2> HIDE DEF h
  <2> QED
    BY <2>1, <2>3, KeepsFlags
<1> QED
  BY <1>3, <1>4, <1>5 DEF Writes

LEMMA NextFlags ==
    ASSUME IInv, FlagsIn(heap), [Next]_vars
    PROVE  FlagsIn(heap') /\ RootNode' = RootNode
<1>1. RootNode' = RootNode
  BY DEF Next, Run, Deleting, Ended, vars, Caller, CallFind, CallDelete, CallInsert, Call,
         FindDescend, FindReturn, InsertDescend, InsertExisting, InsertAttach,
         DeleteAbsent, DeleteWithTwoChildren, LeftMaxDescend, Return, DeleteLeaf,
         DeleteWithLeftChild, DeleteWithRightChild, Splice, LeftMaxReplace,
         WalkFault, LeftMaxFault, ParentFault, ChildFault, Fault
<1>2. CASE InsertAttach
  <2>1. PICK a \in Addr \ Live : heap' = Attached(CurrentNode, a)
    BY <1>2 DEF InsertAttach
  <2>2. \A b \in Live : heap[b] \in Node
    BY DEF IInv, TypeOK
  <2>3. heap'[a].LeftOrRight \in {1, 2}
    BY <2>1 DEF Attached, BSTNode
  <2>4. \A b \in Live : heap'[b].LeftOrRight = heap[b].LeftOrRight
    BY <2>1, <2>2 DEF Attached, Node
  <2>5. DOMAIN heap' = Live \cup {a}
    BY <2>1 DEF Attached
  <2> QED
    BY <1>1, <2>3, <2>4, <2>5 DEF FlagsIn, Live
<1>3. CASE Writes /\ ~InsertAttach
  BY <1>1, <1>3, WritesFlags DEF IInv, FlagsIn, SameFlags, Live
<1>4. CASE ~Writes
  <2>1. heap' = heap
    BY <1>4
    DEF Next, Run, Deleting, Ended, vars, Caller, CallFind, CallDelete, CallInsert, Call, Writes,
        FindDescend, FindReturn, InsertDescend, InsertExisting,
        DeleteAbsent, DeleteWithTwoChildren, LeftMaxDescend, Return,
        WalkFault, LeftMaxFault, ParentFault, ChildFault, Fault
  <2> QED
    BY <1>1, <2>1 DEF FlagsIn
<1> QED
  BY <1>2, <1>3, <1>4

\* Until swapNode is called the tree is good and its flags say left or right; what is
\* then claimed is claimed for ever.
SwapInv ==
    /\ NodeA = NULL => ContractInv /\ FlagsIn(heap) /\ old = heap
    /\ SwapExchangesExactlySwappable

LEMMA CallIsRight ==
    ASSUME SwapInv, CallSwapNode
    PROVE  SwapInv'
<1>1. PICK a \in Live, b \in Live :
         /\ a # b /\ NodeA' = a /\ NodeB' = b
         /\ IF heap[a].parent = NULL
            THEN pc' = "crashed" /\ UNCHANGED heap
            ELSE pc' = "idle" /\ heap' = Swapped(heap, a, b)
  BY DEF CallSwapNode
<1>2. /\ NodeA = NULL /\ old' = old /\ old = heap /\ RootNode' = RootNode
      /\ ContractInv /\ FlagsIn(heap)
  BY DEF CallSwapNode, SwapInv
<1>3. IsMemory(heap) /\ Good(heap) /\ NULL \notin Live
  BY <1>2, HeapIsMemory, GoodIsWellFormed DEF ContractInv, IInv
<1>4. NodeA' # NULL
  BY <1>1, <1>3
<1>5. (pc' = "idle" /\ Exchange') <=> Swappable(heap, a, b)
  <2>1. CASE heap[a].parent = NULL
    BY <1>1, <2>1 DEF Swappable
  <2>2. CASE heap[a].parent # NULL /\ heap[b].parent = NULL
    <3>1. b = RootNode
      BY <1>3, <2>2 DEF Good, LinkedIn, Live
    <3>2. ~Exchange'
      BY <1>1, <1>2, <3>1 DEF Exchange, Renamed
    <3> QED
      BY <2>2, <3>2 DEF Swappable
  <2>3. CASE heap[a].parent # NULL /\ heap[b].parent # NULL
    <3>1. /\ a # RootNode /\ b # RootNode /\ Placed(heap, a) /\ Placed(heap, b)
      BY <1>1, <1>3, <2>3, InnerIsPlaced DEF Live
    <3>2. Pair(heap, a, b)
      BY <1>1, <1>2, <1>3, <3>1 DEF Pair, Inner, Placed, FlagsIn, Live
    <3>3. Swappable(heap, a, b) <=> FlagsServe(heap, a, b) /\ (LeafIn(heap, a) \/ LeafIn(heap, b))
      BY <2>3 DEF Swappable, FlagsServe
    <3>4. Swappable(heap, a, b) <=> Swapped(heap, a, b) = Exchanged(heap, a, b)
      BY <3>2, <3>3, FlagsMustServe, SwappableIsExchanged, ExchangedHasLeaf
    <3>5. Exchange' <=> Swapped(heap, a, b) = Exchanged(heap, a, b)
      BY <1>1, <1>2, <2>3, <3>1 DEF Exchange, Renamed
    <3> QED
      BY <1>1, <2>3, <3>4, <3>5
  <2> QED
    BY <2>1, <2>2, <2>3
<1> QED
  BY <1>1, <1>2, <1>4, <1>5 DEF SwapInv, SwapExchangesExactlySwappable

LEMMA InitSwapInv == SwapInit => SwapInv
<1> SUFFICES ASSUME SwapInit PROVE SwapInv
  OBVIOUS
<1>1. Init /\ NodeA = NULL /\ old = heap
  BY DEF SwapInit
<1>2. ContractInv
  BY <1>1, InitIInv, InitWalk, InitGood, GoodIsWellFormed DEF ContractInv, NoFault, Init
<1>3. FlagsIn(heap)
  BY <1>1 DEF Init, FlagsIn
<1> QED
  BY <1>1, <1>2, <1>3 DEF SwapInv, SwapExchangesExactlySwappable

LEMMA NextSwapInv == SwapInv /\ [SwapNext]_swapVars => SwapInv'
<1> SUFFICES ASSUME SwapInv, [SwapNext]_swapVars PROVE SwapInv'
  OBVIOUS
<1>1. CASE TreeStep
  <2>1. NodeA = NULL /\ NodeA' = NULL /\ ContractNext /\ old' = heap'
    BY <1>1 DEF TreeStep
  <2>2. ContractInv /\ FlagsIn(heap)
    BY <2>1 DEF SwapInv
  <2>3. ContractInv'
    BY <2>1, <2>2, ContractSteps
  <2>4. FlagsIn(heap') /\ RootNode' = RootNode
    BY <2>1, <2>2, NextFlags DEF ContractNext, ContractInv
  <2>5. FlagsIn(heap)'
    BY <2>4 DEF FlagsIn
  <2> QED
    BY <2>1, <2>3, <2>5 DEF SwapInv, SwapExchangesExactlySwappable
<1>2. CASE CallSwapNode
  BY <1>2, CallIsRight
<1>3. CASE UNCHANGED swapVars
  <2>1. /\ NodeA' = NodeA /\ NodeB' = NodeB /\ old' = old /\ heap' = heap /\ pc' = pc
        /\ RootNode' = RootNode
    BY <1>3 DEF swapVars, vars
  <2>2. SwapExchangesExactlySwappable'
    BY <2>1 DEF SwapInv, SwapExchangesExactlySwappable, Exchange
  <2>3. NodeA = NULL => ContractInv' /\ FlagsIn(heap)'
    <3> SUFFICES ASSUME NodeA = NULL PROVE ContractInv' /\ FlagsIn(heap)'
      OBVIOUS
    <3>1. UNCHANGED vars
      BY <1>3 DEF swapVars
    <3>2. ContractInv'
      BY <3>1, ContractSteps DEF SwapInv
    <3> QED
      BY <2>1, <3>2 DEF SwapInv, FlagsIn
  <2> QED
    BY <2>1, <2>2, <2>3 DEF SwapInv
<1> QED
  BY <1>1, <1>2, <1>3 DEF SwapNext, Stopped

\* swapNode exchanges the positions of its arguments exactly for the pairs of Swappable,
\* in every tree of every size, however the two are related.
THEOREM SwapIsExact == SwapSpec => []SwapExchangesExactlySwappable
<1>1. SwapInv => SwapExchangesExactlySwappable
  BY DEF SwapInv
<1> QED
  BY <1>1, InitSwapInv, NextSwapInv, PTL DEF SwapSpec

=============================================================================
