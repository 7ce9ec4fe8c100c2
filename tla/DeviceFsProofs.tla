---------------------------- MODULE DeviceFsProofs ----------------------------
(***************************************************************************)
(* Proofs about the device file system, for any names and drivers and any  *)
(* size of the heap.                                                       *)
(***************************************************************************)
EXTENDS DeviceFs, FiniteSetTheorems, SequenceTheorems,
        WellFoundedInduction, TLAPS

\* Block i of a list, and what is behind its last one.
Node(l, i) == IF i <= Len(l) THEN l[i] ELSE Null

\* l is the list that begins at head: its links lead from one block to the next
\* and no block is on it twice.
IsList(hp, head, l) ==
  /\ l \in Seq(Block)
  /\ \A i, j \in 1 .. Len(l) : l[i] = l[j] => i = j
  /\ head = Node(l, 1)
  /\ \A i \in 1 .. Len(l) : hp[l[i]].kind = "device" /\ hp[l[i]].prev = Node(l, i + 1)

\* A device whose call table and name are blocks of their own.
Sound(hp, us, b) ==
  /\ hp[b] = DfsEntry(hp[b].prev, hp[b].calltable, hp[b].name)
  /\ b \in us /\ hp[b].calltable \in us /\ hp[b].name \in us
  /\ \E d \in Driver : hp[hp[b].calltable] = CallTable(d)
  /\ \E n \in Name : hp[hp[b].name] = Label(n)

\* Every block in use is an open handle, a device of the list, or the call table
\* or the name of one device alone.
Owns(hp, us, op, l) ==
  /\ hp = [b \in Block |-> hp[b]] /\ us \subseteq Block /\ op \subseteq us
  /\ \A i \in 1 .. Len(l) : Sound(hp, us, l[i])
  /\ \A i, j \in 1 .. Len(l) :
       hp[l[i]].calltable = hp[l[j]].calltable \/ hp[l[i]].name = hp[l[j]].name => i = j
  /\ \A h \in op : hp[h] = VfsHandle
  /\ \A b \in us : b \in op \/ \E i \in 1 .. Len(l) :
                                 b \in {l[i], hp[l[i]].calltable, hp[l[i]].name}

Good(hp, us, head, op, l) == IsList(hp, head, l) /\ Owns(hp, us, op, l)

Inv == Good(heap, used, devHead, open, Devices(heap, devHead))

-------------------------------------------------------------------------------
(***************************************************************************)
(* Sequences.                                                              *)
(***************************************************************************)
Pushed(e, s)  == [j \in 1 .. Len(s) + 1 |-> IF j = 1 THEN e ELSE s[j - 1]]
Without(s, k) == [j \in 1 .. Len(s) - 1 |-> IF j < k THEN s[j] ELSE s[j + 1]]

\* A sequence with one more element in front.
LEMMA PushedIs ==
  ASSUME NEW S, NEW s \in Seq(S), NEW e \in S
  PROVE  /\ <<e>> \o s = Pushed(e, s) /\ Pushed(e, s) \in Seq(S)
         /\ Len(Pushed(e, s)) = Len(s) + 1
<1>1. <<e>> \o s \in Seq(S) /\ Len(<<e>> \o s) = Len(s) + 1
  OBVIOUS
<1>2. \A j \in 1 .. Len(s) + 1 : (<<e>> \o s)[j] = IF j = 1 THEN e ELSE s[j - 1]
  OBVIOUS
<1>3. <<e>> \o s = Pushed(e, s)
  BY <1>1, <1>2 DEF Pushed
<1>4. QED
  BY <1>1, <1>3

\* A sequence with one element taken out.
LEMMA WithoutIs ==
  ASSUME NEW S, NEW s \in Seq(S), NEW k \in 1 .. Len(s)
  PROVE  /\ SubSeq(s, 1, k - 1) \o SubSeq(s, k + 1, Len(s)) = Without(s, k)
         /\ Without(s, k) \in Seq(S) /\ Len(Without(s, k)) = Len(s) - 1
<1> DEFINE a == SubSeq(s, 1, k - 1)
           b == SubSeq(s, k + 1, Len(s))
<1>1. a \in Seq(S) /\ Len(a) = k - 1 /\ \A j \in 1 .. k - 1 : a[j] = s[j]
  OBVIOUS
<1>2. b \in Seq(S) /\ Len(b) = Len(s) - k /\ \A j \in 1 .. Len(s) - k : b[j] = s[k + j]
  OBVIOUS
<1> HIDE DEF a, b
<1>3. k \in Nat /\ Len(s) \in Nat /\ k <= Len(s) /\ k > 0
  OBVIOUS
<1>4. /\ a \o b \in Seq(S) /\ Len(a \o b) = Len(a) + Len(b)
      /\ \A j \in 1 .. Len(a) + Len(b) :
           (a \o b)[j] = IF j <= Len(a) THEN a[j] ELSE b[j - Len(a)]
  BY <1>1, <1>2, ConcatProperties
<1>5. Len(a) + Len(b) = Len(s) - 1
  BY <1>1, <1>2, <1>3
<1>6. \A j \in 1 .. Len(s) - 1 : (a \o b)[j] = IF j < k THEN s[j] ELSE s[j + 1]
  <2> TAKE j \in 1 .. Len(s) - 1
  <2>1. CASE j < k
    <3>1. j \in 1 .. k - 1 /\ j <= Len(a) /\ j \in 1 .. Len(a) + Len(b)
      BY <1>1, <1>3, <1>5, <2>1
    <3>2. QED
      BY <1>1, <1>4, <2>1, <3>1
  <2>2. CASE ~ (j < k)
    <3>1. /\ j - Len(a) \in 1 .. Len(s) - k /\ ~ (j <= Len(a)) /\ k + (j - Len(a)) = j + 1
          /\ j \in 1 .. Len(a) + Len(b)
      BY <1>1, <1>3, <1>5, <2>2
    <3>2. QED
      BY <1>2, <1>4, <2>2, <3>1
  <2>3. QED
    BY <2>1, <2>2
<1>7. Without(s, k) \in Seq(S) /\ Len(Without(s, k)) = Len(s) - 1
  BY <1>3 DEF Without
<1>8. \A j \in 1 .. Len(s) - 1 : Without(s, k)[j] = IF j < k THEN s[j] ELSE s[j + 1]
  BY DEF Without
<1>9. a \o b = Without(s, k)
  BY <1>4, <1>5, <1>6, <1>7, <1>8, SeqEqual
<1>10. QED
  BY <1>7, <1>9 DEF a, b

\* What is left of a sequence from an element on.
LEMMA SuffixIs ==
  ASSUME NEW S, NEW s \in Seq(S), NEW i \in 1 .. Len(s)
  PROVE  <<s[i]>> \o SubSeq(s, i + 1, Len(s)) = SubSeq(s, i, Len(s))
<1> DEFINE a == SubSeq(s, i + 1, Len(s))
           b == SubSeq(s, i, Len(s))
<1>1. a \in Seq(S) /\ Len(a) = Len(s) - i /\ \A j \in 1 .. Len(s) - i : a[j] = s[i + j]
  OBVIOUS
<1>2. /\ b \in Seq(S) /\ Len(b) = Len(s) - i + 1
      /\ \A j \in 1 .. Len(s) - i + 1 : b[j] = s[i + j - 1]
  OBVIOUS
<1> HIDE DEF a, b
<1>3. i \in Nat /\ Len(s) \in Nat /\ i > 0 /\ s[i] \in S
  OBVIOUS
<1>4. /\ <<s[i]>> \o a = Pushed(s[i], a) /\ Pushed(s[i], a) \in Seq(S)
      /\ Len(Pushed(s[i], a)) = Len(a) + 1
  BY <1>1, <1>3, PushedIs
<1>5. \A j \in 1 .. Len(a) + 1 : Pushed(s[i], a)[j] = b[j]
  <2> TAKE j \in 1 .. Len(a) + 1
  <2>1. j \in Nat /\ j <= Len(s) - i + 1 /\ j > 0
    BY <1>1, <1>3
  <2>2. b[j] = s[i + j - 1]
    BY <1>2, <1>3, <2>1
  <2>3. j # 1 => a[j - 1] = s[i + (j - 1)] /\ i + (j - 1) = i + j - 1
    BY <1>1, <1>3, <2>1
  <2>4. j = 1 => i + j - 1 = i
    BY <1>3
  <2>5. QED
    BY <2>2, <2>3, <2>4 DEF Pushed
<1>6. Len(b) = Len(a) + 1
  BY <1>1, <1>2, <1>3
<1>7. <<s[i]>> \o a = b
  <2>1. Pushed(s[i], a) = b
    BY <1>2, <1>4, <1>5, <1>6, SeqEqual
  <2>2. QED
    BY <1>4, <2>1
<1>8. QED
  BY <1>7 DEF a, b

-------------------------------------------------------------------------------
(***************************************************************************)
(* The loop that follows the links.  A recursive function is a choice among *)
(* those that satisfy its equation: one is shown to exist, extended number *)
(* by number, and what its value is.                                       *)
(***************************************************************************)
\* The least number principle, from the well-foundedness of strict inclusion
\* on finite sets.
LEMMA LeastNumber ==
  ASSUME NEW S \in SUBSET Nat, S # {}
  PROVE  \E m \in S : \A n \in S : m <= n
<1> PICK b \in S : TRUE
  OBVIOUS
<1> DEFINE U == 0 .. b
           R == StrictSubsetOrdering(U)
           T == {0 .. m : m \in {n \in S : n <= b}}
<1>1. FiniteSubsetsOf(U) = SUBSET U
  <2>1. IsFiniteSet(U)
    BY FS_Interval
  <2> HIDE DEF U
  <2>2. QED
    BY <2>1, FS_FiniteSubsetsOfFinite
<1>2. IsWellFoundedOn(R, FiniteSubsetsOf(U))
  BY FS_StrictSubsetOrderingWellFounded
<1>3. T \subseteq SUBSET U /\ 0 .. b \in T
  OBVIOUS
<1> HIDE DEF R, T
<1>4. PICK x \in T : \A y \in T : ~ (<<y, x>> \in R)
  <2> DEFINE F == SUBSET U
  <2>1. IsWellFoundedOn(R, F) /\ T \subseteq F /\ T # {}
    BY <1>1, <1>2, <1>3
  <2> HIDE DEF F
  <2>2. QED
    BY <2>1, WFMin
<1>5. PICK m \in S : m <= b /\ x = 0 .. m
  BY DEF T
<1>6. ASSUME NEW n \in S, n < m
      PROVE  FALSE
  <2>1. 0 .. n \in T /\ 0 .. n \subseteq x /\ 0 .. n # x
    BY <1>5, <1>6 DEF T
  <2>2. <<0 .. n, x>> \in R
    BY <1>3, <2>1 DEF R, StrictSubsetOrdering
  <2>3. QED
    BY <1>4, <2>1, <2>2
<1>7. QED
  BY <1>5, <1>6
\* Min is the least number of a set.
LEMMA MinIsLeast ==
  ASSUME NEW S \in SUBSET Nat, S # {}
  PROVE  Min(S) \in S /\ \A n \in S : Min(S) <= n
BY LeastNumber DEF Min

\* What the blocks give of a list, one link further than what p gives.
Row(hp, p) ==
  [b \in Block \union {Null} |->
     IF b = Null THEN <<>>
     ELSE <<b>> \o p[IF hp[b].kind = "device" THEN hp[b].prev ELSE Null]]

NoRow == [b \in Block \union {Null} |-> <<>>]

IsFrom(f, hp, n) ==
  f = [k \in 0 .. n |->
         [b \in Block \union {Null} |->
            IF k = 0 \/ b = Null THEN <<>>
            ELSE <<b>> \o f[k - 1][IF hp[b].kind = "device" THEN hp[b].prev ELSE Null]]]

\* What the equation says of each number.
LEMMA FromFacts ==
  ASSUME NEW hp, NEW n \in Nat, NEW f, IsFrom(f, hp, n)
  PROVE  f[0] = NoRow /\ \A k \in 1 .. n : f[k] = Row(hp, f[k - 1])
<1> DEFINE g == [k \in 0 .. n |->
         [b \in Block \union {Null} |->
            IF k = 0 \/ b = Null THEN <<>>
            ELSE <<b>> \o f[k - 1][IF hp[b].kind = "device" THEN hp[b].prev ELSE Null]]]
<1>1. f = g
  BY DEF IsFrom
<1>2. g[0] = NoRow
  BY DEF NoRow
<1>3. ASSUME NEW k \in 1 .. n PROVE g[k] = Row(hp, f[k - 1])
  <2>1. k \in 0 .. n /\ k # 0
    OBVIOUS
  <2>2. g[k] = [b \in Block \union {Null} |->
            IF k = 0 \/ b = Null THEN <<>>
            ELSE <<b>> \o f[k - 1][IF hp[b].kind = "device" THEN hp[b].prev ELSE Null]]
    BY <2>1
  <2> HIDE DEF g
  <2>3. QED
    BY <2>1, <2>2 DEF Row
<1> HIDE DEF g
<1>4. QED
  BY <1>1, <1>2, <1>3

\* And the other way.
LEMMA FactsFrom ==
  ASSUME NEW hp, NEW n \in Nat, NEW f, f = [k \in 0 .. n |-> f[k]],
         f[0] = NoRow, \A k \in 1 .. n : f[k] = Row(hp, f[k - 1])
  PROVE  IsFrom(f, hp, n)
<1> DEFINE G(k) == [b \in Block \union {Null} |->
            IF k = 0 \/ b = Null THEN <<>>
            ELSE <<b>> \o f[k - 1][IF hp[b].kind = "device" THEN hp[b].prev ELSE Null]]
<1>1. G(0) = NoRow
  BY DEF NoRow
<1>2. ASSUME NEW k \in 1 .. n PROVE G(k) = Row(hp, f[k - 1])
  BY DEF Row
<1>3. \A k \in 0 .. n : f[k] = G(k)
  <2> HIDE DEF G
  <2>1. QED
    BY <1>1, <1>2
<1>4. f = [k \in 0 .. n |-> G(k)]
  <2> HIDE DEF G
  <2>1. [k \in 0 .. n |-> f[k]] = [k \in 0 .. n |-> G(k)]
    BY <1>3
  <2>2. QED
    BY <2>1
<1>5. QED
  BY <1>4 DEF IsFrom

\* The function exists, whatever the length.
LEMMA FromExists == ASSUME NEW hp, NEW n \in Nat PROVE \E f : IsFrom(f, hp, n)
<1> DEFINE B == {k \in Nat : ~ \E f : IsFrom(f, hp, k)}
<1>1. SUFFICES ASSUME B # {} PROVE FALSE
  OBVIOUS
<1>2. PICK m \in B : \A k \in B : m <= k
  <2> HIDE DEF B
  <2>1. B \in SUBSET Nat
    BY DEF B
  <2>2. QED
    BY <1>1, <2>1, LeastNumber
<1>3. m # 0
  <2> DEFINE f == [k \in 0 .. 0 |-> NoRow]
  <2>1. f[0] = NoRow /\ f = [k \in 0 .. 0 |-> f[k]] /\ 1 .. 0 = {} /\ 0 \in Nat
    OBVIOUS
  <2> HIDE DEF f
  <2>2. IsFrom(f, hp, 0)
    BY <2>1, FactsFrom
  <2>3. QED
    BY <2>2
<1>4. m - 1 \in Nat /\ m - 1 \notin B
  BY <1>2, <1>3
<1>5. PICK f : IsFrom(f, hp, m - 1)
  BY <1>4
<1>6. f[0] = NoRow /\ \A k \in 1 .. m - 1 : f[k] = Row(hp, f[k - 1])
  BY <1>4, <1>5, FromFacts
<1> DEFINE g == [k \in 0 .. m |-> IF k = m THEN Row(hp, f[m - 1]) ELSE f[k]]
<1>7. g[0] = NoRow
  BY <1>3, <1>6
<1>8. \A k \in 1 .. m - 1 : g[k] = f[k] /\ g[k - 1] = f[k - 1]
  OBVIOUS
<1>9. g[m] = Row(hp, f[m - 1]) /\ g[m - 1] = f[m - 1] /\ g = [k \in 0 .. m |-> g[k]]
  BY <1>3
<1> HIDE DEF g
<1>10. \A k \in 1 .. m : g[k] = Row(hp, g[k - 1])
  <2>1. \A k \in 1 .. m : k = m \/ k \in 1 .. m - 1
    BY <1>4
  <2> DEFINE R(p) == Row(hp, p)
  <2>2. /\ \A k \in 1 .. m - 1 : f[k] = R(f[k - 1])
        /\ g[m] = R(f[m - 1])
    BY <1>6, <1>9
  <2> HIDE DEF R
  <2>3. \A k \in 1 .. m : g[k] = R(g[k - 1])
    BY <1>8, <1>9, <2>1, <2>2
  <2>4. QED
    BY <2>3 DEF R
<1>11. m \in Nat
  BY <1>2
<1>12. IsFrom(g, hp, m)
  BY <1>7, <1>9, <1>10, <1>11, FactsFrom
<1>13. QED
  BY <1>2, <1>12

\* Block numbers begin behind the null pointer.
LEMMA BlockFacts ==
  /\ MaxBlocks \in Nat /\ Block \in SUBSET Nat /\ Null \notin Block
  /\ \A b \in Block : b # Null
BY HeapAssumption DEF Block, Null

\* The blocks of a list.
LEMMA ListFacts ==
  ASSUME NEW hp, NEW head, NEW l, IsList(hp, head, l)
  PROVE  l \in Seq(Block) /\ Len(l) \in Nat /\ \A j \in 1 .. Len(l) : l[j] \in Block
<1>1. l \in Seq(Block)
  BY DEF IsList
<1> HIDE DEF IsList
<1>2. QED
  BY <1>1, LenProperties, ElementOfSeq

\* The values of a row.
LEMMA RowFacts ==
  /\ NoRow[Null] = <<>>
  /\ \A hp, p : Row(hp, p)[Null] = <<>>
  /\ \A hp, p : \A b \in Block :
       hp[b].kind = "device" => Row(hp, p)[b] = <<b>> \o p[hp[b].prev]
<1>1. NoRow[Null] = <<>> /\ \A hp, p : Row(hp, p)[Null] = <<>>
  BY DEF NoRow, Row
<1>2. ASSUME NEW hp, NEW p, NEW b \in Block, hp[b].kind = "device"
      PROVE  Row(hp, p)[b] = <<b>> \o p[hp[b].prev]
  BY <1>2, BlockFacts DEF Row
<1>3. QED
  BY <1>1, <1>2

\* Its value at a block of a list is what is left of the list from there.
LEMMA FromSuffix ==
  ASSUME NEW hp, NEW head, NEW l, IsList(hp, head, l),
         NEW n \in Nat, NEW f, IsFrom(f, hp, n)
  PROVE  \A k \in 0 .. n : \A i \in 1 .. Len(l) + 1 :
           Len(l) + 1 - i <= k => f[k][Node(l, i)] = SubSeq(l, i, Len(l))
<1> DEFINE B == {k \in 0 .. n : \E i \in 1 .. Len(l) + 1 :
                   Len(l) + 1 - i <= k /\ f[k][Node(l, i)] # SubSeq(l, i, Len(l))}
<1>1. SUFFICES ASSUME B # {} PROVE FALSE
  OBVIOUS
<1>2. PICK k \in B : \A j \in B : k <= j
  <2> HIDE DEF B
  <2>1. B \in SUBSET Nat
    BY DEF B
  <2>2. QED
    BY <1>1, <2>1, LeastNumber
<1>3. PICK i \in 1 .. Len(l) + 1 :
        Len(l) + 1 - i <= k /\ f[k][Node(l, i)] # SubSeq(l, i, Len(l))
  BY <1>2
<1>4. f[0] = NoRow /\ \A j \in 1 .. n : f[j] = Row(hp, f[j - 1])
  BY FromFacts
<1>5. l \in Seq(Block) /\ Len(l) \in Nat /\ \A j \in 1 .. Len(l) : l[j] \in Block
  BY ListFacts
<1>6. CASE i = Len(l) + 1
  <2>1. Node(l, i) = Null /\ SubSeq(l, i, Len(l)) = <<>>
    BY <1>5, <1>6 DEF Node
  <2>2. f[k][Null] = <<>>
    <3>1. k = 0 \/ k \in 1 .. n
      BY <1>2
    <3>2. QED
      BY <1>4, <3>1, RowFacts
  <2>3. QED
    BY <1>3, <2>1, <2>2
<1>7. CASE i # Len(l) + 1
  <2>1. i \in 1 .. Len(l) /\ i + 1 \in 1 .. Len(l) + 1 /\ i \in Nat
    BY <1>5, <1>7
  <2>2. k \in 1 .. n /\ k - 1 \in 0 .. n /\ Len(l) + 1 - (i + 1) <= k - 1 /\ k - 1 \notin B
    <3>1. k \in Nat /\ k <= n /\ i <= Len(l)
      BY <1>2, <1>5, <2>1
    <3>2. k # 0
      BY <1>3, <1>5, <2>1, <3>1
    <3>3. k \in 1 .. n /\ k - 1 \in 0 .. n /\ k - 1 < k
      BY <3>1, <3>2
    <3>4. Len(l) + 1 - (i + 1) <= k - 1
      BY <1>3, <1>5, <2>1, <3>1
    <3>5. k - 1 \notin B
      <4> HIDE DEF B
      <4>1. QED
        BY <1>2, <3>1, <3>3
    <3>6. QED
      BY <3>3, <3>4, <3>5
  <2>3. f[k - 1][Node(l, i + 1)] = SubSeq(l, i + 1, Len(l))
    BY <2>1, <2>2
  <2>4. Node(l, i) = l[i] /\ hp[l[i]].kind = "device" /\ hp[l[i]].prev = Node(l, i + 1)
    BY <2>1 DEF Node, IsList
  <2>5. f[k][l[i]] = <<l[i]>> \o f[k - 1][Node(l, i + 1)]
    <3>1. l[i] \in Block /\ f[k] = Row(hp, f[k - 1])
      BY <1>4, <1>5, <2>1, <2>2
    <3>2. Row(hp, f[k - 1])[l[i]] = <<l[i]>> \o f[k - 1][hp[l[i]].prev]
      BY <2>4, <3>1, RowFacts
    <3>3. QED
      BY <2>4, <3>1, <3>2
  <2>6. <<l[i]>> \o SubSeq(l, i + 1, Len(l)) = SubSeq(l, i, Len(l))
    BY <1>5, <2>1, SuffixIs
  <2>7. QED
    BY <1>3, <2>3, <2>4, <2>5, <2>6
<1>8. QED
  BY <1>6, <1>7

\* No block is on a list twice, so it has no more of them than there are.
LEMMA ListLength ==
  ASSUME NEW hp, NEW head, NEW l, IsList(hp, head, l) PROVE Len(l) <= MaxBlocks
<1>1. MaxBlocks \in Nat /\ IsFiniteSet(Block) /\ Cardinality(Block) = MaxBlocks
  <2>1. MaxBlocks \in Nat
    BY HeapAssumption
  <2>2. QED
    BY <2>1, FS_Interval DEF Block
<1>2. l \in Seq(Block) /\ Len(l) \in Nat
  BY DEF IsList
<1>3. l \in Injection(1 .. Len(l), Block)
  BY <1>2 DEF IsList, Injection, IsInjective
<1>4. Cardinality(1 .. Len(l)) <= MaxBlocks
  BY <1>1, <1>3, FS_Injection
<1>5. Cardinality(1 .. Len(l)) = Len(l)
  BY <1>2, FS_Interval
<1>6. QED
  BY <1>4, <1>5

\* What dfs_find meets, when it follows the links of a list, is the list.
LEMMA DevicesAre ==
  ASSUME NEW hp, NEW head, NEW l, IsList(hp, head, l) PROVE Devices(hp, head) = l
<1>1. MaxBlocks + 1 \in Nat /\ Len(l) \in Nat /\ Len(l) <= MaxBlocks /\ l \in Seq(Block)
  BY HeapAssumption, ListLength DEF IsList
<1> DEFINE f == CHOOSE f : IsFrom(f, hp, MaxBlocks + 1)
<1>2. IsFrom(f, hp, MaxBlocks + 1)
  <2> HIDE DEF IsFrom
  <2>1. QED
    BY <1>1, FromExists
<1>3. Devices(hp, head) = f[MaxBlocks + 1][head]
  BY DEF Devices, IsFrom
<1> HIDE DEF f
<1>4. f[MaxBlocks + 1][Node(l, 1)] = SubSeq(l, 1, Len(l))
  <2>1. /\ 1 \in 1 .. Len(l) + 1 /\ Len(l) + 1 - 1 <= MaxBlocks + 1
        /\ MaxBlocks + 1 \in 0 .. MaxBlocks + 1
    BY <1>1, BlockFacts
  <2>2. QED
    BY <1>1, <1>2, <2>1, FromSuffix
<1>5. SubSeq(l, 1, Len(l)) = l
  BY <1>1
<1>6. QED
  BY <1>3, <1>4, <1>5 DEF IsList

-------------------------------------------------------------------------------
(***************************************************************************)
(* What each part of an operation leaves of the list.                      *)
(***************************************************************************)
\* The table that a list stands for.
View(hp, l) ==
  [i \in 1 .. Len(l) |->
     [name |-> NameOf(hp, l[i]), driver |-> hp[hp[l[i]].calltable].driver]]

\* What the blocks of a device are made of.
LEMMA PartFacts ==
  /\ \A d : CallTable(d).kind = "table" /\ CallTable(d).driver = d
  /\ \A n : Label(n).kind = "name" /\ Label(n).name = n
BY DEF CallTable, Label

\* What Good says of one device.
LEMMA DeviceFacts ==
  ASSUME NEW hp, NEW us, NEW head, NEW op, NEW l, Good(hp, us, head, op, l),
         NEW i \in 1 .. Len(l)
  PROVE  /\ l[i] \in Block /\ l[i] \in us
         /\ hp[l[i]] = DfsEntry(Node(l, i + 1), hp[l[i]].calltable, hp[l[i]].name)
         /\ hp[l[i]].kind = "device" /\ hp[l[i]].prev = Node(l, i + 1)
         /\ hp[l[i]].calltable \in us /\ hp[hp[l[i]].calltable].kind = "table"
         /\ hp[l[i]].name \in us /\ hp[hp[l[i]].name].kind = "name"
         /\ hp[hp[l[i]].calltable] = CallTable(hp[hp[l[i]].calltable].driver)
         /\ hp[hp[l[i]].calltable].driver \in Driver
         /\ hp[hp[l[i]].name] = Label(NameOf(hp, l[i]))
         /\ NameOf(hp, l[i]) \in Name
<1>1. l[i] \in Block
  BY ListFacts DEF Good
<1>2. /\ hp[l[i]] = DfsEntry(hp[l[i]].prev, hp[l[i]].calltable, hp[l[i]].name)
      /\ l[i] \in us /\ hp[l[i]].calltable \in us /\ hp[l[i]].name \in us
      /\ \E d \in Driver : hp[hp[l[i]].calltable] = CallTable(d)
      /\ \E n \in Name : hp[hp[l[i]].name] = Label(n)
  BY DEF Good, Owns, Sound
<1>3. hp[l[i]].kind = "device" /\ hp[l[i]].prev = Node(l, i + 1)
  BY DEF Good, IsList
<1>4. PICK d \in Driver : hp[hp[l[i]].calltable] = CallTable(d)
  BY <1>2
<1>5. PICK n \in Name : hp[hp[l[i]].name] = Label(n)
  BY <1>2
<1>6. /\ CallTable(d).kind = "table" /\ CallTable(d).driver = d
      /\ Label(n).kind = "name" /\ Label(n).name = n
  BY DEF CallTable, Label
<1>7. QED
  BY <1>1, <1>2, <1>3, <1>4, <1>5, <1>6 DEF NameOf

\* A heap that differs in blocks that are not allocated is as good.
LEMMA SameGood ==
  ASSUME NEW hp, NEW us, NEW head, NEW op, NEW l, Good(hp, us, head, op, l),
         NEW g, g = [b \in Block |-> g[b]], \A b \in us : g[b] = hp[b]
  PROVE  Good(g, us, head, op, l) /\ View(g, l) = View(hp, l)
<1>1. \A i \in 1 .. Len(l) :
        /\ g[l[i]] = hp[l[i]]
        /\ g[hp[l[i]].calltable] = hp[hp[l[i]].calltable]
        /\ g[hp[l[i]].name] = hp[hp[l[i]].name]
  BY DeviceFacts
<1>2. IsList(g, head, l)
  BY <1>1 DEF Good, IsList
<1>3. Owns(g, us, op, l)
  <2>1. us \subseteq Block /\ op \subseteq us /\ \A h \in op : g[h] = VfsHandle
    BY DEF Good, Owns
  <2>2. \A i \in 1 .. Len(l) : Sound(g, us, l[i])
    BY <1>1 DEF Good, Owns, Sound
  <2>3. \A i, j \in 1 .. Len(l) :
          g[l[i]].calltable = g[l[j]].calltable \/ g[l[i]].name = g[l[j]].name => i = j
    BY <1>1 DEF Good, Owns
  <2>4. \A b \in us : b \in op \/ \E i \in 1 .. Len(l) :
                                    b \in {l[i], g[l[i]].calltable, g[l[i]].name}
    BY <1>1 DEF Good, Owns
  <2>5. QED
    BY <2>1, <2>2, <2>3, <2>4 DEF Owns
<1>4. View(g, l) = View(hp, l)
  BY <1>1 DEF View, NameOf
<1>5. QED
  BY <1>2, <1>3, <1>4 DEF Good

\* mm_kfree of what is not allocated changes no list.
LEMMA FreedGood ==
  ASSUME NEW hp, NEW us, NEW head, NEW op, NEW l, Good(hp, us, head, op, l)
  PROVE  Good(Freed(hp, us), us, head, op, l) /\ View(Freed(hp, us), l) = View(hp, l)
<1>1. us \subseteq Block
  BY DEF Good, Owns
<1>2. /\ Freed(hp, us) = [b \in Block |-> Freed(hp, us)[b]]
      /\ \A b \in us : Freed(hp, us)[b] = hp[b]
  BY <1>1 DEF Freed
<1>3. QED
  BY <1>2, SameGood

\* Where the entries of a list are in the list that dfs_add makes.
LEMMA PushedFacts ==
  ASSUME NEW l \in Seq(Block), NEW b \in Block
  PROVE  /\ Pushed(b, l) \in Seq(Block) /\ Len(Pushed(b, l)) = Len(l) + 1
         /\ Pushed(b, l)[1] = b
         /\ \A i \in 1 .. Len(l) : Pushed(b, l)[i + 1] = l[i]
         /\ Node(Pushed(b, l), 1) = b
         /\ \A i \in 1 .. Len(l) + 1 : Node(Pushed(b, l), i + 1) = Node(l, i)
         /\ \A j \in 1 .. Len(l) + 1 : j = 1 \/ \E i \in 1 .. Len(l) : j = i + 1
<1>1. Pushed(b, l) \in Seq(Block) /\ Len(Pushed(b, l)) = Len(l) + 1 /\ Len(l) \in Nat
  <2>1. Len(l) \in Nat
    OBVIOUS
  <2>2. QED
    BY <2>1, PushedIs
<1>2. Pushed(b, l)[1] = b /\ \A i \in 1 .. Len(l) : Pushed(b, l)[i + 1] = l[i]
  BY <1>1 DEF Pushed
<1>3. Node(Pushed(b, l), 1) = b
  BY <1>1, <1>2 DEF Node
<1>4. \A i \in 1 .. Len(l) + 1 : Node(Pushed(b, l), i + 1) = Node(l, i)
  <2> TAKE i \in 1 .. Len(l) + 1
  <2>1. i + 1 <= Len(l) + 1 <=> i <= Len(l)
    BY <1>1
  <2>2. i <= Len(l) => i \in 1 .. Len(l)
    BY <1>1
  <2>3. QED
    BY <1>1, <1>2, <2>1, <2>2 DEF Node
<1>5. \A j \in 1 .. Len(l) + 1 : j = 1 \/ \E i \in 1 .. Len(l) : j = i + 1
  <2> TAKE j \in 1 .. Len(l) + 1
  <2>1. j # 1 => j - 1 \in 1 .. Len(l) /\ j = (j - 1) + 1
    BY <1>1
  <2>2. QED
    BY <2>1
<1>6. QED
  BY <1>1, <1>2, <1>3, <1>4, <1>5

\* dfs_add: with three new blocks, the list is that of before with the new device
\* in front, and all blocks have owners.
LEMMA PushGood ==
  ASSUME NEW hp, NEW us, NEW head, NEW op, NEW l, Good(hp, us, head, op, l),
         NEW b \in Block \ us, NEW t \in Block \ us, NEW n \in Block \ us,
         b # t, b # n, t # n, NEW d \in Driver, NEW m \in Name,
         NEW g, g = [x \in Block |-> g[x]], \A x \in us : g[x] = hp[x],
         g[b] = DfsEntry(head, t, n), g[t] = CallTable(d), g[n] = Label(m)
  PROVE  /\ Good(g, us \union {b, t, n}, b, op, Pushed(b, l))
         /\ View(g, Pushed(b, l)) = Pushed([name |-> m, driver |-> d], View(hp, l))
<1> DEFINE P == Pushed(b, l)
           vs == us \union {b, t, n}
<1>1. Good(g, us, head, op, l) /\ View(g, l) = View(hp, l)
  BY SameGood
<1>2. l \in Seq(Block) /\ Len(l) \in Nat
  BY ListFacts DEF Good
<1>3. /\ P \in Seq(Block) /\ Len(P) = Len(l) + 1 /\ P[1] = b
      /\ \A i \in 1 .. Len(l) : P[i + 1] = l[i]
      /\ Node(P, 1) = b
      /\ \A i \in 1 .. Len(l) + 1 : Node(P, i + 1) = Node(l, i)
      /\ \A j \in 1 .. Len(l) + 1 : j = 1 \/ \E i \in 1 .. Len(l) : j = i + 1
  BY <1>2, PushedFacts
<1>4. /\ \A i \in 1 .. Len(l) : g[l[i]].kind = "device" /\ g[l[i]].prev = Node(l, i + 1)
      /\ \A i, j \in 1 .. Len(l) : l[i] = l[j] => i = j
      /\ \A i \in 1 .. Len(l) : Sound(g, us, l[i])
      /\ \A i, j \in 1 .. Len(l) :
           g[l[i]].calltable = g[l[j]].calltable \/ g[l[i]].name = g[l[j]].name => i = j
      /\ us \subseteq Block /\ op \subseteq us /\ \A h \in op : g[h] = VfsHandle
      /\ \A x \in us : x \in op \/ \E i \in 1 .. Len(l) :
                                     x \in {l[i], g[l[i]].calltable, g[l[i]].name}
  BY <1>1 DEF Good, Owns, IsList
<1>5. /\ g[b].kind = "device" /\ g[b].prev = head /\ g[b].calltable = t /\ g[b].name = n
      /\ g[b] = DfsEntry(g[b].prev, g[b].calltable, g[b].name)
  BY DEF DfsEntry
<1> HIDE DEF P, vs
<1>6. /\ \A i \in 1 .. Len(l) : Sound(g, vs, l[i])
      /\ Sound(g, vs, b)
  BY <1>4, <1>5 DEF Sound, vs
<1>7. \A i \in 1 .. Len(l) : l[i] \in us /\ g[l[i]].calltable \in us /\ g[l[i]].name \in us
  BY <1>4 DEF Sound
<1>8. IsList(g, b, P)
  <2>1. ASSUME NEW i \in 1 .. Len(P), NEW j \in 1 .. Len(P), P[i] = P[j] PROVE i = j
    <3>1. CASE i = 1 /\ j = 1
      BY <3>1
    <3>2. ASSUME NEW k \in 1 .. Len(l),
                 (i = 1 /\ j = k + 1) \/ (j = 1 /\ i = k + 1)
          PROVE  FALSE
      <4>1. P[1] = b /\ P[k + 1] = l[k] /\ l[k] \in us
        BY <1>3, <1>7
      <4>2. P[1] = P[k + 1]
        BY <2>1, <3>2
      <4>3. QED
        BY <4>1, <4>2
    <3>3. ASSUME NEW k \in 1 .. Len(l), NEW m1 \in 1 .. Len(l), i = k + 1, j = m1 + 1
          PROVE  i = j
      BY <1>3, <1>4, <2>1, <3>3
    <3>4. /\ i = 1 \/ \E k \in 1 .. Len(l) : i = k + 1
          /\ j = 1 \/ \E k \in 1 .. Len(l) : j = k + 1
      BY <1>3
    <3>5. QED
      BY <3>1, <3>2, <3>3, <3>4
  <2>2. \A i \in 1 .. Len(P) : g[P[i]].kind = "device" /\ g[P[i]].prev = Node(P, i + 1)
    <3> TAKE i \in 1 .. Len(P)
    <3>1. CASE i = 1
      <4>1. 1 \in 1 .. Len(l) + 1 /\ head = Node(l, 1)
        BY <1>1, <1>2 DEF Good, IsList
      <4>2. Node(P, 1 + 1) = Node(l, 1)
        BY <1>3, <4>1
      <4>3. QED
        BY <1>3, <1>5, <3>1, <4>1, <4>2
    <3>2. CASE i # 1
      <4>1. PICK j \in 1 .. Len(l) : i = j + 1
        BY <1>3, <3>2
      <4>2. i \in 1 .. Len(l) + 1 /\ P[i] = l[j] /\ Node(P, i + 1) = Node(l, j + 1)
        BY <1>3, <4>1
      <4>3. QED
        BY <1>4, <4>2
    <3>3. QED
      BY <3>1, <3>2
  <2>3. QED
    BY <1>3, <2>1, <2>2 DEF IsList
<1>9. \A i \in 1 .. Len(P) : Sound(g, vs, P[i])
  <2> TAKE i \in 1 .. Len(P)
  <2>1. i = 1 \/ \E k \in 1 .. Len(l) : i = k + 1
    BY <1>3
  <2>2. QED
    BY <1>3, <1>6, <2>1
<1>10. Owns(g, vs, op, P)
  <2>1. ASSUME NEW i \in 1 .. Len(P), NEW j \in 1 .. Len(P),
               g[P[i]].calltable = g[P[j]].calltable \/ g[P[i]].name = g[P[j]].name
        PROVE  i = j
    <3>1. CASE i = 1 /\ j = 1
      BY <3>1
    <3>2. ASSUME NEW k \in 1 .. Len(l),
                 (i = 1 /\ j = k + 1) \/ (j = 1 /\ i = k + 1)
          PROVE  FALSE
      <4>1. /\ P[k + 1] = l[k]
            /\ g[P[1]].calltable = g[P[k + 1]].calltable \/ g[P[1]].name = g[P[k + 1]].name
        BY <1>3, <2>1, <3>2
      <4>2. QED
        BY <1>3, <1>5, <1>7, <4>1
    <3>3. ASSUME NEW k \in 1 .. Len(l), NEW m1 \in 1 .. Len(l), i = k + 1, j = m1 + 1
          PROVE  i = j
      <4>1. P[i] = l[k] /\ P[j] = l[m1]
        BY <1>3, <3>3
      <4>2. k = m1
        BY <1>4, <2>1, <4>1
      <4>3. QED
        BY <3>3, <4>2
    <3>4. /\ i = 1 \/ \E k \in 1 .. Len(l) : i = k + 1
          /\ j = 1 \/ \E k \in 1 .. Len(l) : j = k + 1
      BY <1>3
    <3>5. QED
      BY <3>1, <3>2, <3>3, <3>4
  <2>2. \A x \in vs : x \in op \/ \E i \in 1 .. Len(P) :
                                    x \in {P[i], g[P[i]].calltable, g[P[i]].name}
    <3> TAKE x \in vs
    <3>1. CASE x \in {b, t, n}
      <4>1. 1 \in 1 .. Len(P)
        BY <1>2, <1>3
      <4>2. QED
        BY <1>3, <1>5, <3>1, <4>1
    <3>2. CASE x \in us /\ x \notin op
      <4>1. PICK i \in 1 .. Len(l) : x \in {l[i], g[l[i]].calltable, g[l[i]].name}
        BY <1>4, <3>2
      <4>2. i + 1 \in 1 .. Len(P) /\ P[i + 1] = l[i]
        BY <1>2, <1>3
      <4>3. QED
        BY <4>1, <4>2
    <3>3. QED
      BY <3>1, <3>2 DEF vs
  <2>3. vs \subseteq Block /\ op \subseteq vs
    BY <1>4 DEF vs
  <2>4. QED
    BY <1>4, <1>9, <2>1, <2>2, <2>3 DEF Owns
<1>11. View(g, P) = Pushed([name |-> m, driver |-> d], View(g, l))
  <2>1. Len(View(g, l)) = Len(l)
    BY <1>2 DEF View
  <2>2. \A j \in 1 .. Len(l) + 1 :
          View(g, P)[j] = IF j = 1 THEN [name |-> m, driver |-> d] ELSE View(g, l)[j - 1]
    <3> TAKE j \in 1 .. Len(l) + 1
    <3>1. View(g, P)[j] = [name |-> NameOf(g, P[j]), driver |-> g[g[P[j]].calltable].driver]
      BY <1>3 DEF View
    <3>2. CASE j = 1
      <4>1. NameOf(g, b) = Label(m).name /\ g[g[b].calltable].driver = CallTable(d).driver
        <5>1. g[b].name = n /\ g[b].calltable = t
          BY <1>5
        <5>2. g[g[b].name] = Label(m) /\ g[g[b].calltable] = CallTable(d)
          BY <5>1
        <5>3. QED
          BY <5>2 DEF NameOf
      <4>2. Label(m).name = m /\ CallTable(d).driver = d
        BY PartFacts
      <4>3. QED
        <5>1. P[j] = b
          BY <1>3, <3>2
        <5>2. NameOf(g, P[j]) = m /\ g[g[P[j]].calltable].driver = d
          BY <4>1, <4>2, <5>1
        <5>3. View(g, P)[j] = [name |-> m, driver |-> d]
          BY <3>1, <5>2
        <5> HIDE DEF P
        <5>4. QED
          BY <3>2, <5>3
    <3>3. CASE j # 1
      <4>1. j - 1 \in 1 .. Len(l) /\ P[j] = l[j - 1]
        <5>1. PICK i \in 1 .. Len(l) : j = i + 1
          BY <1>3, <3>3
        <5>2. j - 1 = i
          BY <5>1
        <5>3. QED
          BY <1>3, <5>1, <5>2
      <4>2. QED
        BY <3>1, <3>3, <4>1 DEF View
    <3>4. QED
      BY <3>2, <3>3
  <2>3. View(g, P) = [j \in 1 .. Len(l) + 1 |-> View(g, P)[j]]
    BY <1>3 DEF View
  <2>4. QED
    BY <2>1, <2>2, <2>3 DEF Pushed
<1>12. QED
  BY <1>1, <1>8, <1>10, <1>11 DEF Good, P, vs

\* The place in a list of what is j-th when place k is left out.
Skip(k, j) == IF j < k THEN j ELSE j + 1

\* The place that the link at place i leads to when place k is left out.
Past(k, i) == IF i + 1 = k THEN k + 1 ELSE i + 1

\* Where the entries of a list are in the list that dfs_remove leaves.
LEMMA WithoutFacts ==
  ASSUME NEW l \in Seq(Block), NEW k \in 1 .. Len(l)
  PROVE  /\ Without(l, k) \in Seq(Block) /\ Len(Without(l, k)) = Len(l) - 1
         /\ \A j \in 1 .. Len(l) - 1 :
              /\ Skip(k, j) \in 1 .. Len(l) /\ Skip(k, j) # k
              /\ Without(l, k)[j] = l[Skip(k, j)]
         /\ \A i, j \in 1 .. Len(l) - 1 : Skip(k, i) = Skip(k, j) => i = j
         /\ \A i \in 1 .. Len(l) : i # k => \E j \in 1 .. Len(l) - 1 : i = Skip(k, j)
         /\ \A j \in 1 .. Len(l) : Node(Without(l, k), j) = Node(l, Skip(k, j))
         /\ \A j \in 1 .. Len(l) - 1 :
              Skip(k, j + 1) = Past(k, Skip(k, j))
<1> DEFINE W == Without(l, k)
           n == Len(l)
<1>1. n \in Nat /\ k \in Nat /\ 1 <= k /\ k <= n
  OBVIOUS
<1>2. W \in Seq(Block) /\ Len(W) = n - 1
  BY WithoutIs
<1>3. \A j \in 1 .. n - 1 : W[j] = l[Skip(k, j)]
  BY DEF Without, Skip
<1> HIDE DEF W, n
<1>4. \A j \in 1 .. n - 1 : Skip(k, j) \in 1 .. n /\ Skip(k, j) # k
  BY <1>1 DEF Skip
<1>5. \A i, j \in 1 .. n - 1 : Skip(k, i) = Skip(k, j) => i = j
  BY <1>1 DEF Skip
<1>6. ASSUME NEW i \in 1 .. n, i # k PROVE \E j \in 1 .. n - 1 : i = Skip(k, j)
  <2>1. CASE i < k
    <3>1. i \in 1 .. n - 1 /\ i = Skip(k, i)
      BY <1>1, <2>1 DEF Skip
    <3>2. QED
      BY <3>1
  <2>2. CASE i > k
    <3>1. i - 1 \in 1 .. n - 1 /\ i = Skip(k, i - 1)
      BY <1>1, <2>2 DEF Skip
    <3>2. QED
      BY <3>1
  <2>3. QED
    BY <1>1, <1>6, <2>1, <2>2
<1>7. ASSUME NEW j \in 1 .. n PROVE Node(W, j) = Node(l, Skip(k, j))
  <2>1. CASE j = n
    <3>1. ~ (j <= Len(W)) /\ ~ (Skip(k, j) <= n)
      BY <1>1, <1>2, <2>1 DEF Skip
    <3>2. QED
      BY <3>1 DEF Node, n
  <2>2. CASE j # n
    <3>1. j \in 1 .. n - 1 /\ j <= Len(W) /\ Skip(k, j) <= n
      BY <1>1, <1>2, <2>2 DEF Skip
    <3>2. QED
      BY <1>3, <3>1 DEF Node, n
  <2>3. QED
    BY <2>1, <2>2
<1>8. ASSUME NEW j \in 1 .. n - 1
      PROVE  Skip(k, j + 1) = Past(k, Skip(k, j))
  BY <1>1 DEF Skip, Past
<1>9. QED
  BY <1>2, <1>3, <1>4, <1>5, <1>6, <1>7, <1>8 DEF W, n

\* A link leads to the device at one place only.
LEMMA NodeIs ==
  ASSUME NEW hp, NEW head, NEW l, IsList(hp, head, l),
         NEW k \in 1 .. Len(l), NEW i \in 1 .. Len(l) + 1
  PROVE  Node(l, i) = l[k] <=> i = k
<1>1. /\ l \in Seq(Block) /\ Len(l) \in Nat /\ l[k] \in Block
      /\ \A j, m \in 1 .. Len(l) : l[j] = l[m] => j = m
  BY ListFacts DEF IsList
<1>2. CASE i <= Len(l)
  <2>1. i \in 1 .. Len(l)
    BY <1>1, <1>2
  <2>2. QED
    BY <1>1, <1>2, <2>1 DEF Node
<1>3. CASE ~ (i <= Len(l))
  <2>1. Node(l, i) # l[k]
    BY <1>1, <1>3, BlockFacts DEF Node
  <2>2. i # k
    BY <1>1, <1>3
  <2>3. QED
    BY <2>1, <2>2
<1>4. QED
  BY <1>2, <1>3

\* The blocks of two devices of a list are apart, and none is a handle.
LEMMA DevicesApart ==
  ASSUME NEW hp, NEW us, NEW head, NEW op, NEW l, Good(hp, us, head, op, l),
         NEW i \in 1 .. Len(l), NEW k \in 1 .. Len(l)
  PROVE  LET mine == {l[k], hp[l[k]].calltable, hp[l[k]].name} IN
         /\ i # k => /\ l[i] \notin mine /\ hp[l[i]].calltable \notin mine
                     /\ hp[l[i]].name \notin mine
         /\ \A h \in op : h \notin mine
<1>1. /\ hp[l[i]].kind = "device" /\ hp[l[k]].kind = "device"
      /\ hp[hp[l[i]].calltable].kind = "table" /\ hp[hp[l[k]].calltable].kind = "table"
      /\ hp[hp[l[i]].name].kind = "name" /\ hp[hp[l[k]].name].kind = "name"
  BY DeviceFacts
<1>2. /\ l[i] = l[k] => i = k
      /\ hp[l[i]].calltable = hp[l[k]].calltable \/ hp[l[i]].name = hp[l[k]].name => i = k
      /\ \A h \in op : hp[h] = VfsHandle
  BY DEF Good, IsList, Owns
<1>3. VfsHandle.kind = "handle"
  BY DEF VfsHandle
<1>4. QED
  BY <1>1, <1>2, <1>3

\* What dfs_remove leaves in the blocks: a link to the device leads past it, and
\* nothing else has changed.
Unlinked(g, hp, us, l, k) ==
  /\ g = [x \in Block |-> g[x]]
  /\ \A x \in us : hp[x].kind # "device" => g[x] = hp[x]
  /\ \A i \in 1 .. Len(l) : i # k =>
       g[l[i]] = DfsEntry(Node(l, Past(k, i)), hp[l[i]].calltable, hp[l[i]].name)

\* So it does.
LEMMA UnlinkedFacts ==
  ASSUME NEW hp, NEW us, NEW head, NEW op, NEW l, Good(hp, us, head, op, l),
         NEW k \in 1 .. Len(l)
  PROVE  Unlinked(Removed(hp, us, head, l[k]).heap, hp, us, l, k)
<1> DEFINE dev == l[k]
           g == [x \in Block |->
                   IF dev # head /\ x \in us /\ hp[x].kind = "device" /\ hp[x].prev = dev
                   THEN [hp[x] EXCEPT !.prev = hp[dev].prev] ELSE hp[x]]
<1>1. Removed(hp, us, head, l[k]).heap = g
  BY DEF Removed
<1>2. us \subseteq Block /\ IsList(hp, head, l) /\ Len(l) \in Nat
  BY ListFacts DEF Good, Owns
<1>3. g = [x \in Block |-> g[x]]
  OBVIOUS
<1>4. \A x \in us : hp[x].kind # "device" => g[x] = hp[x]
  BY <1>2
<1>5. ASSUME NEW i \in 1 .. Len(l), i # k
      PROVE  g[l[i]] = DfsEntry(Node(l, Past(k, i)), hp[l[i]].calltable, hp[l[i]].name)
  <2>1. /\ l[i] \in Block /\ l[i] \in us
        /\ hp[l[i]] = DfsEntry(Node(l, i + 1), hp[l[i]].calltable, hp[l[i]].name)
        /\ hp[l[i]].kind = "device" /\ hp[l[i]].prev = Node(l, i + 1)
    BY DeviceFacts
  <2>2. hp[dev].prev = Node(l, k + 1)
    BY DeviceFacts
  <2>3. hp[l[i]].prev = dev <=> i + 1 = k
    <3>1. i + 1 \in 1 .. Len(l) + 1
      BY <1>2
    <3>2. QED
      BY <1>2, <2>1, <3>1, NodeIs
  <2>4. i + 1 = k => dev # head
    <3>1. 1 \in 1 .. Len(l) + 1 /\ head = Node(l, 1)
      BY <1>2 DEF IsList
    <3>2. i + 1 = k => 1 # k
      BY <1>2
    <3>3. QED
      BY <1>2, <3>1, <3>2, NodeIs
  <2>5. g[l[i]] = IF i + 1 = k THEN [hp[l[i]] EXCEPT !.prev = Node(l, k + 1)] ELSE hp[l[i]]
    BY <2>1, <2>2, <2>3, <2>4
  <2> HIDE DEF g
  <2>6. \A p, q, c, m : [DfsEntry(p, c, m) EXCEPT !.prev = q] = DfsEntry(q, c, m)
    BY DEF DfsEntry
  <2>7. [hp[l[i]] EXCEPT !.prev = Node(l, k + 1)]
          = DfsEntry(Node(l, k + 1), hp[l[i]].calltable, hp[l[i]].name)
    BY <2>1, <2>6
  <2>8. QED
    BY <2>1, <2>5, <2>7 DEF Past
<1> HIDE DEF g
<1>6. QED
  BY <1>1, <1>3, <1>4, <1>5 DEF Unlinked

\* dfs_remove: the list is that of before without the device, and what is still
\* in use has an owner that is still there.
LEMMA RemoveGood ==
  ASSUME NEW hp, NEW us, NEW head, NEW op, NEW l, Good(hp, us, head, op, l),
         NEW k \in 1 .. Len(l)
  PROVE  LET s == Removed(hp, us, head, l[k]) IN
         /\ Good(s.heap, s.used, s.head, op, Without(l, k))
         /\ View(s.heap, Without(l, k)) = Without(View(hp, l), k)
<1> DEFINE mine == {l[k], hp[l[k]].calltable, hp[l[k]].name}
           g  == Removed(hp, us, head, l[k]).heap
           vs == us \ mine
           hd == IF l[k] = head THEN hp[l[k]].prev ELSE head
           W  == Without(l, k)
<1>1. /\ Removed(hp, us, head, l[k]).used = vs
      /\ Removed(hp, us, head, l[k]).head = hd
  BY DEF Removed
<1>2. /\ IsList(hp, head, l) /\ l \in Seq(Block) /\ Len(l) \in Nat
      /\ us \subseteq Block /\ op \subseteq us /\ \A h \in op : hp[h] = VfsHandle
      /\ \A i, j \in 1 .. Len(l) : l[i] = l[j] => i = j
      /\ \A i, j \in 1 .. Len(l) :
           hp[l[i]].calltable = hp[l[j]].calltable \/ hp[l[i]].name = hp[l[j]].name => i = j
      /\ \A x \in us : x \in op \/ \E i \in 1 .. Len(l) :
                                     x \in {l[i], hp[l[i]].calltable, hp[l[i]].name}
  BY ListFacts DEF Good, Owns, IsList
<1>3. /\ g = [x \in Block |-> g[x]]
      /\ \A x \in us : hp[x].kind # "device" => g[x] = hp[x]
      /\ \A i \in 1 .. Len(l) : i # k =>
           g[l[i]] = DfsEntry(Node(l, Past(k, i)), hp[l[i]].calltable, hp[l[i]].name)
  <2>1. Unlinked(g, hp, us, l, k)
    BY UnlinkedFacts
  <2> HIDE DEF g
  <2>2. QED
    BY <2>1 DEF Unlinked
<1>4. /\ W \in Seq(Block) /\ Len(W) = Len(l) - 1
      /\ \A j \in 1 .. Len(l) - 1 :
           /\ Skip(k, j) \in 1 .. Len(l) /\ Skip(k, j) # k
           /\ W[j] = l[Skip(k, j)]
      /\ \A i, j \in 1 .. Len(l) - 1 : Skip(k, i) = Skip(k, j) => i = j
      /\ \A i \in 1 .. Len(l) : i # k => \E j \in 1 .. Len(l) - 1 : i = Skip(k, j)
      /\ \A j \in 1 .. Len(l) : Node(W, j) = Node(l, Skip(k, j))
      /\ \A j \in 1 .. Len(l) - 1 : Skip(k, j + 1) = Past(k, Skip(k, j))
  BY <1>2, WithoutFacts
<1> HIDE DEF g, W
<1>5. \A i \in 1 .. Len(l) : i # k =>
        /\ l[i] \notin mine /\ hp[l[i]].calltable \notin mine /\ hp[l[i]].name \notin mine
        /\ \A h \in op : h \notin mine
  BY DevicesApart
<1>6. \A h \in op : h \notin mine
  BY DevicesApart
<1> HIDE DEF mine
<1>7. \A i \in 1 .. Len(l) : i # k =>
        /\ g[l[i]].kind = "device" /\ g[l[i]].prev = Node(l, Past(k, i))
        /\ g[l[i]].calltable = hp[l[i]].calltable /\ g[l[i]].name = hp[l[i]].name
        /\ g[hp[l[i]].calltable] = hp[hp[l[i]].calltable]
        /\ g[hp[l[i]].name] = hp[hp[l[i]].name]
  <2> TAKE i \in 1 .. Len(l)
  <2> SUFFICES ASSUME i # k
               PROVE /\ g[l[i]].kind = "device" /\ g[l[i]].prev = Node(l, Past(k, i))
                     /\ g[l[i]].calltable = hp[l[i]].calltable /\ g[l[i]].name = hp[l[i]].name
                     /\ g[hp[l[i]].calltable] = hp[hp[l[i]].calltable]
                     /\ g[hp[l[i]].name] = hp[hp[l[i]].name]
    OBVIOUS
  <2>1. \A p, c, m : LET e == DfsEntry(p, c, m) IN
          e.kind = "device" /\ e.prev = p /\ e.calltable = c /\ e.name = m
    BY DEF DfsEntry
  <2>2. /\ g[l[i]].kind = "device" /\ g[l[i]].prev = Node(l, Past(k, i))
        /\ g[l[i]].calltable = hp[l[i]].calltable /\ g[l[i]].name = hp[l[i]].name
    BY <1>3, <2>1
  <2>3. /\ hp[l[i]].calltable \in us /\ hp[hp[l[i]].calltable].kind = "table"
        /\ hp[l[i]].name \in us /\ hp[hp[l[i]].name].kind = "name"
    BY DeviceFacts
  <2>4. QED
    BY <1>3, <2>2, <2>3
<1>8. \A i \in 1 .. Len(l) : i # k => Sound(g, vs, l[i])
  <2> TAKE i \in 1 .. Len(l)
  <2>1. Sound(hp, us, l[i])
    BY DEF Good, Owns
  <2>2. i # k => g[l[i]] = DfsEntry(g[l[i]].prev, g[l[i]].calltable, g[l[i]].name)
    BY <1>3, <1>7
  <2>3. QED
    BY <1>5, <1>7, <2>1, <2>2 DEF Sound
<1> HIDE DEF vs
<1>9. IsList(g, hd, W)
  <2>1. ASSUME NEW i \in 1 .. Len(W), NEW j \in 1 .. Len(W), W[i] = W[j] PROVE i = j
    <3>1. l[Skip(k, i)] = l[Skip(k, j)] /\ i \in 1 .. Len(l) - 1 /\ j \in 1 .. Len(l) - 1
      BY <1>4, <2>1
    <3>2. Skip(k, i) = Skip(k, j)
      BY <1>2, <1>4, <3>1
    <3>3. QED
      BY <1>4, <3>1, <3>2
  <2>2. hd = Node(W, 1)
    <3>1. 1 \in 1 .. Len(l) /\ 1 \in 1 .. Len(l) + 1 /\ head = Node(l, 1)
      BY <1>2 DEF IsList
    <3>2. head = l[k] <=> k = 1
      BY <1>2, <3>1, NodeIs
    <3>3. Node(W, 1) = Node(l, Skip(k, 1))
      BY <1>4, <3>1
    <3>4. Skip(k, 1) = IF k = 1 THEN k + 1 ELSE 1
      BY DEF Skip
    <3>5. hp[l[k]].prev = Node(l, k + 1)
      BY DeviceFacts
    <3>6. QED
      BY <3>1, <3>2, <3>3, <3>4, <3>5
  <2>3. ASSUME NEW j \in 1 .. Len(W)
        PROVE  g[W[j]].kind = "device" /\ g[W[j]].prev = Node(W, j + 1)
    <3>1. j \in 1 .. Len(l) - 1 /\ j + 1 \in 1 .. Len(l)
      BY <1>2, <1>4
    <3>2. Node(W, j + 1) = Node(l, Past(k, Skip(k, j)))
      BY <1>4, <3>1
    <3>3. QED
      BY <1>4, <1>7, <3>1, <3>2
  <2>4. QED
    BY <1>4, <2>1, <2>2, <2>3 DEF IsList
<1>10. Owns(g, vs, op, W)
  <2>1. vs \subseteq Block /\ op \subseteq vs
    BY <1>2, <1>6 DEF vs
  <2>2. \A h \in op : g[h] = VfsHandle
    <3>1. VfsHandle.kind = "handle"
      BY DEF VfsHandle
    <3>2. QED
      BY <1>2, <1>3, <3>1
  <2>3. \A j \in 1 .. Len(W) : Sound(g, vs, W[j])
    BY <1>4, <1>8
  <2>4. ASSUME NEW i \in 1 .. Len(W), NEW j \in 1 .. Len(W),
               g[W[i]].calltable = g[W[j]].calltable \/ g[W[i]].name = g[W[j]].name
        PROVE  i = j
    <3>1. i \in 1 .. Len(l) - 1 /\ j \in 1 .. Len(l) - 1
      BY <1>4
    <3>2. /\ g[W[i]].calltable = hp[l[Skip(k, i)]].calltable
          /\ g[W[i]].name = hp[l[Skip(k, i)]].name
          /\ g[W[j]].calltable = hp[l[Skip(k, j)]].calltable
          /\ g[W[j]].name = hp[l[Skip(k, j)]].name
      BY <1>4, <1>7, <3>1
    <3>3. Skip(k, i) = Skip(k, j)
      BY <1>2, <1>4, <2>4, <3>1, <3>2
    <3>4. QED
      BY <1>4, <3>1, <3>3
  <2>5. ASSUME NEW x \in vs, x \notin op
        PROVE  \E j \in 1 .. Len(W) : x \in {W[j], g[W[j]].calltable, g[W[j]].name}
    <3>1. PICK i \in 1 .. Len(l) : x \in {l[i], hp[l[i]].calltable, hp[l[i]].name}
      BY <1>2, <2>5 DEF vs
    <3>2. i # k
      BY <2>5, <3>1 DEF vs, mine
    <3>3. PICK j \in 1 .. Len(l) - 1 : i = Skip(k, j)
      BY <1>4, <3>2
    <3>4. j \in 1 .. Len(W) /\ W[j] = l[i]
      BY <1>4, <3>3
    <3>5. QED
      BY <1>7, <3>1, <3>2, <3>4
  <2>6. QED
    BY <1>3, <2>1, <2>2, <2>3, <2>4, <2>5 DEF Owns
<1>11. View(g, W) = Without(View(hp, l), k)
  <2>1. Len(View(hp, l)) = Len(l)
    BY <1>2 DEF View
  <2>2. \A j \in 1 .. Len(l) - 1 : View(g, W)[j] = View(hp, l)[Skip(k, j)]
    <3> TAKE j \in 1 .. Len(l) - 1
    <3>1. j \in 1 .. Len(W) /\ W[j] = l[Skip(k, j)]
          /\ Skip(k, j) \in 1 .. Len(l) /\ Skip(k, j) # k
      BY <1>4
    <3>2. /\ View(g, W)[j] = [name |-> NameOf(g, W[j]), driver |-> g[g[W[j]].calltable].driver]
          /\ View(hp, l)[Skip(k, j)] = [name |-> NameOf(hp, l[Skip(k, j)]),
                                       driver |-> hp[hp[l[Skip(k, j)]].calltable].driver]
      BY <3>1 DEF View
    <3>3. QED
      BY <1>7, <3>1, <3>2 DEF NameOf
  <2>3. View(g, W) = [j \in 1 .. Len(l) - 1 |-> View(g, W)[j]]
    BY <1>4 DEF View
  <2>4. Without(View(hp, l), k) = [j \in 1 .. Len(l) - 1 |-> View(hp, l)[Skip(k, j)]]
    BY <2>1 DEF Without, Skip
  <2>5. [j \in 1 .. Len(l) - 1 |-> View(g, W)[j]]
          = [j \in 1 .. Len(l) - 1 |-> View(hp, l)[Skip(k, j)]]
    BY <2>2
  <2>6. QED
    BY <2>3, <2>4, <2>5
<1>12. Good(g, vs, hd, op, W)
  BY <1>9, <1>10 DEF Good
<1>13. QED
  BY <1>1, <1>11, <1>12 DEF g, W

-------------------------------------------------------------------------------
(***************************************************************************)
(* The operations.                                                         *)
(***************************************************************************)
\* Place k of a table is the first with that name.
IsFirst(v, n, k) ==
  k \in 1 .. Len(v) /\ v[k].name = n /\ \A j \in 1 .. k - 1 : v[j].name # n

\* What the operations do to a table v: they leave w.
AddsTo(v, w, n, d)  == w = Pushed([name |-> n, driver |-> d], v)
TakesFrom(v, w, n)  == \E k : IsFirst(v, n, k) /\ w = Without(v, k)
CopiesIn(v, w, s, t) ==
  \E k : IsFirst(v, s, k) /\ AddsTo(v, w, t, v[k].driver)
RenamesIn(v, w, s, t) == \E c : CopiesIn(v, c, s, t) /\ TakesFrom(c, w, s)

Follows(v, w) ==
  \/ w = v
  \/ \E n \in Name : \/ \E d \in Driver : AddsTo(v, w, n, d)
                     \/ TakesFrom(v, w, n)
                     \/ \E t \in Name : CopiesIn(v, w, n, t) \/ RenamesIn(v, w, n, t)

\* The table that a list stands for has an entry for each device.
LEMMA ViewFacts ==
  ASSUME NEW hp, NEW us, NEW head, NEW op, NEW l, Good(hp, us, head, op, l)
  PROVE  /\ View(hp, l) \in Seq(Table!Device) /\ Len(View(hp, l)) = Len(l)
         /\ \A i \in 1 .. Len(l) :
              /\ View(hp, l)[i].name = NameOf(hp, l[i])
              /\ View(hp, l)[i].driver = hp[hp[l[i]].calltable].driver
<1>1. Len(l) \in Nat
  BY ListFacts DEF Good
<1>2. \A i \in 1 .. Len(l) : View(hp, l)[i] = [name |-> NameOf(hp, l[i]),
                                              driver |-> hp[hp[l[i]].calltable].driver]
  BY DEF View
<1>3. \A i \in 1 .. Len(l) :
        /\ View(hp, l)[i] \in Table!Device
        /\ View(hp, l)[i].name = NameOf(hp, l[i])
        /\ View(hp, l)[i].driver = hp[hp[l[i]].calltable].driver
  <2> TAKE i \in 1 .. Len(l)
  <2> DEFINE n == NameOf(hp, l[i])
             d == hp[hp[l[i]].calltable].driver
  <2>1. n \in Name /\ d \in Driver
    BY DeviceFacts
  <2>2. View(hp, l)[i] = [name |-> n, driver |-> d]
    BY <1>2
  <2> HIDE DEF n, d, View
  <2>3. View(hp, l)[i] \in Table!Device /\ View(hp, l)[i].name = n /\ View(hp, l)[i].driver = d
    BY <2>1, <2>2 DEF Table!Device
  <2>4. QED
    BY <2>3 DEF n, d
<1>4. View(hp, l) \in Seq(Table!Device) /\ Len(View(hp, l)) = Len(l)
  <2>1. View(hp, l) = [i \in 1 .. Len(l) |-> View(hp, l)[i]]
    BY DEF View
  <2> HIDE DEF View
  <2>2. QED
    BY <1>1, <1>3, <2>1
<1>5. QED
  BY <1>3, <1>4

\* dfs_find gives the device at the first place of that name, if there is one.
LEMMA FindFirst ==
  ASSUME NEW hp, NEW us, NEW head, NEW op, NEW l, Good(hp, us, head, op, l), NEW n
  PROVE  /\ Find(hp, head, n) # Null =>
              \E k \in 1 .. Len(l) : Find(hp, head, n) = l[k] /\ IsFirst(View(hp, l), n, k)
         /\ (\E k \in 1 .. Len(l) : NameOf(hp, l[k]) = n) => Find(hp, head, n) # Null
<1> DEFINE places == {i \in 1 .. Len(l) : NameOf(hp, l[i]) = n}
<1>1. Devices(hp, head) = l
  BY DevicesAre DEF Good
<1>2. Find(hp, head, n) = IF places = {} THEN Null ELSE l[Min(places)]
  BY <1>1 DEF Find
<1>3. /\ Len(View(hp, l)) = Len(l)
      /\ \A i \in 1 .. Len(l) : View(hp, l)[i].name = NameOf(hp, l[i])
      /\ \A i \in 1 .. Len(l) : l[i] \in Block
  BY ViewFacts, DeviceFacts
<1>4. ASSUME places # {}
      PROVE  Min(places) \in 1 .. Len(l) /\ IsFirst(View(hp, l), n, Min(places))
  <2>1. places \in SUBSET Nat
    OBVIOUS
  <2> DEFINE k == Min(places)
  <2>2. k \in places /\ \A j \in places : k <= j
    <3> HIDE DEF places
    <3>1. QED
      BY <1>4, <2>1, MinIsLeast
  <2> HIDE DEF k
  <2>3. k \in 1 .. Len(l) /\ NameOf(hp, l[k]) = n
    BY <2>2
  <2>4. \A j \in 1 .. k - 1 : j \in 1 .. Len(l) /\ NameOf(hp, l[j]) # n
    <3>1. ASSUME NEW j \in 1 .. k - 1 PROVE j \in 1 .. Len(l) /\ j < k
      <4>1. Len(l) \in Nat
        BY ListFacts DEF Good
      <4>2. QED
        BY <2>3, <4>1
    <3>2. QED
      BY <2>2, <3>1
  <2>5. IsFirst(View(hp, l), n, k)
    BY <1>3, <2>3, <2>4 DEF IsFirst
  <2>6. QED
    BY <2>3, <2>5 DEF k
<1> HIDE DEF places
<1>5. Find(hp, head, n) # Null <=> places # {}
  <2>1. places # {} => l[Min(places)] # Null
    BY <1>3, <1>4, BlockFacts
  <2>2. QED
    BY <1>2, <2>1
<1>6. (\E k \in 1 .. Len(l) : NameOf(hp, l[k]) = n) => places # {}
  BY DEF places
<1>7. QED
  BY <1>2, <1>4, <1>5, <1>6

\* The first free blocks are free, and there are as many as are asked for.
LEMMA FreshBlock ==
  ASSUME used \subseteq Block, Room(1) PROVE New1 \in Block \ used
<1>1. FreeBlocks \in SUBSET Nat
  BY BlockFacts DEF FreeBlocks
<1>2. FreeBlocks # {}
  BY FS_EmptySet DEF Room
<1>3. Min(FreeBlocks) \in FreeBlocks
  BY <1>1, <1>2, MinIsLeast
<1>4. QED
  BY <1>3 DEF New1, FreeBlocks

\* So are the first three, and they differ.
LEMMA FreshBlocks ==
  ASSUME used \subseteq Block, Room(3)
  PROVE  /\ {New1, New2, New3} \subseteq Block \ used
         /\ New1 # New2 /\ New1 # New3 /\ New2 # New3
<1> DEFINE F == FreeBlocks
           G == F \ {New1}
           H == F \ {New1, New2}
<1>1. F \in SUBSET Nat /\ F = Block \ used
  BY BlockFacts DEF FreeBlocks
<1>2. IsFiniteSet(F) /\ Cardinality(F) >= 3 /\ Cardinality(F) \in Nat
  <2>1. IsFiniteSet(Block)
    BY BlockFacts, FS_Interval DEF Block
  <2>2. IsFiniteSet(F)
    BY <1>1, <2>1, FS_Subset
  <2>3. QED
    BY <2>2, FS_CardinalityType DEF Room
<1>3. New1 = Min(F) /\ New2 = Min(G) /\ New3 = Min(H)
  BY DEF New1, New2, New3
<1> HIDE DEF F
<1>4. F # {}
  BY <1>2, FS_EmptySet
<1>5. New1 \in F
  BY <1>1, <1>3, <1>4, MinIsLeast
<1>6. IsFiniteSet(G) /\ Cardinality(G) >= 2 /\ Cardinality(G) \in Nat
  BY <1>2, <1>5, FS_RemoveElement
<1>7. G # {} /\ G \in SUBSET Nat
  <2>1. G \in SUBSET Nat
    BY <1>1
  <2> HIDE DEF G
  <2>2. QED
    BY <1>6, <2>1, FS_EmptySet
<1>8. New2 \in G
  <2> HIDE DEF G
  <2>1. QED
    BY <1>3, <1>7, MinIsLeast
<1>9. H = G \ {New2}
  OBVIOUS
<1> HIDE DEF G, H
<1>10. IsFiniteSet(H) /\ Cardinality(H) >= 1
  BY <1>6, <1>8, <1>9, FS_RemoveElement
<1>11. H # {} /\ H \in SUBSET Nat
  <2>1. H \in SUBSET Nat
    BY <1>7, <1>9
  <2>2. H # {}
    BY <1>10, FS_EmptySet
  <2>3. QED
    BY <2>1, <2>2
<1>12. New3 \in H
  BY <1>3, <1>11, MinIsLeast
<1>13. QED
  BY <1>1, <1>5, <1>8, <1>12 DEF G, H

\* The devices as a table: what the code's list stands for.
Shown == View(heap, Devices(heap, devHead))

\* The blocks that are not allocated are freed, and a list that was good stays so.
LEMMA BecomesGood ==
  ASSUME NEW s, NEW l, Becomes(s), UNCHANGED open, Good(s.heap, s.used, s.head, open, l)
  PROVE  Inv' /\ Shown' = View(s.heap, l)
<1>1. heap' = Freed(s.heap, s.used) /\ used' = s.used /\ devHead' = s.head /\ open' = open
  BY DEF Becomes
<1>2. Good(heap', used', devHead', open', l) /\ View(heap', l) = View(s.heap, l)
  BY <1>1, FreedGood
<1>3. Devices(heap', devHead') = l
  BY <1>2, DevicesAre DEF Good
<1>4. QED
  BY <1>2, <1>3 DEF Inv, Shown

\* dfs_add with blocks of the heap: for io_add and for dfs_copy.
LEMMA AddedGood ==
  ASSUME Inv, Room(3), NEW n \in Name, NEW d \in Driver,
         NEW t \in {New1, New2}, NEW m \in {New1, New2}, t # m,
         NEW h, h = [b \in Block |-> h[b]], \A b \in used : h[b] = heap[b],
         h[t] = CallTable(d), h[m] = Label(n)
  PROVE  LET s == Added(h, used \union {New1, New2}, devHead, New3, t, m)
             l == Pushed(New3, Devices(heap, devHead))
         IN  /\ Good(s.heap, s.used, s.head, open, l)
             /\ View(s.heap, l) = Pushed([name |-> n, driver |-> d], Shown)
<1> DEFINE g == [h EXCEPT ![New3] = DfsEntry(devHead, t, m)]
           l == Devices(heap, devHead)
<1>1. /\ Added(h, used \union {New1, New2}, devHead, New3, t, m).heap = g
      /\ Added(h, used \union {New1, New2}, devHead, New3, t, m).used
           = used \union {New1, New2} \union {New3}
      /\ Added(h, used \union {New1, New2}, devHead, New3, t, m).head = New3
  BY DEF Added
<1>2. Good(heap, used, devHead, open, l)
  BY DEF Inv
<1>3. used \subseteq Block
  BY <1>2 DEF Good, Owns
<1>4. /\ {New1, New2, New3} \subseteq Block \ used
      /\ New1 # New2 /\ New1 # New3 /\ New2 # New3
  BY <1>3, FreshBlocks
<1>5. used \union {New1, New2} \union {New3} = used \union {New3, t, m}
  OBVIOUS
<1> HIDE DEF l
<1>6. /\ g = [b \in Block |-> g[b]]
      /\ \A b \in used : g[b] = heap[b]
      /\ g[New3] = DfsEntry(devHead, t, m) /\ g[t] = CallTable(d) /\ g[m] = Label(n)
  BY <1>4
<1> HIDE DEF g
<1>7. New3 # t /\ New3 # m /\ t \in Block \ used /\ m \in Block \ used /\ New3 \in Block \ used
  BY <1>4
<1>8. /\ Good(g, used \union {New3, t, m}, New3, open, Pushed(New3, l))
      /\ View(g, Pushed(New3, l)) = Pushed([name |-> n, driver |-> d], View(heap, l))
  BY <1>2, <1>6, <1>7, PushGood
<1>9. QED
  BY <1>1, <1>5, <1>8 DEF g, l, Shown

\* The first two blocks that are free are two.
LEMMA TwoFree ==
  ASSUME Inv, Room(3)
  PROVE  /\ used \subseteq Block /\ heap = [b \in Block |-> heap[b]]
         /\ {New1, New2} \subseteq Block \ used /\ New1 # New2
<1>1. used \subseteq Block /\ heap = [b \in Block |-> heap[b]]
  BY DEF Inv, Good, Owns
<1>2. {New1, New2} \subseteq Block \ used /\ New1 # New2
  BY <1>1, FreshBlocks
<1>3. QED
  BY <1>1, <1>2

\* dfs_remove of the first device with that name.
LEMMA RemovedGood ==
  ASSUME NEW hp, NEW us, NEW head, NEW l, Good(hp, us, head, open, l),
         NEW n, Find(hp, head, n) # Null
  PROVE  LET s == Removed(hp, us, head, Find(hp, head, n)) IN
         \E k \in 1 .. Len(l) :
           /\ IsFirst(View(hp, l), n, k)
           /\ Good(s.heap, s.used, s.head, open, Without(l, k))
           /\ View(s.heap, Without(l, k)) = Without(View(hp, l), k)
<1>1. PICK k \in 1 .. Len(l) : Find(hp, head, n) = l[k] /\ IsFirst(View(hp, l), n, k)
  BY FindFirst
<1>2. /\ Good(Removed(hp, us, head, l[k]).heap, Removed(hp, us, head, l[k]).used,
              Removed(hp, us, head, l[k]).head, open, Without(l, k))
      /\ View(Removed(hp, us, head, l[k]).heap, Without(l, k)) = Without(View(hp, l), k)
  BY RemoveGood
<1>3. QED
  BY <1>1, <1>2

\* Adding a device puts it in front of the table.
LEMMA AddDeviceStep ==
  ASSUME Inv, NEW n \in Name, NEW d \in Driver, AddDevice(n, d)
  PROVE  Inv' /\ AddsTo(Shown, Shown', n, d)
<1> DEFINE h == [heap EXCEPT ![New1] = Label(n), ![New2] = CallTable(d)]
           s == Added(h, used \union {New1, New2}, devHead, New3, New2, New1)
<1>1. Room(3) /\ UNCHANGED open /\ Becomes(s)
  BY DEF AddDevice
<1>2. /\ h = [b \in Block |-> h[b]] /\ \A b \in used : h[b] = heap[b]
      /\ h[New1] = Label(n) /\ h[New2] = CallTable(d) /\ New1 # New2
  BY <1>1, TwoFree
<1> HIDE DEF h
<1>3. /\ Good(s.heap, s.used, s.head, open, Pushed(New3, Devices(heap, devHead)))
      /\ View(s.heap, Pushed(New3, Devices(heap, devHead)))
           = Pushed([name |-> n, driver |-> d], Shown)
  BY <1>1, <1>2, AddedGood
<1> HIDE DEF s
<1>4. QED
  BY <1>1, <1>3, BecomesGood DEF AddsTo

\* Removing one takes the first of that name out of the table.
LEMMA RemoveDeviceStep ==
  ASSUME Inv, NEW n \in Name, RemoveDevice(n)
  PROVE  Inv' /\ TakesFrom(Shown, Shown', n)
<1> DEFINE s == Removed(heap, used, devHead, Find(heap, devHead, n))
           l == Devices(heap, devHead)
<1>1. Becomes(s) /\ UNCHANGED open /\ Find(heap, devHead, n) # Null
  BY DEF RemoveDevice
<1>2. Good(heap, used, devHead, open, l)
  BY DEF Inv
<1>3. PICK k \in 1 .. Len(l) :
        /\ IsFirst(View(heap, l), n, k)
        /\ Good(s.heap, s.used, s.head, open, Without(l, k))
        /\ View(s.heap, Without(l, k)) = Without(View(heap, l), k)
  <2> HIDE DEF l
  <2>1. QED
    BY <1>1, <1>2, RemovedGood
<1> HIDE DEF s
<1>4. QED
  BY <1>1, <1>3, BecomesGood DEF Shown, TakesFrom

\* dfs_copy: a device with the driver of the first of that name.
LEMMA CopyOfGood ==
  ASSUME Inv, Room(3), NEW s \in Name, NEW t \in Name, Find(heap, devHead, s) # Null
  PROVE  \E k : LET c == CopyOf(s, t)
                    l == Pushed(New3, Devices(heap, devHead))
                IN  /\ IsFirst(Shown, s, k)
                    /\ Good(c.heap, c.used, c.head, open, l)
                    /\ View(c.heap, l)
                         = Pushed([name |-> t, driver |-> Shown[k].driver], Shown)
<1> DEFINE l == Devices(heap, devHead)
<1>1. Good(heap, used, devHead, open, l)
  BY DEF Inv
<1>2. Shown = View(heap, l)
  BY DEF Shown
<1> HIDE DEF l
<1>3. PICK k \in 1 .. Len(l) : Find(heap, devHead, s) = l[k] /\ IsFirst(Shown, s, k)
  BY <1>1, <1>2, FindFirst
<1> DEFINE x == heap[heap[l[k]].calltable]
           d == x.driver
           h == [heap EXCEPT ![New1] = x, ![New2] = Label(t)]
           c == Added(h, used \union {New1, New2}, devHead, New3, New1, New2)
<1>4. d \in Driver /\ x = CallTable(d) /\ Shown[k].driver = d
  BY <1>1, <1>2, DeviceFacts, ViewFacts
<1>5. CopyOf(s, t) = c
  BY <1>3 DEF CopyOf
<1> HIDE DEF d, x
<1>6. /\ h = [b \in Block |-> h[b]] /\ \A b \in used : h[b] = heap[b]
      /\ h[New1] = CallTable(d) /\ h[New2] = Label(t) /\ New1 # New2
  BY <1>4, TwoFree
<1> HIDE DEF h
<1>7. /\ Good(c.heap, c.used, c.head, open, Pushed(New3, Devices(heap, devHead)))
      /\ View(c.heap, Pushed(New3, Devices(heap, devHead)))
           = Pushed([name |-> t, driver |-> d], Shown)
  BY <1>4, <1>6, AddedGood
<1> HIDE DEF c
<1>8. QED
  BY <1>3, <1>4, <1>5, <1>7

\* Copying a device puts the copy in front of the table.
LEMMA CopyDeviceStep ==
  ASSUME Inv, NEW s \in Name, NEW t \in Name, CopyDevice(s, t)
  PROVE  Inv' /\ CopiesIn(Shown, Shown', s, t)
<1> DEFINE c == CopyOf(s, t)
           l == Pushed(New3, Devices(heap, devHead))
<1>1. Find(heap, devHead, s) # Null /\ Room(3) /\ Becomes(c) /\ UNCHANGED open
  BY DEF CopyDevice
<1> HIDE DEF c, l
<1>2. PICK k : /\ IsFirst(Shown, s, k) /\ Good(c.heap, c.used, c.head, open, l)
               /\ View(c.heap, l) = Pushed([name |-> t, driver |-> Shown[k].driver], Shown)
  BY <1>1, CopyOfGood DEF c, l
<1>3. QED
  BY <1>1, <1>2, BecomesGood DEF CopiesIn, AddsTo

\* Renaming one copies it and takes the first that has the old name out: another
\* than the copy, unless the name is the same.
LEMMA RenameRemovesStep ==
  ASSUME Inv, NEW s \in Name, NEW t \in Name,
         Find(heap, devHead, s) # Null, Room(3), UNCHANGED open,
         LET c == CopyOf(s, t)
         IN  Becomes(Removed(c.heap, c.used, c.head, Find(c.heap, c.head, s)))
  PROVE  Inv' /\ RenamesIn(Shown, Shown', s, t)
<1> DEFINE c == CopyOf(s, t)
           l == Pushed(New3, Devices(heap, devHead))
           r == Removed(c.heap, c.used, c.head, Find(c.heap, c.head, s))
<1>1. Find(heap, devHead, s) # Null /\ Room(3) /\ Becomes(r) /\ UNCHANGED open
  OBVIOUS
<1> HIDE DEF c, l
<1>2. PICK k : /\ IsFirst(Shown, s, k) /\ Good(c.heap, c.used, c.head, open, l)
               /\ View(c.heap, l) = Pushed([name |-> t, driver |-> Shown[k].driver], Shown)
  BY <1>1, CopyOfGood DEF c, l
<1> DEFINE copied == Pushed([name |-> t, driver |-> Shown[k].driver], Shown)
<1>3. Find(c.heap, c.head, s) # Null
  <2>1. k \in 1 .. Len(Shown) /\ Shown[k].name = s /\ Len(Shown) \in Nat
    <3>1. Good(heap, used, devHead, open, Devices(heap, devHead))
      BY DEF Inv
    <3>2. Shown \in Seq(Table!Device)
      BY <3>1, ViewFacts DEF Shown
    <3>3. QED
      BY <1>2, <3>2 DEF IsFirst
  <2>2. k + 1 \in 1 .. Len(Shown) + 1 /\ k + 1 # 1 /\ (k + 1) - 1 = k
    BY <2>1
  <2>3. copied[k + 1].name = s
    BY <2>1, <2>2 DEF Pushed
  <2>4. /\ Len(View(c.heap, l)) = Len(l)
        /\ \A i \in 1 .. Len(l) : View(c.heap, l)[i].name = NameOf(c.heap, l[i])
    BY <1>2, ViewFacts
  <2>5. Len(View(c.heap, l)) = Len(Shown) + 1
    <3>1. Len(copied) = Len(Shown) + 1
      BY <2>1 DEF Pushed
    <3>2. QED
      BY <1>2, <3>1
  <2>6. k + 1 \in 1 .. Len(l) /\ NameOf(c.heap, l[k + 1]) = s
    BY <1>2, <2>2, <2>3, <2>4, <2>5
  <2>7. QED
    BY <1>2, <2>6, FindFirst
<1>4. PICK m \in 1 .. Len(l) :
        /\ IsFirst(copied, s, m)
        /\ Good(r.heap, r.used, r.head, open, Without(l, m))
        /\ View(r.heap, Without(l, m)) = Without(copied, m)
  <2> HIDE DEF r, copied
  <2>1. View(c.heap, l) = copied
    BY <1>2 DEF copied
  <2>2. QED
    BY <1>2, <1>3, <2>1, RemovedGood DEF r
<1> HIDE DEF r
<1>5. Inv' /\ Shown' = Without(copied, m)
  BY <1>1, <1>4, BecomesGood
<1>6. CopiesIn(Shown, copied, s, t)
  BY <1>2 DEF CopiesIn, AddsTo
<1> HIDE DEF copied
<1>7. TakesFrom(copied, Shown', s)
  BY <1>4, <1>5 DEF TakesFrom
<1>8. QED
  BY <1>5, <1>6, <1>7 DEF RenamesIn

\* dfs_rename: what dfs_copy returns decides whether the old name goes.
LEMMA RenameDeviceStep ==
  ASSUME Inv, NEW s \in Name, NEW t \in Name, RenameDevice(s, t)
  PROVE  /\ Inv'
         /\ RenamesIn(Shown, Shown', s, t) \/ CopiesIn(Shown, Shown', s, t)
<1>1. Find(heap, devHead, s) # Null /\ Room(3) /\ UNCHANGED open
  BY DEF RenameDevice
<1>2. CASE Becomes(CopyOf(s, t))
  <2>1. CopyDevice(s, t)
    BY <1>1, <1>2 DEF CopyDevice
  <2>2. QED
    BY <2>1, CopyDeviceStep
<1>3. CASE LET c == CopyOf(s, t)
           IN  Becomes(Removed(c.heap, c.used, c.head, Find(c.heap, c.head, s)))
  BY <1>1, <1>3, RenameRemovesStep
<1>4. QED
  BY <1>2, <1>3 DEF RenameDevice

\* An allocation that is freed again leaves the list.
LEMMA OpenFailsStep == ASSUME Inv, OpenFails PROVE Inv' /\ Shown' = Shown
<1> DEFINE l == Devices(heap, devHead)
           g == [heap EXCEPT ![New1] = VfsHandle]
<1>1. Room(1) /\ heap' = Freed(g, used) /\ UNCHANGED <<used, devHead, open>>
  BY DEF OpenFails
<1>2. Good(heap, used, devHead, open, l)
  BY DEF Inv
<1>3. heap = [b \in Block |-> heap[b]] /\ New1 \in Block \ used
  <2>1. used \subseteq Block /\ heap = [b \in Block |-> heap[b]]
    BY <1>2 DEF Good, Owns
  <2>2. QED
    BY <1>1, <2>1, FreshBlock
<1>4. g = [b \in Block |-> g[b]] /\ \A b \in used : g[b] = heap[b]
  BY <1>3
<1> HIDE DEF g, l
<1>5. Good(g, used, devHead, open, l) /\ View(g, l) = View(heap, l)
  BY <1>2, <1>4, SameGood
<1>6. Good(heap', used', devHead', open', l) /\ View(heap', l) = View(heap, l)
  BY <1>1, <1>5, FreedGood
<1>7. Devices(heap', devHead') = l
  BY <1>6, DevicesAre DEF Good
<1>8. QED
  BY <1>6, <1>7 DEF Inv, Shown, l

\* A new handle is one more block in use, and the list is as it was.
LEMMA NewHandleStep == ASSUME Inv, Room(1), NewHandle PROVE Inv' /\ Shown' = Shown
<1> DEFINE l == Devices(heap, devHead)
           g == [heap EXCEPT ![New1] = VfsHandle]
           us == used \union {New1}
           op == open \union {New1}
<1>1. heap' = g /\ used' = us /\ open' = op /\ devHead' = devHead
  BY DEF NewHandle
<1>2. Good(heap, used, devHead, open, l)
  BY DEF Inv
<1>3. heap = [b \in Block |-> heap[b]] /\ New1 \in Block \ used
  <2>1. used \subseteq Block /\ heap = [b \in Block |-> heap[b]]
    BY <1>2 DEF Good, Owns
  <2>2. QED
    BY <2>1, FreshBlock
<1>4. g = [b \in Block |-> g[b]] /\ g[New1] = VfsHandle /\ \A b \in used : g[b] = heap[b]
  BY <1>3
<1> HIDE DEF g, l
<1>5. Good(g, used, devHead, open, l) /\ View(g, l) = View(heap, l)
  BY <1>2, <1>4, SameGood
<1>6. Owns(g, us, op, l)
  <2>1. /\ used \subseteq Block /\ open \subseteq used
        /\ \A i \in 1 .. Len(l) : Sound(g, used, l[i])
        /\ \A i, j \in 1 .. Len(l) :
             g[l[i]].calltable = g[l[j]].calltable \/ g[l[i]].name = g[l[j]].name => i = j
        /\ \A h \in open : g[h] = VfsHandle
        /\ \A b \in used : b \in open \/ \E i \in 1 .. Len(l) :
                                           b \in {l[i], g[l[i]].calltable, g[l[i]].name}
    BY <1>5 DEF Good, Owns
  <2>2. us \subseteq Block /\ op \subseteq us /\ \A h \in op : g[h] = VfsHandle
    BY <1>3, <1>4, <2>1
  <2>3. \A i \in 1 .. Len(l) : Sound(g, us, l[i])
    BY <2>1 DEF Sound
  <2>4. \A b \in us : b \in op \/ \E i \in 1 .. Len(l) :
                                    b \in {l[i], g[l[i]].calltable, g[l[i]].name}
    BY <2>1
  <2> HIDE DEF us, op
  <2>5. QED
    BY <1>4, <2>1, <2>2, <2>3, <2>4 DEF Owns
<1>7. Good(heap', used', devHead', open', l)
  BY <1>1, <1>5, <1>6 DEF Good
<1>8. Devices(heap', devHead') = l
  BY <1>7, DevicesAre DEF Good
<1>9. QED
  BY <1>1, <1>5, <1>7, <1>8 DEF Inv, Shown, l

\* A handle that is closed is no block of a device.
LEMMA CloseHandleStep ==
  ASSUME Inv, NEW h, CloseHandle(h) PROVE Inv' /\ Shown' = Shown
<1> DEFINE l == Devices(heap, devHead)
           us == used \ {h}
           op == open \ {h}
<1>1. /\ h \in open /\ used' = us /\ open' = op /\ heap' = Freed(heap, us)
      /\ devHead' = devHead
  BY DEF CloseHandle
<1>2. Good(heap, used, devHead, open, l)
  BY DEF Inv
<1> HIDE DEF l
<1>3. /\ used \subseteq Block /\ open \subseteq used /\ heap = [b \in Block |-> heap[b]]
      /\ \A i \in 1 .. Len(l) : Sound(heap, used, l[i])
      /\ \A i, j \in 1 .. Len(l) :
           heap[l[i]].calltable = heap[l[j]].calltable \/ heap[l[i]].name = heap[l[j]].name
             => i = j
      /\ \A b \in open : heap[b] = VfsHandle
      /\ \A b \in used : b \in open \/ \E i \in 1 .. Len(l) :
                                         b \in {l[i], heap[l[i]].calltable, heap[l[i]].name}
  BY <1>2 DEF Good, Owns
<1>4. \A i \in 1 .. Len(l) : h \notin {l[i], heap[l[i]].calltable, heap[l[i]].name}
  BY <1>1, <1>2, DevicesApart
<1>5. us \subseteq Block /\ op \subseteq us /\ \A b \in op : heap[b] = VfsHandle
  BY <1>3
<1>6. \A i \in 1 .. Len(l) : Sound(heap, us, l[i])
  BY <1>3, <1>4 DEF Sound
<1>7. \A b \in us : b \in op \/ \E i \in 1 .. Len(l) :
                                  b \in {l[i], heap[l[i]].calltable, heap[l[i]].name}
  BY <1>3
<1> HIDE DEF us, op
<1>8. Owns(heap, us, op, l)
  BY <1>3, <1>5, <1>6, <1>7 DEF Owns
<1>9. Good(heap, us, devHead, op, l)
  BY <1>2, <1>8 DEF Good
<1>10. Good(heap', used', devHead', open', l) /\ View(heap', l) = View(heap, l)
  BY <1>1, <1>9, FreedGood
<1>11. Devices(heap', devHead') = l
  BY <1>10, DevicesAre DEF Good
<1>12. QED
  BY <1>10, <1>11 DEF Inv, Shown, l

\* The initial list is empty and so are the heap and the table.
LEMMA InvInit == ASSUME Init PROVE Inv /\ Shown = <<>>
<1>1. /\ heap = [b \in Block |-> Garbage] /\ used = {} /\ devHead = Null /\ open = {}
  BY DEF Init
<1>2. Len(<<>>) = 0 /\ <<>> \in Seq(Block) /\ 1 .. 0 = {}
  OBVIOUS
<1>3. IsList(heap, devHead, <<>>)
  BY <1>1, <1>2 DEF IsList, Node
<1>4. Owns(heap, used, open, <<>>)
  <2>1. heap = [b \in Block |-> heap[b]]
    BY <1>1
  <2>2. QED
    BY <1>1, <1>2, <2>1 DEF Owns
<1>5. Devices(heap, devHead) = <<>>
  BY <1>3, DevicesAre
<1>6. View(heap, <<>>) = <<>>
  BY <1>2 DEF View
<1>7. QED
  BY <1>3, <1>4, <1>5, <1>6 DEF Inv, Good, Shown

\* What every step does to the table.
LEMMA NextShown ==
  ASSUME Inv, [Next]_vars PROVE Inv' /\ Follows(Shown, Shown')
<1> DEFINE Goal == Inv' /\ Follows(Shown, Shown')
<1>1. ASSUME NEW n \in Name, NEW d \in Driver, AddDevice(n, d) PROVE Goal
  BY <1>1, AddDeviceStep DEF Follows
<1>2. ASSUME NEW n \in Name, RemoveDevice(n) PROVE Goal
  BY <1>2, RemoveDeviceStep DEF Follows
<1>3. ASSUME NEW n \in Name, NEW t \in Name, CopyDevice(n, t) PROVE Goal
  BY <1>3, CopyDeviceStep DEF Follows
<1>4. ASSUME NEW n \in Name, NEW t \in Name, RenameDevice(n, t) PROVE Goal
  BY <1>4, RenameDeviceStep DEF Follows
<1>5. ASSUME NEW n \in Name, OpenDevice(n) PROVE Goal
  BY <1>5, NewHandleStep DEF OpenDevice, Follows
<1>6. ASSUME NEW h \in Block, CloneHandle(h) PROVE Goal
  BY <1>6, NewHandleStep DEF CloneHandle, Follows
<1>7. ASSUME NEW h \in Block, CloseHandle(h) PROVE Goal
  BY <1>7, CloseHandleStep DEF Follows
<1>8. ASSUME OpenFails PROVE Goal
  BY <1>8, OpenFailsStep DEF Follows
<1>9. ASSUME UNCHANGED vars PROVE Goal
  BY <1>9 DEF vars, Inv, Shown, Follows
<1> HIDE DEF Goal
<1>10. Goal
  BY <1>1, <1>2, <1>3, <1>4, <1>5, <1>6, <1>7, <1>8, <1>9 DEF Next
<1>11. QED
  BY <1>10 DEF Goal

\* The invariant holds in every behaviour.
LEMMA Invariance == Spec => []Inv
<1>1. Init => Inv
  BY InvInit
<1>2. Inv /\ [Next]_vars => Inv'
  BY NextShown
<1>3. QED
  BY <1>1, <1>2, PTL DEF Spec

-------------------------------------------------------------------------------
(***************************************************************************)
(* Theorems.                                                               *)
(***************************************************************************)
\* TypeOK: the links of the list and of its devices always lead to blocks of the
\* right kind that are allocated, and the list ends.
THEOREM TypeCorrect == Spec => []TypeOK
<1>1. ASSUME Inv PROVE TypeOK
  <2> DEFINE l == Devices(heap, devHead)
  <2>1. Good(heap, used, devHead, open, l)
    BY <1>1 DEF Inv
  <2> HIDE DEF l
  <2>2. /\ used \subseteq Block /\ open \subseteq used
        /\ \A h \in open : heap[h] = VfsHandle
    BY <2>1 DEF Good, Owns
  <2>3. \A h \in open : heap[h].kind = "handle"
    BY <2>2 DEF VfsHandle
  <2>4. Len(l) <= MaxBlocks /\ DOMAIN l = 1 .. Len(l)
    BY <2>1, ListLength, ListFacts DEF Good
  <2>5. ASSUME NEW i \in 1 .. Len(l)
        PROVE  /\ l[i] \in used /\ heap[l[i]].kind = "device"
               /\ heap[l[i]].calltable \in used
               /\ heap[heap[l[i]].calltable] \in {CallTable(d) : d \in Driver}
               /\ heap[l[i]].name \in used
               /\ heap[heap[l[i]].name] \in {Label(n) : n \in Name}
    BY <2>1, DeviceFacts
  <2>6. Listed = {l[i] : i \in 1 .. Len(l)}
    BY <2>4 DEF Listed, l
  <2>7. Len(Devices(heap, devHead)) <= MaxBlocks
    BY <2>4 DEF l
  <2>8. QED
    BY <2>2, <2>3, <2>5, <2>6, <2>7 DEF TypeOK
<1>2. QED
  BY Invariance, <1>1, PTL

\* Sets that share nothing have as many elements as both together.
LEMMA DisjointUnion ==
  ASSUME NEW S, NEW T, IsFiniteSet(S), IsFiniteSet(T), S \intersect T = {}
  PROVE  /\ IsFiniteSet(S \union T) /\ Cardinality(S \union T) \in Nat
         /\ Cardinality(S \union T) = Cardinality(S) + Cardinality(T)
<1>1. Cardinality(S) \in Nat /\ Cardinality(T) \in Nat /\ Cardinality(S \intersect T) = 0
  BY FS_CardinalityType, FS_EmptySet
<1>2. /\ IsFiniteSet(S \union T)
      /\ Cardinality(S \union T) = Cardinality(S) + Cardinality(T) - Cardinality(S \intersect T)
  BY FS_Union
<1> DEFINE a == Cardinality(S \union T)
           b == Cardinality(S \intersect T)
           c == Cardinality(S)
           d == Cardinality(T)
<1>3. b = 0 /\ c \in Nat /\ d \in Nat /\ a = c + d - b
  BY <1>1, <1>2
<1> HIDE DEF a, b, c, d
<1>4. a = c + d /\ a \in Nat
  BY <1>3
<1>5. QED
  BY <1>2, <1>4 DEF a, c, d

\* BlocksOwned: after any sequence of calls, failed ones included, the blocks in
\* use are the open handles and three for each device; none leaks, none is shared.
THEOREM NoBlockIsLost == Spec => []BlocksOwned
<1>1. ASSUME Inv PROVE BlocksOwned
  <2> DEFINE l == Devices(heap, devHead)
             D == Listed
             T == {heap[b].calltable : b \in D}
             N == {heap[b].name : b \in D}
  <2>1. Good(heap, used, devHead, open, l)
    BY <1>1 DEF Inv
  <2> HIDE DEF l
  <2>2. DOMAIN l = 1 .. Len(l)
    BY <2>1, ListFacts DEF Good
  <2>3. D = {l[i] : i \in 1 .. Len(l)}
    BY <2>2 DEF Listed, l
  <2>4. /\ used \subseteq Block /\ open \subseteq used
        /\ \A h \in open : heap[h] = VfsHandle
        /\ \A i, j \in 1 .. Len(l) :
             heap[l[i]].calltable = heap[l[j]].calltable \/ heap[l[i]].name = heap[l[j]].name
               => i = j
        /\ \A b \in used : b \in open \/ \E i \in 1 .. Len(l) :
                                           b \in {l[i], heap[l[i]].calltable, heap[l[i]].name}
    BY <2>1 DEF Good, Owns
  <2>5. \A i \in 1 .. Len(l) :
          /\ l[i] \in used /\ heap[l[i]].kind = "device"
          /\ heap[l[i]].calltable \in used /\ heap[heap[l[i]].calltable].kind = "table"
          /\ heap[l[i]].name \in used /\ heap[heap[l[i]].name].kind = "name"
    BY <2>1, DeviceFacts
  <2>6. \A h \in open : heap[h].kind = "handle"
    BY <2>4 DEF VfsHandle
  <2> HIDE DEF D
  <2>7. /\ \A b \in D : b \in used /\ heap[b].kind = "device"
        /\ \A b \in T : b \in used /\ heap[b].kind = "table"
        /\ \A b \in N : b \in used /\ heap[b].kind = "name"
    BY <2>3, <2>5
  <2>8. used = open \union D \union T \union N
    BY <2>3, <2>4, <2>7
  <2>9. \A a, b \in D : heap[a].calltable = heap[b].calltable \/ heap[a].name = heap[b].name
                          => a = b
    BY <2>3, <2>4
  <2>10. IsFiniteSet(used) /\ IsFiniteSet(open) /\ IsFiniteSet(D)
    <3>1. IsFiniteSet(Block)
      BY BlockFacts, FS_Interval DEF Block
    <3>2. IsFiniteSet(used)
      BY <2>4, <3>1, FS_Subset
    <3>3. D \in SUBSET used /\ open \in SUBSET used
      BY <2>4, <2>7
    <3>4. QED
      BY <3>2, <3>3, FS_Subset
  <2>11. IsFiniteSet(T) /\ Cardinality(T) = Cardinality(D)
    <3> DEFINE f == [b \in D |-> heap[b].calltable]
    <3>1. f \in Bijection(D, T)
      BY <2>9 DEF Bijection, Injection, Surjection, IsInjective
    <3> HIDE DEF f, T
    <3>2. ExistsBijection(D, T)
      BY <3>1 DEF ExistsBijection
    <3>3. QED
      BY <2>10, <3>2, FS_Bijection
  <2>12. IsFiniteSet(N) /\ Cardinality(N) = Cardinality(D)
    <3> DEFINE f == [b \in D |-> heap[b].name]
    <3>1. f \in Bijection(D, N)
      BY <2>9 DEF Bijection, Injection, Surjection, IsInjective
    <3> HIDE DEF f, N
    <3>2. ExistsBijection(D, N)
      BY <3>1 DEF ExistsBijection
    <3>3. QED
      BY <2>10, <3>2, FS_Bijection
  <2>13. /\ open \intersect D = {} /\ (open \union D) \intersect T = {}
         /\ (open \union D \union T) \intersect N = {}
    BY <2>6, <2>7
  <2> HIDE DEF T, N
  <2>14. Cardinality(open) \in Nat /\ Cardinality(D) \in Nat
    BY <2>10, FS_CardinalityType
  <2>15. /\ IsFiniteSet(open \union D)
         /\ Cardinality(open \union D) = Cardinality(open) + Cardinality(D)
    BY <2>10, <2>13, DisjointUnion
  <2>16. /\ IsFiniteSet(open \union D \union T)
         /\ Cardinality(open \union D \union T) = Cardinality(open \union D) + Cardinality(D)
    BY <2>11, <2>13, <2>15, DisjointUnion
  <2>17. Cardinality(used) = Cardinality(open) + 3 * Cardinality(D)
    <3>1. Cardinality(used) = Cardinality(open \union D \union T) + Cardinality(D)
      <4> DEFINE S == open \union D \union T
      <4>1. IsFiniteSet(S) /\ S \intersect N = {} /\ used = S \union N
        BY <2>8, <2>13, <2>16
      <4> HIDE DEF S
      <4>2. Cardinality(used) = Cardinality(S) + Cardinality(N)
        BY <2>12, <4>1, DisjointUnion
      <4>3. QED
        BY <2>12, <4>2 DEF S
    <3>2. QED
      BY <2>14, <2>15, <2>16, <3>1
  <2>18. QED
    BY <2>8, <2>17 DEF BlocksOwned, D, T, N
<1>2. QED
  BY Invariance, <1>1, PTL

\* The first place of a name is where a table finds it.
LEMMA FirstIsPlace ==
  ASSUME NEW v \in Seq(Table!Device), NEW n, NEW k, IsFirst(v, n, k)
  PROVE  /\ Table!Has(v, n) /\ Table!Place(v, n) = k
         /\ Table!Removed(v, n) = Without(v, k) /\ Without(v, k) \in Seq(Table!Device)
<1>1. k \in 1 .. Len(v) /\ v[k].name = n /\ \A j \in 1 .. k - 1 : v[j].name # n
  BY DEF IsFirst
<1>2. Table!Has(v, n)
  BY <1>1 DEF Table!Has
<1>3. \A i \in 1 .. Len(v) :
        v[i].name = n /\ (\A j \in 1 .. i - 1 : v[j].name # n) => i = k
  <2> TAKE i \in 1 .. Len(v)
  <2>1. i < k => i \in 1 .. k - 1
    BY <1>1
  <2>2. k < i => k \in 1 .. i - 1
    BY <1>1
  <2>3. i < k \/ k < i \/ i = k
    BY <1>1
  <2>4. QED
    BY <1>1, <2>1, <2>2, <2>3
<1>4. Table!Place(v, n) = k
  BY <1>1, <1>3 DEF Table!Place
<1>5. /\ SubSeq(v, 1, k - 1) \o SubSeq(v, k + 1, Len(v)) = Without(v, k)
      /\ Without(v, k) \in Seq(Table!Device)
  BY <1>1, WithoutIs
<1>6. QED
  BY <1>2, <1>4, <1>5 DEF Table!Removed, Table!RemoveAt

\* Adding a device, copying one and renaming one, as the abstract table says.
LEMMA AddsAsTable ==
  ASSUME NEW v \in Seq(Table!Device), NEW n \in Name, NEW d \in Driver, NEW x,
         AddsTo(v, x, n, d)
  PROVE  x = Table!Added(v, n, d) /\ x \in Seq(Table!Device)
<1> DEFINE e == [name |-> n, driver |-> d]
<1>1. e \in Table!Device
  BY DEF Table!Device
<1> HIDE DEF e
<1>2. <<e>> \o v = Pushed(e, v) /\ Pushed(e, v) \in Seq(Table!Device)
  BY <1>1, PushedIs
<1>3. QED
  BY <1>2 DEF AddsTo, Table!Added, e

LEMMA CopiesAsTable ==
  ASSUME NEW v \in Seq(Table!Device), NEW n \in Name, NEW t \in Name, NEW c,
         CopiesIn(v, c, n, t)
  PROVE  /\ Table!Has(v, n) /\ c = Table!Copied(v, n, t)
         /\ c \in Seq(Table!Device)
<1>1. PICK k : IsFirst(v, n, k) /\ AddsTo(v, c, t, v[k].driver)
  BY DEF CopiesIn
<1>2. Table!Has(v, n) /\ Table!Place(v, n) = k
  BY <1>1, FirstIsPlace
<1>3. v[k] \in Table!Device
  BY <1>1 DEF IsFirst
<1>4. v[k].driver \in Driver
  BY <1>3 DEF Table!Device
<1>5. c = Table!Added(v, t, v[k].driver) /\ c \in Seq(Table!Device)
  BY <1>1, <1>4, AddsAsTable
<1>6. QED
  BY <1>2, <1>5 DEF Table!Copied

LEMMA RenamesAsTable ==
  ASSUME NEW v \in Seq(Table!Device), NEW n \in Name, NEW t \in Name, NEW w,
         RenamesIn(v, w, n, t)
  PROVE  Table!Has(v, n) /\ w = Table!Removed(Table!Copied(v, n, t), n)
<1>1. PICK c : CopiesIn(v, c, n, t) /\ TakesFrom(c, w, n)
  BY DEF RenamesIn
<1>2. Table!Has(v, n) /\ c = Table!Copied(v, n, t) /\ c \in Seq(Table!Device)
  BY <1>1, CopiesAsTable
<1>3. w = Table!Removed(c, n)
  BY <1>1, <1>2, FirstIsPlace DEF TakesFrom
<1>4. QED
  BY <1>2, <1>3

\* What the operations do to a table is what an abstract one promises.
LEMMA FollowsTable ==
  ASSUME NEW v \in Seq(Table!Device), NEW w, Follows(v, w)
  PROVE  \/ w = v
         \/ \E n \in Name :
              \/ \E d \in Driver : w = Table!Added(v, n, d)
              \/ Table!Has(v, n) /\ w = Table!Removed(v, n)
              \/ \E t \in Name :
                   /\ Table!Has(v, n)
                   /\ \/ w = Table!Copied(v, n, t)
                      \/ w = Table!Removed(Table!Copied(v, n, t), n)
<1>1. ASSUME NEW n \in Name, TakesFrom(v, w, n)
      PROVE  Table!Has(v, n) /\ w = Table!Removed(v, n)
  BY <1>1, FirstIsPlace DEF TakesFrom
<1>2. QED
  BY <1>1, AddsAsTable, CopiesAsTable, RenamesAsTable DEF Follows

\* ImplementsTable: the linked list behaves as a table of devices in which the
\* newest of a name is found, and removal takes that one out.
THEOREM ActsAsTable == Spec => ImplementsTable
<1> DEFINE list == LET l == Devices(heap, devHead)
                   IN  [i \in DOMAIN l |->
                          [name |-> NameOf(heap, l[i]),
                           driver |-> heap[heap[l[i]].calltable].driver]]
<1>1. ASSUME NEW hp, NEW us, NEW head, NEW op, NEW l, Good(hp, us, head, op, l)
      PROVE  [i \in DOMAIN l |-> [name |-> NameOf(hp, l[i]),
                                  driver |-> hp[hp[l[i]].calltable].driver]] = View(hp, l)
  <2>1. DOMAIN l = 1 .. Len(l)
    BY <1>1, ListFacts DEF Good
  <2>2. QED
    BY <2>1 DEF View
<1>2. Inv => list = Shown /\ Shown \in Seq(Table!Device)
  BY <1>1, ViewFacts DEF Inv, Shown
<1>3. Inv' => list' = Shown'
  BY <1>1 DEF Inv, Shown
<1>4. Init => Table!Init
  <2>1. ASSUME Init PROVE list = <<>>
    <3> HIDE DEF list
    <3>1. QED
      BY <2>1, <1>2, InvInit
  <2>2. QED
    BY <2>1 DEF Table!Init
<1>5. ASSUME Inv, [Next]_vars PROVE [Table!Next]_list
  <2>1. Inv' /\ Follows(Shown, Shown')
    BY <1>5, NextShown
  <2>2. list = Shown /\ list' = Shown' /\ Shown \in Seq(Table!Device)
    BY <1>2, <1>3, <1>5, <2>1
  <2> HIDE DEF list
  <2>3. \/ list' = list
        \/ \E n \in Name :
             \/ \E d \in Driver : list' = Table!Added(list, n, d)
             \/ Table!Has(list, n) /\ list' = Table!Removed(list, n)
             \/ \E t \in Name :
                  /\ Table!Has(list, n)
                  /\ \/ list' = Table!Copied(list, n, t)
                     \/ list' = Table!Removed(Table!Copied(list, n, t), n)
    BY <2>1, <2>2, FollowsTable
  <2>4. [Table!Next]_list
    BY Zenon, <2>3 DEF list, Table!Next, Table!Add, Table!Delete, Table!Copy, Table!Rename
  <2>5. QED
    BY <2>4 DEF list
<1>6. QED
  BY <1>4, <1>5, Invariance, PTL DEF Spec, ImplementsTable, Table!Spec

\* RenamesTheDevice: dfs_rename gives the first device of the old name the new
\* name and touches no other; the device keeps the old name too when dfs_copy's
\* missing return value is read as FAIL.
THEOREM RenamingKeepsTheDevice == Spec => RenamesTheDevice
<1> DEFINE list == LET l == Devices(heap, devHead)
                   IN  [i \in DOMAIN l |->
                          [name |-> NameOf(heap, l[i]),
                           driver |-> heap[heap[l[i]].calltable].driver]]
<1>1. ASSUME NEW hp, NEW us, NEW head, NEW op, NEW l, Good(hp, us, head, op, l)
      PROVE  [i \in DOMAIN l |-> [name |-> NameOf(hp, l[i]),
                                  driver |-> hp[hp[l[i]].calltable].driver]] = View(hp, l)
  <2>1. DOMAIN l = 1 .. Len(l)
    BY <1>1, ListFacts DEF Good
  <2>2. QED
    BY <2>1 DEF View
<1>2. Inv => list = Shown /\ Shown \in Seq(Table!Device)
  BY <1>1, ViewFacts DEF Inv, Shown
<1>3. Inv' => list' = Shown'
  BY <1>1 DEF Inv, Shown
<1>4. ASSUME Inv, NEW s \in Name, NEW t \in Name, RenameDevice(s, t)
      PROVE  Table!Rename(s, t) \/ Table!Copy(s, t)
  <2>1. /\ Inv'
        /\ RenamesIn(Shown, Shown', s, t) \/ CopiesIn(Shown, Shown', s, t)
    BY <1>4, RenameDeviceStep
  <2>2. list = Shown /\ list' = Shown' /\ Shown \in Seq(Table!Device)
    BY <1>2, <1>3, <1>4, <2>1
  <2> HIDE DEF list
  <2>3. /\ Table!Has(list, s)
        /\ \/ list' = Table!Removed(Table!Copied(list, s, t), s)
           \/ list' = Table!Copied(list, s, t)
    BY <2>1, <2>2, RenamesAsTable, CopiesAsTable
  <2>4. QED
    BY Zenon, <2>3 DEF list, Table!Copy, Table!Rename
<1>5. Inv => [\A s, t \in Name :
                RenameDevice(s, t) => Table!Rename(s, t) \/ Table!Copy(s, t)]_vars
  BY <1>4
<1>6. QED
  BY <1>5, Invariance, PTL DEF RenamesTheDevice
===============================================================================
