----------------------------- MODULE PagingProofs -----------------------------
(***************************************************************************)
(* What paging.c promises, for any sizes of tables and pages and any       *)
(* number of contexts. Its tables are a map of the process's addresses,    *)
(* whatever was in the frames they were made in (PageTables). The lock     *)
(* that it creates directories under, and those of mm.c and physical.c,    *)
(* are taken in one order, so contexts that create directories and map     *)
(* pages cannot deadlock (KernelLocks).                                    *)
(***************************************************************************)
EXTENDS PageTables, KernelLocks, SequenceTheorems, TLAPS

-------------------------------------------------------------------------------
(***************************************************************************)
(* The page tables of paging.c.                                            *)
(***************************************************************************)

\* The address of page i of the table at entry d of the directory.
PageAt(d, i) == (d * ENTRIES + i) * PAGE

\* The entries of the directory that lead to tables.
User == 0 .. Last - 1

\* The premise: a region begins less than a page before the first page of a
\* table, as the kernel's heap does, and stays below the addresses of the
\* tables themselves.
RegionsFit ==
  \A o \in Origin : \E d \in Index :
    /\ o <= PageAt(d, 0) /\ PageAt(d, 0) < o + PAGE
    /\ d * ENTRIES + Size[o] <= Last * ENTRIES

\* The address of page k of the region at o, as mm_morecore and
\* paging_setPageTableEntry compute it.
RegionPage(o, k) == PageAlign(o + k * PAGE)

-------------------------------------------------------------------------------
(***************************************************************************)
(* Addresses.                                                              *)
(***************************************************************************)

\* A quotient and a remainder are the only ones.
LEMMA QuotientIs ==
  ASSUME NEW b \in Nat \ {0}, NEW q \in Nat, NEW r \in 0 .. b - 1,
         NEW p, p = q * b + r
  PROVE  p \div b = q /\ p % b = r
<1>1. \A x, y \in Nat : x < y => x * b + b <= y * b
  OBVIOUS
<1> DEFINE d == p \div b
           m == p % b
<1>2. q * b \in Nat /\ p \in Nat
  OBVIOUS
<1>3. d \in Nat /\ m \in 0 .. b - 1 /\ p = d * b + m
  BY <1>2
<1> HIDE DEF d, m
<1>4. d * b \in Nat
  BY <1>3
<1>5. ~ (d < q) /\ ~ (q < d)
  BY <1>1, <1>2, <1>3, <1>4
<1>6. d = q
  BY <1>3, <1>5
<1>7. m = r
  BY <1>2, <1>3, <1>4, <1>6
<1> QED
  BY <1>6, <1>7 DEF d, m

\* Pages before the end of the address space have addresses below it.
LEMMA PageBelow ==
  ASSUME NEW n \in 0 .. ENTRIES * ENTRIES - 1
  PROVE  n * PAGE \in Nat /\ n * PAGE + PAGE <= Limit /\ Limit \in Nat \ {0}
<1>1. ENTRIES \in Nat \ {0} /\ PAGE \in Nat \ {0}
  BY SizesAssumption
<1> DEFINE m == ENTRIES * ENTRIES
<1>2. m \in Nat /\ n \in Nat /\ n + 1 <= m
  BY <1>1
<1>3. Limit = m * PAGE
  BY DEF Limit
<1> HIDE DEF m
<1>4. n * PAGE \in Nat /\ (n + 1) * PAGE = n * PAGE + PAGE /\ m * PAGE \in Nat
  BY <1>1, <1>2
<1>5. (n + 1) * PAGE <= m * PAGE
  BY <1>1, <1>2
<1> QED
  BY <1>1, <1>3, <1>4, <1>5

\* PAGE_ALIGN rounds up to a page that there is.
LEMMA AlignIs ==
  ASSUME NEW n \in 0 .. ENTRIES * ENTRIES - 1, NEW a \in Int,
         a <= n * PAGE, n * PAGE < a + PAGE
  PROVE  PageAlign(a) = n * PAGE
<1>1. PAGE \in Nat \ {0} /\ n \in Nat
  BY SizesAssumption
<1> DEFINE b == a + PAGE - 1
           r == b - n * PAGE
<1>2. n * PAGE \in Nat /\ n * PAGE + PAGE <= Limit /\ Limit \in Nat \ {0}
  BY PageBelow
<1>3. r \in 0 .. PAGE - 1 /\ b = n * PAGE + r /\ b \in 0 .. Limit - 1
  BY <1>1, <1>2
<1>4. PageAlign(a) = ((b % Limit) \div PAGE) * PAGE
  BY DEF PageAlign
<1> HIDE DEF b, r
<1>5. b = 0 * Limit + b
  BY <1>2, <1>3
<1>6. b % Limit = b
  BY <1>2, <1>3, <1>5, QuotientIs
<1>7. b \div PAGE = n
  BY <1>1, <1>3, QuotientIs
<1> QED
  BY <1>4, <1>6, <1>7

\* The pages of the directory's tables are the pages of the address space.
LEMMA PageNumbers ==
  ASSUME NEW d \in Index, NEW i \in Index
  PROVE  d * ENTRIES + i \in 0 .. ENTRIES * ENTRIES - 1
<1>1. ENTRIES \in Nat \ {0} /\ d \in Nat /\ i \in Nat /\ i + 1 <= ENTRIES
      /\ d + 1 <= ENTRIES
  BY SizesAssumption DEF Index, Last
<1>2. d * ENTRIES \in Nat /\ ENTRIES * ENTRIES \in Nat
      /\ (d + 1) * ENTRIES = d * ENTRIES + ENTRIES
  BY <1>1
<1>3. (d + 1) * ENTRIES <= ENTRIES * ENTRIES
  BY <1>1
<1> QED
  BY <1>1, <1>2, <1>3

\* PAGE_DIRECTORY_INDEX, PAGE_TABLE_INDEX and PAGE_ALIGN of a page's address.
LEMMA PageAtParts ==
  ASSUME NEW d \in Index, NEW i \in Index
  PROVE  /\ PageAt(d, i) \in 0 .. Limit - 1
         /\ DirIndex(PageAt(d, i)) = d
         /\ TableIndex(PageAt(d, i)) = i
         /\ PageAlign(PageAt(d, i)) = PageAt(d, i)
<1>1. ENTRIES \in Nat \ {0} /\ PAGE \in Nat \ {0}
      /\ d \in Nat /\ i \in 0 .. ENTRIES - 1
  BY SizesAssumption DEF Index, Last
<1> DEFINE n == d * ENTRIES + i
<1>2. n \in 0 .. ENTRIES * ENTRIES - 1 /\ n \in Nat
  BY PageNumbers
<1>3. n \div ENTRIES = d /\ n % ENTRIES = i
  BY <1>1, <1>2, QuotientIs
<1>4. PageAt(d, i) = n * PAGE
  BY DEF PageAt
<1> HIDE DEF n
<1>5. n * PAGE \in Nat /\ n * PAGE + PAGE <= Limit /\ Limit \in Nat
  BY <1>2, PageBelow
<1>6. n * PAGE = n * PAGE + 0 /\ 0 \in 0 .. PAGE - 1
  BY <1>1, <1>5
<1>7. (n * PAGE) \div PAGE = n
  BY <1>1, <1>2, <1>6, QuotientIs
<1>8. PageAlign(n * PAGE) = n * PAGE
  BY <1>1, <1>2, <1>5, AlignIs
<1> QED
  BY <1>1, <1>3, <1>4, <1>5, <1>7, <1>8 DEF DirIndex, TableIndex

\* The loop that clears a table goes through the table's own pages, when it
\* begins at the first one.
LEMMA LoopAddress ==
  ASSUME NEW d \in Index, NEW i \in Index
  PROVE  (PageAt(d, 0) + i * PAGE) % Limit = PageAt(d, i)
<1>1. ENTRIES \in Nat \ {0} /\ PAGE \in Nat \ {0} /\ d \in Nat /\ i \in Nat
  BY SizesAssumption DEF Index, Last
<1>2. d * ENTRIES \in Nat
  BY <1>1
<1>3. PageAt(d, 0) + i * PAGE = PageAt(d, i)
  BY <1>1, <1>2 DEF PageAt
<1>4. PageAt(d, i) \in 0 .. Limit - 1
  BY PageAtParts
<1>5. Limit \in Nat \ {0}
  BY PageNumbers, PageBelow
<1>6. PageAt(d, i) = 0 * Limit + PageAt(d, i)
  BY <1>4, <1>5
<1>7. PageAt(d, i) % Limit = PageAt(d, i)
  BY <1>4, <1>5, <1>6, QuotientIs
<1> QED
  BY <1>3, <1>7

\* A region's pages are below the addresses of the tables; and one that is not
\* the first of its table follows one of the same table.
LEMMA RegionPages ==
  ASSUME RegionsFit, NEW o \in Origin, NEW k \in Nat, k < Size[o]
  PROVE  \E d \in User, i \in Index :
           /\ RegionPage(o, k) = PageAt(d, i)
           /\ o + k * PAGE <= PageAt(d, i) /\ PageAt(d, i) < o + k * PAGE + PAGE
           /\ i # 0 => /\ k > 0
                       /\ RegionPage(o, k - 1) = PageAt(d, i - 1)
<1>1. ENTRIES \in Nat \ {0} /\ PAGE \in Nat \ {0} /\ Size[o] \in Nat
      /\ o \in Int /\ Last \in Nat /\ Last + 1 = ENTRIES
  BY SizesAssumption DEF Last, Limit
<1>2. PICK s \in Index :
        /\ o <= PageAt(s, 0) /\ PageAt(s, 0) < o + PAGE
        /\ s * ENTRIES + Size[o] <= Last * ENTRIES
  BY DEF RegionsFit
<1> DEFINE q == k \div ENTRIES
           i == k % ENTRIES
           d == s + q
<1>3. /\ s \in Nat /\ q \in Nat /\ i \in 0 .. Last /\ d \in Nat
      /\ k = q * ENTRIES + i
  BY <1>1, <1>2 DEF Index
<1> HIDE DEF q, i
<1>4. /\ s * ENTRIES \in Nat /\ q * ENTRIES \in Nat /\ Last * ENTRIES \in Nat
      /\ (s + q) * ENTRIES = s * ENTRIES + q * ENTRIES
  BY <1>1, <1>3
<1>5. d * ENTRIES + i = s * ENTRIES + k
  BY <1>3, <1>4
<1>6. d * ENTRIES < Last * ENTRIES
  BY <1>1, <1>2, <1>3, <1>4, <1>5
<1>7. d < Last
  <2>1. d >= Last => d * ENTRIES >= Last * ENTRIES
    BY <1>1, <1>3
  <2> QED
    BY <1>1, <1>3, <1>4, <1>6, <2>1
<1>8. d \in User /\ i \in Index /\ d \in Index
  BY <1>1, <1>3, <1>7 DEF User, Index
<1>9. ASSUME NEW j \in 0 .. k
      PROVE  /\ RegionPage(o, j) = (s * ENTRIES + j) * PAGE
             /\ o + j * PAGE <= (s * ENTRIES + j) * PAGE
             /\ (s * ENTRIES + j) * PAGE < o + j * PAGE + PAGE
  <2>1. s * ENTRIES + j \in 0 .. ENTRIES * ENTRIES - 1
    <3>1. d * ENTRIES + i \in 0 .. ENTRIES * ENTRIES - 1
      BY <1>8, PageNumbers
    <3>2. j \in Nat /\ j <= k
      OBVIOUS
    <3>3. ENTRIES * ENTRIES \in Nat
      BY <1>1
    <3> QED
      BY <1>4, <1>5, <3>1, <3>2, <3>3
  <2>2. /\ j * PAGE \in Nat /\ (s * ENTRIES) * PAGE \in Nat
        /\ (s * ENTRIES + j) * PAGE = (s * ENTRIES) * PAGE + j * PAGE
    BY <1>1, <1>4
  <2>3. PageAt(s, 0) = (s * ENTRIES) * PAGE
    BY <1>4 DEF PageAt
  <2>4. /\ o + j * PAGE \in Int
        /\ o + j * PAGE <= (s * ENTRIES + j) * PAGE
        /\ (s * ENTRIES + j) * PAGE < o + j * PAGE + PAGE
    BY <1>1, <1>2, <2>2, <2>3
  <2> QED
    BY <2>1, <2>4, AlignIs DEF RegionPage
<1>10. /\ RegionPage(o, k) = PageAt(d, i)
       /\ o + k * PAGE <= PageAt(d, i) /\ PageAt(d, i) < o + k * PAGE + PAGE
  BY <1>3, <1>5, <1>9 DEF PageAt
<1>11. ASSUME i # 0
       PROVE  k > 0 /\ RegionPage(o, k - 1) = PageAt(d, i - 1)
  <2>1. k > 0
    BY <1>3, <1>4, <1>11
  <2>2. d * ENTRIES + (i - 1) = s * ENTRIES + (k - 1)
    <3>1. d * ENTRIES \in Nat /\ i \in Int
      BY <1>1, <1>3
    <3> HIDE DEF d
    <3> QED
      BY <1>4, <1>5, <3>1
  <2>3. k - 1 \in 0 .. k
    BY <2>1
  <2> QED
    BY <1>9, <2>1, <2>2, <2>3 DEF PageAt
<1> QED
  BY <1>8, <1>10, <1>11

\* The addresses of user space, by their indexes.
LEMMA UserAddresses ==
  /\ \A a \in UserAddress : /\ DirIndex(a) \in User /\ DirIndex(a) \in Index
                            /\ TableIndex(a) \in Index
                            /\ a = PageAt(DirIndex(a), TableIndex(a))
  /\ \A d \in User, i \in Index : d \in Index /\ PageAt(d, i) \in UserAddress
<1>1. ENTRIES \in Nat \ {0} /\ PAGE \in Nat \ {0} /\ Last \in Nat
      /\ Last + 1 = ENTRIES /\ Last * ENTRIES \in Nat
  BY SizesAssumption DEF Last
<1>2. User \subseteq Index
  BY <1>1 DEF User, Index
<1>3. ASSUME NEW a \in UserAddress
      PROVE  /\ DirIndex(a) \in User /\ TableIndex(a) \in Index
             /\ a = PageAt(DirIndex(a), TableIndex(a))
  <2>1. PICK n \in 0 .. Last * ENTRIES - 1 : a = n * PAGE
    BY DEF UserAddress
  <2> DEFINE d == n \div ENTRIES
             i == n % ENTRIES
  <2>2. d \in Nat /\ i \in 0 .. Last /\ n = d * ENTRIES + i /\ n \in Nat
    BY <1>1
  <2> HIDE DEF d, i
  <2>3. d >= Last => d * ENTRIES >= Last * ENTRIES
    BY <1>1, <2>2
  <2>4. d \in User /\ i \in Index
    <3>1. d * ENTRIES \in Nat
      BY <1>1, <2>2
    <3> QED
      BY <1>1, <2>2, <2>3, <3>1 DEF User, Index
  <2>5. a = PageAt(d, i)
    BY <2>1, <2>2 DEF PageAt
  <2>6. DirIndex(a) = d /\ TableIndex(a) = i
    BY <1>2, <2>4, <2>5, PageAtParts
  <2> QED
    BY <2>4, <2>5, <2>6
<1>4. ASSUME NEW d \in User, NEW i \in Index
      PROVE  PageAt(d, i) \in UserAddress
  <2>1. d \in Nat /\ d + 1 <= Last /\ i \in Nat /\ i + 1 <= ENTRIES
    BY <1>1 DEF User, Index
  <2>2. d * ENTRIES \in Nat /\ (d + 1) * ENTRIES = d * ENTRIES + ENTRIES
    BY <1>1, <2>1
  <2>3. (d + 1) * ENTRIES <= Last * ENTRIES
    BY <1>1, <2>1
  <2>4. d * ENTRIES + i \in 0 .. Last * ENTRIES - 1
    BY <1>1, <2>1, <2>2, <2>3
  <2> QED
    BY <2>4 DEF PageAt, UserAddress
<1> QED
  BY <1>2, <1>3, <1>4
-------------------------------------------------------------------------------
(***************************************************************************)
(* The invariant.                                                          *)
(***************************************************************************)

\* Calls of paging_setPageTableEntry.
Call == [addr : 0 .. Limit - 1, frame : Page \union {NoFrame},
         present : BOOLEAN, loop : -1 .. ENTRIES,
         table : Frame \union {NoFrame}]

\* The types, with what is on the stack in full.
Types ==
  /\ mem \in [Frame -> [Index -> Entry]]
  /\ dir \in Frame \union {NoFrame} /\ made \subseteq Frame
  /\ calls \in Seq(Call)
  /\ pages \in [Origin -> Nat]
  /\ \A o \in Origin : pages[o] <= Size[o]
  /\ halted \in BOOLEAN

\* An entry for tables is empty, or leads to a table that no other leads to.
Directory ==
  /\ dir \notin made
  /\ dir = NoFrame => calls = <<>> /\ \A o \in Origin : pages[o] = 0
  /\ dir # NoFrame =>
       \A d \in User :
         LET t == mem[dir][d].frame IN
           /\ t # NoFrame => mem[dir][d].present /\ t \in made
           /\ t = NoFrame => ~ mem[dir][d].present
           /\ \A e \in User : t # NoFrame /\ mem[dir][e].frame = t => d = e

\* The test of paging_getPageTableEntry.
HasTable(d) == mem[dir][d].frame # NoFrame

\* The call of paging_map, whose address the table at entry d serves.  What it
\* makes a table for is the table's first page.
Outer(c, d) ==
  /\ \E i \in Index : c.addr = PageAt(d, i) /\ (i # 0 => HasTable(d))
  /\ c.frame \in Page /\ c.present
  /\ c.loop # NotYet => /\ c.addr = PageAt(d, 0) /\ c.loop \in 0 .. ENTRIES
                        /\ HasTable(d) /\ c.table = mem[dir][d].frame

\* The first n entries of the table are cleared.
ClearedTo(t, n) == \A i \in Index : i < n => ~ mem[t][i].present

\* The calls in progress: none, one, or one that makes a table and the one it
\* made for the entry that it clears.
Stack ==
  /\ Len(calls) <= 2
  /\ calls # <<>> =>
       \E d \in User :
         /\ Outer(calls[1], d)
         /\ Len(calls) = 1 /\ calls[1].loop # NotYet =>
              ClearedTo(calls[1].table, calls[1].loop)
         /\ Len(calls) = 2 =>
              /\ calls[1].loop \in 1 .. ENTRIES
              /\ ClearedTo(calls[1].table, calls[1].loop - 1)
              /\ calls[2] = CallOf(PageAt(d, calls[1].loop - 1), NoFrame, FALSE)

\* Whatever page a region has got has a table, or the call in progress is
\* about to find or to make it.
Reached ==
  \A o \in Origin, k \in Nat :
    k < pages[o] =>
      \/ HasTable(DirIndex(RegionPage(o, k)))
      \/ calls # <<>> /\ DirIndex(calls[1].addr) = DirIndex(RegionPage(o, k))

\* The inductive invariant.
Inv == RegionsFit /\ Types /\ Directory /\ Stack /\ Reached

-------------------------------------------------------------------------------
(***************************************************************************)
(* The invariant, action by action.                                        *)
(***************************************************************************)

\* The sizes and the indexes, as the provers need them.
LEMMA Numbers ==
  /\ ENTRIES \in Nat \ {0} /\ Last \in Nat /\ Last + 1 = ENTRIES
  /\ User \subseteq Index /\ User \subseteq Nat /\ Index \subseteq Nat
  /\ Index = 0 .. ENTRIES - 1
  /\ NoFrame \notin Frame /\ NoFrame \notin Page
BY SizesAssumption, FramesAssumption DEF Last, User, Index

\* What is on the stack is a call for a page, and what the top call is about.
LEMMA CallsAre ==
  ASSUME NEW d \in Index, NEW i \in Index, NEW f \in Page \union {NoFrame},
         NEW b \in BOOLEAN
  PROVE  /\ CallOf(PageAt(d, i), f, b) \in Call
         /\ CallOf(PageAt(d, i), f, b).addr = PageAt(d, i)
         /\ CallOf(PageAt(d, i), f, b).loop = NotYet
BY PageAtParts, Numbers DEF CallOf, Call, NotYet

\* Stacks of one or two calls.
LEMMA OneCall ==
  ASSUME NEW c \in Call
  PROVE  <<c>> \in Seq(Call) /\ Len(<<c>>) = 1 /\ <<c>>[1] = c /\ <<c>> # <<>>
OBVIOUS

\* What the top of a stack stands on.
LEMMA StackParts ==
  ASSUME NEW s \in Seq(Call), s # <<>>, Len(s) <= 2
  PROVE  /\ s[1] \in Call
         /\ (Len(s) = 1 \/ (Len(s) = 2 /\ s[2] \in Call))
         /\ SubSeq(s, 1, Len(s) - 1) \in Seq(Call)
         /\ Len(s) = 1 => SubSeq(s, 1, Len(s) - 1) = <<>>
         /\ Len(s) = 2 => /\ Len(SubSeq(s, 1, Len(s) - 1)) = 1
                          /\ SubSeq(s, 1, Len(s) - 1) # <<>>
                          /\ SubSeq(s, 1, Len(s) - 1)[1] = s[1]
<1>1. Len(s) \in Nat /\ Len(s) # 0
  BY EmptySeq, LenProperties
<1>2. Len(s) = 1 \/ Len(s) = 2
  <2>1. \A n \in Nat : n # 0 /\ n <= 2 => n = 1 \/ n = 2
    OBVIOUS
  <2> QED
    BY <1>1, <2>1
<1>3. s[1] \in Call /\ (Len(s) = 2 => s[2] \in Call)
  BY <1>2, ElementOfSeq
<1>4. CASE Len(s) = 1
  <2>1. SubSeq(s, 1, 0) = <<>>
    BY SubSeqEmpty
  <2> QED
    BY <1>3, <1>4, <2>1, EmptySeq
<1>5. CASE Len(s) = 2
  <2>1. \A i \in 1 .. 1 : s[i] \in Call
    BY <1>3
  <2>2. /\ SubSeq(s, 1, 1) \in Seq(Call)
        /\ Len(SubSeq(s, 1, 1)) = IF 1 <= 1 THEN 1 - 1 + 1 ELSE 0
        /\ \A i \in 1 .. 1 - 1 + 1 : SubSeq(s, 1, 1)[i] = s[1 + i - 1]
    BY <2>1, SubSeqProperties
  <2>3. /\ SubSeq(s, 1, 1) \in Seq(Call) /\ Len(SubSeq(s, 1, 1)) = 1
        /\ SubSeq(s, 1, 1)[1] = s[1]
    BY <2>2
  <2> QED
    BY <1>3, <1>5, <2>3, EmptySeq
<1> QED
  BY <1>2, <1>4, <1>5

\* SetTop, and the call that ClearEntry pushes.
LEMMA TopReplaced ==
  ASSUME NEW s \in Seq(Call), Len(s) = 1, NEW c \in Call, NEW e \in Call
  PROVE  LET r == [s EXCEPT ![Len(s)] = c]
         IN  /\ r \in Seq(Call) /\ Len(r) = 1 /\ r[1] = c /\ r # <<>>
             /\ Append(r, e) \in Seq(Call) /\ Len(Append(r, e)) = 2
             /\ Append(r, e)[1] = c /\ Append(r, e)[2] = e
             /\ Append(r, e) # <<>>
<1> DEFINE r == [s EXCEPT ![Len(s)] = c]
<1>1. r = <<c>>
  OBVIOUS
<1>2. /\ <<c>> \in Seq(Call) /\ Len(<<c>>) = 1 /\ <<c>>[1] = c /\ <<c>> # <<>>
      /\ Append(<<c>>, e) \in Seq(Call) /\ Len(Append(<<c>>, e)) = 2
      /\ Append(<<c>>, e)[1] = c /\ Append(<<c>>, e)[2] = e
      /\ Append(<<c>>, e) # <<>>
  OBVIOUS
<1> QED
  BY <1>1, <1>2

\* A table that is being made is the first call's.
LEMMA MakingIsFirst ==
  ASSUME NEW s \in Seq(Call), Len(s) <= 2, Len(s) = 2 => s[2].loop = NotYet,
         NEW d
  PROVE  (\E k \in 1 .. Len(s) : s[k].loop # NotYet /\ DirIndex(s[k].addr) = d)
         <=> s # <<>> /\ s[1].loop # NotYet /\ DirIndex(s[1].addr) = d
<1>1. s = <<>> \/ Len(s) = 1 \/ Len(s) = 2
  <2>1. Len(s) \in Nat /\ (Len(s) = 0 => s = <<>>)
    BY EmptySeq, LenProperties
  <2>2. \A n \in Nat : n <= 2 => n = 0 \/ n = 1 \/ n = 2
    OBVIOUS
  <2> QED
    BY <2>1, <2>2
<1>2. 1 .. 1 = {1} /\ 1 .. 2 = {1, 2}
  OBVIOUS
<1>3. CASE s = <<>>
  BY <1>3
<1>4. CASE Len(s) = 1
  BY <1>2, <1>4
<1>5. CASE Len(s) = 2
  BY <1>2, <1>5
<1> QED
  BY <1>1, <1>3, <1>4, <1>5

\* The indexes of the first call's address.
LEMMA OuterParts ==
  ASSUME NEW c, NEW d \in User, Outer(c, d)
  PROVE  /\ DirIndex(c.addr) = d /\ TableIndex(c.addr) \in Index
         /\ c.addr = PageAt(d, TableIndex(c.addr))
         /\ TableIndex(c.addr) # 0 => HasTable(d)
         /\ c.loop # NotYet => TableIndex(c.addr) = 0
<1>1. d \in Index /\ 0 \in Index
  BY Numbers
<1>2. PICK i \in Index : c.addr = PageAt(d, i) /\ (i # 0 => HasTable(d))
  BY DEF Outer
<1>3. DirIndex(c.addr) = d /\ TableIndex(c.addr) = i
  BY <1>1, <1>2, PageAtParts
<1>4. c.loop # NotYet => TableIndex(c.addr) = 0
  BY <1>1, PageAtParts DEF Outer
<1> QED
  BY <1>2, <1>3, <1>4

\* There is no directory and no call at the start.
LEMMA InitInv == RegionsFit /\ Init => Inv
<1> SUFFICES ASSUME RegionsFit, Init PROVE Inv
  OBVIOUS
<1>1. Last \in Nat /\ Last \in Index
  BY Numbers
<1>2. \A f \in Frame : /\ Junk(f) \in [Index -> Entry]
                       /\ NewDirectory(f) \in [Index -> Entry]
  BY DEF Junk, NewDirectory, Entry
<1>3. mem \in [Frame -> [Index -> Entry]]
  BY <1>2 DEF Init
<1>4. Types
  <2>1. calls \in Seq(Call)
    BY DEF Init
  <2>2. pages \in [Origin -> Nat] /\ \A o \in Origin : pages[o] <= Size[o]
    BY SizesAssumption DEF Init
  <2> QED
    BY <1>3, <2>1, <2>2 DEF Init, Types
<1>5. Directory
  BY Numbers DEF Init, Directory
<1>6. Stack /\ Reached
  BY SizesAssumption DEF Init, Stack, Reached
<1> QED
  BY <1>4, <1>5, <1>6 DEF Inv

\* paging_createDirectory: the entries for tables are empty.
LEMMA CreateDirectoryInv ==
  ASSUME Inv, NEW d \in Frame, CreateDirectory(d)
  PROVE  /\ Inv'
         /\ \A e \in User : ~ mem'[dir'][e].present
<1>1. /\ d \notin made /\ dir' = d /\ d # NoFrame
      /\ mem' = [mem EXCEPT ![d] = NewDirectory(d)]
      /\ calls = <<>> /\ calls' = <<>> /\ UNCHANGED <<made, pages, halted>>
      /\ \A o \in Origin : pages[o] = 0
  BY Numbers DEF CreateDirectory, Unused, Inv, Directory
<1>2. mem \in [Frame -> [Index -> Entry]]
  BY DEF Inv, Types
<1>3. NewDirectory(d) \in [Index -> Entry]
  BY DEF NewDirectory, Entry
<1>4. mem'[d] = NewDirectory(d) /\ mem' \in [Frame -> [Index -> Entry]]
  BY <1>1, <1>2, <1>3
<1>5. \A e \in User : mem'[dir'][e] = [present |-> FALSE, frame |-> NoFrame]
  BY <1>1, <1>4, Numbers DEF NewDirectory, User
<1>6. Types'
  BY <1>1, <1>4 DEF Inv, Types
<1>7. Directory'
  BY <1>1, <1>5 DEF Directory
<1>8. Stack' /\ Reached'
  BY <1>1 DEF Stack, Reached, Inv, Types
<1>9. Inv'
  BY <1>6, <1>7, <1>8 DEF Inv
<1> QED
  BY <1>5, <1>9

\* Frames that others allocate are in no directory.
LEMMA SameTables ==
  ASSUME Inv, UNCHANGED <<mem, dir, calls, pages>>,
         made \subseteq made', made' \subseteq Frame, dir \notin made',
         halted' \in BOOLEAN
  PROVE  Inv'
<1>1. Types'
  BY DEF Inv, Types
<1>2. Directory'
  BY DEF Inv, Directory
<1>3. Stack' /\ Reached'
  BY DEF Inv, Stack, Reached, Outer, HasTable, ClearedTo
<1> QED
  BY <1>1, <1>2, <1>3 DEF Inv

\* Frames for others, a panic, and what stutters.
LEMMA QuietInv ==
  ASSUME Inv, (\E f \in Frame : OtherAllocates(f)) \/ NoMemory \/ Done
              \/ UNCHANGED vars
  PROVE  Inv' /\ UNCHANGED <<mem, dir, calls>>
<1>1. UNCHANGED <<mem, dir, calls, pages>>
  BY DEF OtherAllocates, NoMemory, Done, vars
<1>2. made \subseteq Frame /\ dir \notin made /\ halted \in BOOLEAN
  BY DEF Inv, Types, Directory
<1>3. /\ made \subseteq made' /\ made' \subseteq Frame /\ dir \notin made'
      /\ halted' \in BOOLEAN
  BY <1>2 DEF OtherAllocates, NoMemory, Done, vars, Unused
<1> QED
  BY <1>1, <1>3, SameTables

\* One turn of mm_morecore: the page that comes next is in a table that there
\* is, or the first one of its table.
LEMMA GrowInv ==
  ASSUME Inv, NEW o \in Origin, NEW p \in Page, Grow(o, p)
  PROVE  /\ Inv' /\ UNCHANGED <<mem, dir>>
         /\ calls = <<>> /\ calls' # <<>> /\ calls'[1].loop = NotYet
         /\ calls'[1].addr = RegionPage(o, pages[o])
         /\ dir # NoFrame /\ pages \in [Origin -> Nat]
         /\ pages' = [pages EXCEPT ![o] = @ + 1]
<1>1. /\ dir # NoFrame /\ calls = <<>> /\ pages[o] < Size[o]
      /\ pages \in [Origin -> Nat] /\ pages[o] \in Nat
      /\ pages' = [pages EXCEPT ![o] = @ + 1]
      /\ UNCHANGED <<mem, dir, made, halted>>
  BY DEF Grow, Inv, Types
<1> DEFINE k == pages[o]
<1>2. PICK d \in User, i \in Index :
        /\ RegionPage(o, k) = PageAt(d, i)
        /\ i # 0 => /\ k > 0
                    /\ RegionPage(o, k - 1) = PageAt(d, i - 1)
  BY <1>1, RegionPages DEF Inv
<1>3. PICK c : c = CallOf(o + k * PAGE, p, TRUE) /\ calls' = <<c>>
  BY DEF Grow
<1>4. /\ c.addr = PageAt(d, i) /\ c.frame = p /\ c.present = TRUE
      /\ c.loop = NotYet /\ c.table = NoFrame
  BY <1>2, <1>3 DEF CallOf, RegionPage
<1>5. c = [addr |-> PageAt(d, i), frame |-> p, present |-> TRUE,
           loop |-> NotYet, table |-> NoFrame]
  BY <1>2, <1>3 DEF CallOf, RegionPage
<1>6. d \in Index
  BY Numbers
<1>7. c \in Call
  <2>1. PageAt(d, i) \in 0 .. Limit - 1 /\ -1 \in -1 .. ENTRIES
    BY <1>6, PageAtParts, Numbers
  <2> QED
    BY <1>5, <2>1 DEF Call, NotYet
<1>8. calls' \in Seq(Call) /\ Len(calls') = 1 /\ calls'[1] = c /\ calls' # <<>>
  BY <1>3, <1>7, OneCall
<1>9. /\ pages' \in [Origin -> Nat] /\ pages'[o] = k + 1
      /\ \A q \in Origin \ {o} : pages'[q] = pages[q]
  BY <1>1
<1>10. \A q \in Origin : pages'[q] <= Size[q]
  BY <1>1, <1>9, SizesAssumption DEF Inv, Types
<1>11. Types'
  BY <1>1, <1>8, <1>9, <1>10 DEF Inv, Types
<1>12. Directory'
  BY <1>1 DEF Inv, Directory
<1>13. i # 0 => HasTable(d)
  <2> SUFFICES ASSUME i # 0 PROVE HasTable(d)
    OBVIOUS
  <2>1. k - 1 \in Nat /\ k - 1 < pages[o]
    BY <1>1, <1>2
  <2>2. HasTable(DirIndex(RegionPage(o, k - 1)))
    BY <1>1, <2>1 DEF Inv, Reached
  <2>3. i - 1 \in Index
    BY Numbers
  <2>4. DirIndex(RegionPage(o, k - 1)) = d
    BY <1>2, <1>6, <2>3, PageAtParts
  <2> QED
    BY <2>2, <2>4
<1>14. Stack'
  <2>1. Outer(c, d)'
    BY <1>1, <1>4, <1>13 DEF Outer, HasTable
  <2> QED
    BY <1>4, <1>8, <2>1 DEF Stack
<1>15. Reached'
  <2> SUFFICES ASSUME NEW q \in Origin, NEW j \in Nat, j < pages'[q]
               PROVE  \/ HasTable(DirIndex(RegionPage(q, j)))'
                      \/ DirIndex(calls'[1].addr) = DirIndex(RegionPage(q, j))
    BY <1>8 DEF Reached
  <2>1. CASE q = o /\ j = k
    BY <1>2, <1>4, <1>8, <2>1
  <2>2. CASE j < pages[q]
    <3>1. HasTable(DirIndex(RegionPage(q, j)))
      BY <1>1, <2>2 DEF Inv, Reached
    <3> QED
      BY <1>1, <3>1 DEF HasTable
  <2> QED
    BY <1>1, <1>9, <2>1, <2>2
<1> QED
  BY <1>1, <1>2, <1>4, <1>8, <1>11, <1>12, <1>14, <1>15 DEF Inv

\* A region keeps its tables.
LEMMA ReachedStays ==
  ASSUME Inv, pages' = pages,
         \A e \in User : HasTable(e) => HasTable(e)',
         \A e \in User : calls # <<>> /\ DirIndex(calls[1].addr) = e =>
           \/ HasTable(e)'
           \/ calls' # <<>> /\ DirIndex(calls'[1].addr) = e
  PROVE  Reached'
<1> SUFFICES ASSUME NEW o \in Origin, NEW k \in Nat, k < pages[o]
             PROVE  \/ HasTable(DirIndex(RegionPage(o, k)))'
                    \/ /\ calls' # <<>>
                       /\ DirIndex(calls'[1].addr) = DirIndex(RegionPage(o, k))
  BY DEF Reached
<1>1. k < Size[o]
  BY SizesAssumption DEF Inv, Types
<1>2. PICK d \in User, i \in Index : RegionPage(o, k) = PageAt(d, i)
  BY <1>1, RegionPages DEF Inv
<1>3. DirIndex(RegionPage(o, k)) = d
  BY <1>2, Numbers, PageAtParts
<1>4. \/ HasTable(d)
      \/ calls # <<>> /\ DirIndex(calls[1].addr) = d
  BY <1>3 DEF Inv, Reached
<1> QED
  BY <1>3, <1>4

\* The entries of the directory that are used, in any state.
LEMMA DirectoryIs ==
  ASSUME Inv, calls # <<>>
  PROVE  /\ dir \in Frame /\ dir # NoFrame /\ dir \notin made
         /\ mem \in [Frame -> [Index -> Entry]] /\ made \subseteq Frame
         /\ \A d \in User :
              /\ HasTable(d) => mem[dir][d].present /\ mem[dir][d].frame \in made
              /\ ~ HasTable(d) => ~ mem[dir][d].present
              /\ \A e \in User :
                   HasTable(d) /\ mem[dir][e].frame = mem[dir][d].frame => d = e
BY DEF Inv, Types, Directory, HasTable

\* The stack in any state: its first call is for a page of the table at entry
\* d, and the second one, when there is one, for the entry that is cleared.
FirstCall(c, d) ==
  /\ c \in Call /\ Outer(c, d)
  /\ DirIndex(c.addr) = d /\ TableIndex(c.addr) \in Index
  /\ c.addr = PageAt(d, TableIndex(c.addr))
  /\ TableIndex(c.addr) # 0 => HasTable(d)
  /\ c.loop # NotYet => TableIndex(c.addr) = 0

\* One call, that has looked for its table or clears the one it made.
LoneCall ==
  /\ Len(calls) = 1 /\ Top = calls[1]
  /\ calls[1].loop # NotYet => ClearedTo(calls[1].table, calls[1].loop)

\* Two calls, the second for the entry before the one its loop is at.
ClearingCall(d) ==
  LET n == calls[1].loop - 1 IN
    /\ Len(calls) = 2 /\ Top = calls[2]
    /\ calls[1].loop \in 1 .. ENTRIES /\ n \in Index
    /\ ClearedTo(calls[1].table, n)
    /\ HasTable(d) /\ calls[1].table = mem[dir][d].frame
    /\ calls[2].loop = NotYet
    /\ DirIndex(calls[2].addr) = d /\ TableIndex(calls[2].addr) = n
    /\ EntryOf(calls[2]) = [present |-> FALSE, frame |-> NoFrame]

\* The stack is one or the other.
LEMMA StackIs ==
  ASSUME Inv, calls # <<>>
  PROVE  \E d \in User : FirstCall(calls[1], d) /\ (LoneCall \/ ClearingCall(d))
<1>1. calls \in Seq(Call) /\ Len(calls) <= 2
  BY DEF Inv, Types, Stack
<1>2. PICK d \in User :
         /\ Outer(calls[1], d)
         /\ Len(calls) = 1 /\ calls[1].loop # NotYet =>
              ClearedTo(calls[1].table, calls[1].loop)
         /\ Len(calls) = 2 =>
              /\ calls[1].loop \in 1 .. ENTRIES
              /\ ClearedTo(calls[1].table, calls[1].loop - 1)
              /\ calls[2] = CallOf(PageAt(d, calls[1].loop - 1), NoFrame, FALSE)
  BY DEF Inv, Stack
<1>3. calls[1] \in Call /\ (Len(calls) = 1 \/ Len(calls) = 2)
  BY <1>1, StackParts
<1>4. FirstCall(calls[1], d)
  BY <1>2, <1>3, OuterParts DEF FirstCall
<1>5. CASE Len(calls) = 1
  BY <1>2, <1>4, <1>5 DEF Top, LoneCall
<1>6. CASE Len(calls) = 2
  <2> DEFINE n == calls[1].loop - 1
  <2>1. n \in Index /\ calls[1].loop \in 1 .. ENTRIES /\ calls[1].loop # NotYet
    BY <1>2, <1>6, Numbers DEF NotYet
  <2>2. d \in Index
    BY Numbers
  <2>3. /\ PageAlign(PageAt(d, n)) = PageAt(d, n)
        /\ DirIndex(PageAt(d, n)) = d /\ TableIndex(PageAt(d, n)) = n
    BY <2>1, <2>2, PageAtParts
  <2>4. calls[2] = CallOf(PageAt(d, n), NoFrame, FALSE)
    BY <1>2, <1>6
  <2> HIDE DEF n
  <2>5. /\ calls[2].loop = NotYet /\ calls[2].addr = PageAt(d, n)
        /\ EntryOf(calls[2]) = [present |-> FALSE, frame |-> NoFrame]
    BY <2>3, <2>4 DEF CallOf, EntryOf
  <2>6. HasTable(d) /\ calls[1].table = mem[dir][d].frame
    BY <1>2, <2>1 DEF Outer
  <2>7. /\ Top = calls[2]
        /\ DirIndex(calls[2].addr) = d /\ TableIndex(calls[2].addr) = n
    BY <1>6, <2>3, <2>5 DEF Top
  <2> QED
    BY <1>2, <1>4, <1>6, <2>1, <2>5, <2>6, <2>7 DEF n, ClearingCall
<1> QED
  BY <1>3, <1>5, <1>6

\* The table that is being made, in any state.
LEMMA BeingIs ==
  ASSUME Inv, NEW a
  PROVE  BeingMade(a) <=> /\ calls # <<>> /\ calls[1].loop # NotYet
                          /\ DirIndex(calls[1].addr) = DirIndex(a)
<1>1. calls \in Seq(Call) /\ Len(calls) <= 2
  BY DEF Inv, Types, Stack
<1>2. ASSUME Len(calls) = 2 PROVE calls[2].loop = NotYet
  <2>1. calls # <<>>
    BY <1>2
  <2> QED
    BY <1>2, <2>1, StackIs DEF LoneCall, ClearingCall
<1> QED
  BY <1>1, <1>2, MakingIsFirst DEF BeingMade

\* A step that changes no entry but those of the table at entry d changes no
\* translation of another table's addresses.
LEMMA OtherTables ==
  ASSUME Inv, calls # <<>>, dir' = dir,
         NEW d \in User, NEW t \in Frame,
         \A f \in Frame \ {dir, t} : mem'[f] = mem[f],
         \A e \in User \ {d} :
           mem'[dir][e] = mem[dir][e] /\ mem[dir][e].frame # t,
         NEW a \in UserAddress, DirIndex(a) # d,
         ~ BeingMade(a), ~ BeingMade(a)'
  PROVE  Translate(a)' = Translate(a)
<1> DEFINE e == DirIndex(a)
<1>1. e \in User \ {d}
  BY UserAddresses
<1>2. mem'[dir][e] = mem[dir][e] /\ mem[dir][e].frame # t
  BY <1>1
<1>3. HasTable(e) => mem[dir][e].frame \in Frame \ {dir, t}
  BY <1>1, <1>2, DirectoryIs
<1>4. mem[dir][e].present => HasTable(e)
  BY <1>1, DirectoryIs
<1>5. dir # NoFrame
  BY DirectoryIs
<1>6. mem[dir][e].present => mem'[mem[dir][e].frame] = mem[mem[dir][e].frame]
  BY <1>3, <1>4
<1> QED
  BY <1>2, <1>5, <1>6 DEF Translate

\* The call for a page goes on, with the address it has.
CallGoesOn == /\ calls # <<>> /\ calls' # <<>>
              /\ calls'[1].addr = calls[1].addr /\ pages' = pages

\* paging_getPageTableEntry enters a frame for the table: its call is the
\* first one, and its page the first one of the table.
LEMMA MakeTableInv ==
  ASSUME Inv, NEW t \in Frame, MakeTable(t)
  PROVE  /\ Inv' /\ dir' = dir /\ CallGoesOn
         /\ \A a \in UserAddress : Translate(a)' = Translate(a)
<1>1. /\ calls # <<>> /\ Top.loop = NotYet /\ TableOf(Top) = NoFrame
      /\ t \notin made /\ t # dir /\ t # NoFrame
      /\ made' = made \union {t} /\ UNCHANGED <<dir, pages, halted>>
  BY Numbers DEF MakeTable, Unused
<1>2. /\ calls \in Seq(Call) /\ Len(calls) <= 2
      /\ pages \in [Origin -> Nat] /\ \A o \in Origin : pages[o] <= Size[o]
      /\ halted \in BOOLEAN
  BY DEF Inv, Types, Stack
<1>3. /\ dir \in Frame /\ dir # NoFrame /\ dir \notin made
      /\ mem \in [Frame -> [Index -> Entry]] /\ made \subseteq Frame
      /\ \A d \in User :
           /\ HasTable(d) => mem[dir][d].present /\ mem[dir][d].frame \in made
           /\ ~ HasTable(d) => ~ mem[dir][d].present
           /\ \A e \in User : HasTable(d) /\ mem[dir][e].frame = mem[dir][d].frame
                             => d = e
  BY <1>1, DirectoryIs
<1>4. PICK d \in User :
        /\ FirstCall(calls[1], d) /\ Len(calls) = 1 /\ Top = calls[1]
        /\ ~ HasTable(d)
  <2>1. PICK d \in User : FirstCall(calls[1], d) /\ (LoneCall \/ ClearingCall(d))
    BY <1>1, StackIs
  <2>2. ~ ClearingCall(d)
    BY <1>1 DEF ClearingCall, TableOf, HasTable
  <2> QED
    BY <1>1, <2>1, <2>2 DEF LoneCall, FirstCall, TableOf, HasTable
<1>5. PICK c \in Call : c = calls[1] /\ FirstCall(c, d)
  BY <1>4 DEF FirstCall
<1>6. c.addr = PageAt(d, 0) /\ DirIndex(c.addr) = d /\ d \in Index
      /\ c.frame \in Page /\ c.present
  BY <1>4, <1>5, Numbers DEF FirstCall, Outer
<1>7. PICK n : n = [addr |-> c.addr, frame |-> c.frame, present |-> c.present,
                    loop |-> 0, table |-> t]
  OBVIOUS
<1>8. n \in Call /\ n = [c EXCEPT !.loop = 0, !.table = t]
  <2>1. 0 \in -1 .. ENTRIES
    BY Numbers
  <2>2. n \in Call
    BY <1>7, <2>1 DEF Call
  <2>3. PICK m : m = [addr |-> c.addr, frame |-> c.frame,
                     present |-> c.present, loop |-> 0, table |-> c.table]
    OBVIOUS
  <2>4. m = [c EXCEPT !.loop = 0]
    BY <2>3 DEF Call
  <2>5. n = [m EXCEPT !.table = t]
    BY <1>7, <2>3
  <2> QED
    BY <2>2, <2>4, <2>5
<1>9. /\ n.addr = c.addr /\ n.frame = c.frame /\ n.present = c.present
      /\ n.loop = 0 /\ n.table = t
  BY <1>7
<1>10. calls' = [calls EXCEPT ![Len(calls)] = n]
  BY <1>4, <1>5, <1>8 DEF MakeTable, SetTop
<1>11. calls' \in Seq(Call) /\ Len(calls') = 1 /\ calls'[1] = n /\ calls' # <<>>
  BY <1>2, <1>4, <1>10, <1>8, TopReplaced
<1>12. mem' = [mem EXCEPT ![dir] =
                 [@ EXCEPT ![d] = [present |-> TRUE, frame |-> t]]]
  BY <1>4, <1>5, <1>6 DEF MakeTable
<1>13. /\ mem' \in [Frame -> [Index -> Entry]]
       /\ \A f \in Frame \ {dir} : mem'[f] = mem[f]
       /\ mem'[dir][d] = [present |-> TRUE, frame |-> t]
       /\ \A e \in Index \ {d} : mem'[dir][e] = mem[dir][e]
  BY <1>3, <1>6, <1>12 DEF Entry
<1>14. \A e \in User \ {d} : mem'[dir][e] = mem[dir][e] /\ mem[dir][e].frame # t
  BY <1>1, <1>3, <1>13, Numbers DEF HasTable
<1>15. HasTable(d)'
  BY <1>1, <1>13 DEF HasTable
<1>16. Types'
  BY <1>1, <1>2, <1>3, <1>11, <1>13 DEF Types
<1>17. Directory'
  <2>1. ASSUME NEW e \in User
        PROVE  /\ mem'[dir][e].frame # NoFrame =>
                    mem'[dir][e].present /\ mem'[dir][e].frame \in made'
               /\ mem'[dir][e].frame = NoFrame => ~ mem'[dir][e].present
    BY <1>1, <1>3, <1>13, <1>14 DEF HasTable
  <2>2. ASSUME NEW e \in User, NEW g \in User, mem'[dir][e].frame # NoFrame,
               mem'[dir][g].frame = mem'[dir][e].frame
        PROVE  e = g
    BY <1>1, <1>3, <1>13, <1>14, <2>2 DEF HasTable
  <2> QED
    BY <1>1, <1>3, <2>1, <2>2 DEF Directory
<1>18. Stack'
  <2>1. Outer(calls[1], d)'
    <3>1. 0 \in Index /\ 0 \in 0 .. ENTRIES
      BY Numbers
    <3>2. n.table = mem'[dir'][d].frame
      BY <1>1, <1>9, <1>13
    <3>3. Outer(n, d)'
      BY <1>6, <1>9, <1>15, <3>1, <3>2 DEF Outer
    <3> QED
      BY <1>11, <3>3
  <2>2. ClearedTo(calls[1].table, calls[1].loop)'
    BY <1>9, <1>11, Numbers DEF ClearedTo
  <2> QED
    BY <1>11, <2>1, <2>2 DEF Stack
<1>19. Reached'
  <2>1. \A e \in User : HasTable(e) => HasTable(e)'
    BY <1>1, <1>14, <1>15 DEF HasTable
  <2>2. \A e \in User :
          calls # <<>> /\ DirIndex(calls[1].addr) = e => HasTable(e)'
    BY <1>5, <1>6, <1>15
  <2> QED
    BY <1>1, <2>1, <2>2, ReachedStays
<1>20. ASSUME NEW a \in UserAddress
       PROVE  Translate(a)' = Translate(a)
  <2>1. DirIndex(a) \in User
    BY UserAddresses
  <2>2. ~ BeingMade(a)
    BY <1>1, <1>4, BeingIs
  <2>3. BeingMade(a)' <=> DirIndex(a) = d
    <3>1. (\E k \in 1 .. Len(calls') :
             calls'[k].loop # NotYet /\ DirIndex(calls'[k].addr) = DirIndex(a))
          <=> DirIndex(a) = d
      BY <1>6, <1>9, <1>11, MakingIsFirst DEF NotYet
    <3> QED
      BY <3>1 DEF BeingMade
  <2>4. CASE DirIndex(a) = d
    BY <1>1, <1>3, <1>4, <2>2, <2>3, <2>4 DEF Translate
  <2>5. CASE DirIndex(a) # d
    BY <1>1, <1>13, <1>14, <2>2, <2>3, <2>5, OtherTables
  <2> QED
    BY <2>4, <2>5
<1> QED
  BY <1>1, <1>5, <1>9, <1>11, <1>16, <1>17, <1>18, <1>19, <1>20
  DEF Inv, CallGoesOn

\* One turn of the loop that clears a table: a call for the loop's entry,
\* which has a table.
LEMMA ClearEntryInv ==
  ASSUME Inv, ClearEntry
  PROVE  /\ Inv' /\ dir' = dir /\ CallGoesOn
         /\ \A a \in UserAddress : Translate(a)' = Translate(a)
<1>1. calls # <<>> /\ InLoop(Top) /\ UNCHANGED <<mem, dir, made, pages, halted>>
  BY DEF ClearEntry
<1>2. /\ calls \in Seq(Call) /\ Len(calls) <= 2
  BY DEF Inv, Types, Stack
<1>3. PICK d \in User :
        /\ FirstCall(calls[1], d) /\ Len(calls) = 1 /\ Top = calls[1]
        /\ calls[1].loop # NotYet
        /\ ClearedTo(calls[1].table, calls[1].loop)
  <2>1. PICK d \in User : FirstCall(calls[1], d) /\ (LoneCall \/ ClearingCall(d))
    BY <1>1, StackIs
  <2>2. Top.loop # NotYet
    BY <1>1, Numbers DEF InLoop, NotYet
  <2> QED
    BY <2>1, <2>2 DEF LoneCall, ClearingCall
<1>4. PICK c \in Call : c = calls[1] /\ FirstCall(c, d)
  BY <1>3 DEF FirstCall
<1>5. c.loop \in 0 .. ENTRIES - 1 /\ c.loop \in Index
  BY <1>1, <1>3, <1>4, Numbers DEF InLoop
<1>6. /\ c.addr = PageAt(d, 0) /\ HasTable(d) /\ c.table = mem[dir][d].frame
      /\ c.frame \in Page /\ c.present
  BY <1>3, <1>4 DEF FirstCall, Outer
<1>7. d \in Index /\ 0 \in Index /\ DirIndex(PageAt(d, 0)) = d
  BY Numbers, PageAtParts
<1>8. PICK e : e = CallOf(PageAt(d, c.loop), NoFrame, FALSE)
  OBVIOUS
<1>9. e = LoopCall(c)
  BY <1>5, <1>6, <1>7, <1>8, LoopAddress DEF LoopCall
<1>10. e \in Call /\ e.loop = NotYet
  BY <1>5, <1>7, <1>8, CallsAre
<1>11. PICK n : n = [addr |-> c.addr, frame |-> c.frame, present |-> c.present,
                     loop |-> c.loop + 1, table |-> c.table]
  OBVIOUS
<1>12. n \in Call /\ n = [c EXCEPT !.loop = c.loop + 1]
  <2>1. c.loop + 1 \in -1 .. ENTRIES
    BY <1>5, Numbers
  <2>2. n \in Call
    BY <1>11, <2>1 DEF Call
  <2>3. n = [c EXCEPT !.loop = c.loop + 1]
    BY <1>11 DEF Call
  <2> QED
    BY <2>2, <2>3
<1>13. /\ n.addr = c.addr /\ n.frame = c.frame /\ n.present = c.present
       /\ n.loop = c.loop + 1 /\ n.table = c.table
  BY <1>11
<1>14. calls' = Append([calls EXCEPT ![Len(calls)] = n], e)
  BY <1>3, <1>4, <1>9, <1>12 DEF ClearEntry, SetTop
<1>15. /\ calls' \in Seq(Call) /\ Len(calls') = 2 /\ calls' # <<>>
       /\ calls'[1] = n /\ calls'[2] = e
  BY <1>2, <1>3, <1>14, <1>10, <1>12, TopReplaced
<1>16. Types' /\ Directory'
  BY <1>1, <1>15 DEF Inv, Types, Directory
<1>17. Stack'
  <2>1. n.loop \in 1 .. ENTRIES /\ n.loop \in 0 .. ENTRIES /\ n.loop - 1 = c.loop
    BY <1>5, <1>13, Numbers
  <2>2. Outer(calls[1], d)'
    <3>1. HasTable(d)' /\ n.table = mem'[dir'][d].frame
      BY <1>1, <1>6, <1>13 DEF HasTable
    <3>2. Outer(n, d)'
      BY <1>6, <1>7, <1>13, <2>1, <3>1 DEF Outer
    <3> QED
      BY <1>15, <3>2
  <2>3. ClearedTo(calls[1].table, calls[1].loop - 1)'
    BY <1>1, <1>3, <1>4, <1>13, <1>15, <2>1 DEF ClearedTo
  <2>4. calls'[2] = CallOf(PageAt(d, calls'[1].loop - 1), NoFrame, FALSE)
    BY <1>8, <1>15, <2>1
  <2>5. /\ Len(calls') <= 2 /\ Len(calls') # 1
        /\ calls'[1].loop \in 1 .. ENTRIES
    BY <1>15, <2>1
  <2> QED
    BY <2>2, <2>3, <2>4, <2>5 DEF Stack
<1>18. Reached'
  BY <1>1, <1>4, <1>13, <1>15, ReachedStays DEF HasTable
<1>19. ASSUME NEW a \in UserAddress
       PROVE  Translate(a)' = Translate(a)
  <2>1. BeingMade(a) <=> DirIndex(c.addr) = DirIndex(a)
    BY <1>1, <1>3, <1>4, BeingIs
  <2>2. BeingMade(a)' <=> DirIndex(n.addr) = DirIndex(a)
    <3>1. n.loop # NotYet
      BY <1>5, <1>13 DEF NotYet
    <3>2. (\E k \in 1 .. Len(calls') :
             calls'[k].loop # NotYet /\ DirIndex(calls'[k].addr) = DirIndex(a))
          <=> DirIndex(n.addr) = DirIndex(a)
      BY <1>15, <1>10, <3>1, MakingIsFirst
    <3> QED
      BY <3>2 DEF BeingMade
  <2> QED
    BY <1>1, <1>13, <2>1, <2>2 DEF Translate
<1> QED
  BY <1>1, <1>4, <1>13, <1>15, <1>16, <1>17, <1>18, <1>19 DEF Inv, CallGoesOn

\* What a write of x to entry i of the table t, at entry d of the directory,
\* leaves.
Written(d, t, i, x) ==
  /\ t \in Frame /\ t # dir
  /\ mem' \in [Frame -> [Index -> Entry]]
  /\ \A f \in Frame \ {t} : mem'[f] = mem[f]
  /\ mem'[dir] = mem[dir]
  /\ mem'[t][i] = x
  /\ \A j \in Index \ {i} : mem'[t][j] = mem[t][j]
  /\ \A e \in User \ {d} : mem'[dir][e] = mem[dir][e] /\ mem[dir][e].frame # t

\* The write of paging_setPageTableEntry, into a table.
LEMMA TableWritten ==
  ASSUME Inv, calls # <<>>, NEW d \in User, HasTable(d),
         NEW t, t = mem[dir][d].frame, NEW i \in Index, NEW x \in Entry,
         mem' = [mem EXCEPT ![t] = [@ EXCEPT ![i] = x]]
  PROVE  Written(d, t, i, x)
<1>1. /\ dir \in Frame /\ dir # NoFrame /\ dir \notin made
      /\ mem \in [Frame -> [Index -> Entry]] /\ made \subseteq Frame
      /\ t \in made
      /\ \A e \in User : mem[dir][e].frame = t => d = e
  BY DirectoryIs
<1>2. \A e \in User \ {d} : mem[dir][e].frame # t
  BY <1>1
<1>3. t \in Frame /\ t # dir
  BY <1>1
<1>4. PICK y : y = [mem[t] EXCEPT ![i] = x]
  OBVIOUS
<1>5. /\ y \in [Index -> Entry] /\ y[i] = x
      /\ \A j \in Index \ {i} : y[j] = mem[t][j]
  BY <1>1, <1>3, <1>4
<1>6. mem' = [mem EXCEPT ![t] = y]
  BY <1>4
<1>7. /\ mem' \in [Frame -> [Index -> Entry]] /\ mem'[t] = y
      /\ \A f \in Frame \ {t} : mem'[f] = mem[f]
  BY <1>1, <1>3, <1>5, <1>6
<1>8. mem'[dir] = mem[dir]
  BY <1>1, <1>3, <1>7
<1> QED
  BY <1>2, <1>3, <1>5, <1>7, <1>8 DEF Written

\* The invariant's parts that are about the directory and the regions, when no
\* entry of the directory is written.
LEMMA DirectoryStays ==
  ASSUME Inv, calls # <<>>, UNCHANGED <<dir, made, pages, halted>>,
         mem' \in [Frame -> [Index -> Entry]], mem'[dir] = mem[dir],
         calls' \in Seq(Call)
  PROVE  Types' /\ Directory' /\ \A d : HasTable(d)' = HasTable(d)
<1>1. Types'
  BY DEF Inv, Types
<1>2. dir # NoFrame
  BY DirectoryIs
<1>3. Directory'
  BY <1>2 DEF Inv, Directory
<1> QED
  BY <1>1, <1>3 DEF HasTable

\* An entry is cleared: the call that makes the table goes on.
LEMMA WriteClearedInv ==
  ASSUME Inv, WriteEntry, Len(calls) = 2
  PROVE  /\ Inv' /\ dir' = dir /\ CallGoesOn
         /\ \A a \in UserAddress : Translate(a)' = Translate(a)
<1>1. calls # <<>> /\ UNCHANGED <<dir, made, pages, halted>> /\ calls' = Pop
  BY DEF WriteEntry
<1>2. PICK d \in User : FirstCall(calls[1], d) /\ ClearingCall(d)
  <2>1. ~ LoneCall
    BY DEF LoneCall
  <2> QED
    BY <1>1, <2>1, StackIs
<1>3. PICK c \in Call : c = calls[1] /\ FirstCall(c, d)
  BY <1>2 DEF FirstCall
<1>4. PICK n, t : n = c.loop - 1 /\ t = mem[dir][d].frame
  OBVIOUS
<1>5. /\ c.loop \in 1 .. ENTRIES /\ n \in Index /\ ClearedTo(t, n)
      /\ HasTable(d) /\ c.table = t /\ c.loop # NotYet
      /\ Top = calls[2] /\ calls[2].loop = NotYet
      /\ DirIndex(calls[2].addr) = d /\ TableIndex(calls[2].addr) = n
      /\ EntryOf(calls[2]) = [present |-> FALSE, frame |-> NoFrame]
  BY <1>2, <1>3, <1>4 DEF ClearingCall, NotYet
<1>6. PICK x : x = [present |-> FALSE, frame |-> NoFrame]
  OBVIOUS
<1>7. mem' = [mem EXCEPT ![t] = [@ EXCEPT ![n] = x]]
  BY <1>5, <1>6, <1>4 DEF WriteEntry, TableOf
<1>8. x \in Entry /\ ~ x.present
  BY <1>6 DEF Entry
<1>9. /\ t \in Frame /\ t # dir
      /\ mem' \in [Frame -> [Index -> Entry]]
      /\ \A f \in Frame \ {t} : mem'[f] = mem[f]
      /\ mem'[dir] = mem[dir]
      /\ mem'[t][n] = x
      /\ \A j \in Index \ {n} : mem'[t][j] = mem[t][j]
      /\ \A e \in User \ {d} :
           mem'[dir][e] = mem[dir][e] /\ mem[dir][e].frame # t
  BY <1>1, <1>5, <1>7, <1>8, <1>4, TableWritten DEF Written
<1>10. /\ calls' \in Seq(Call) /\ Len(calls') = 1
       /\ calls' # <<>> /\ calls'[1] = c
  <2>1. calls \in Seq(Call) /\ Len(calls) <= 2
    BY DEF Inv, Types, Stack
  <2> QED
    BY <1>1, <1>3, <2>1, StackParts DEF Pop
<1>11. Types' /\ Directory' /\ \A e : HasTable(e)' = HasTable(e)
  BY <1>1, <1>9, <1>10, DirectoryStays
<1>12. Stack'
  <2>1. Outer(c, d)'
    <3>1. Outer(c, d)
      BY <1>3 DEF FirstCall
    <3>2. HasTable(d)' = HasTable(d)
      BY <1>11
    <3> QED
      BY <1>1, <1>9, <3>1, <3>2 DEF Outer
  <2>2. ClearedTo(c.table, c.loop)'
    <3>1. ASSUME NEW j \in Index, j < c.loop PROVE ~ mem'[t][j].present
      <4>1. j = n \/ (j # n /\ j < n)
        BY <1>5, <1>4, <3>1, Numbers
      <4>2. CASE j = n
        BY <1>8, <1>9, <4>2
      <4>3. CASE j # n /\ j < n
        BY <1>5, <1>9, <4>3 DEF ClearedTo
      <4> QED
        BY <4>1, <4>2, <4>3
    <3> QED
      BY <1>5, <3>1 DEF ClearedTo
  <2>3. Outer(calls[1], d)' /\ ClearedTo(calls[1].table, calls[1].loop)'
    BY <1>10, <2>1, <2>2
  <2>4. Len(calls') <= 2 /\ Len(calls') # 2
    BY <1>10
  <2> QED
    BY <2>3, <2>4 DEF Stack
<1>13. Reached'
  <2>1. calls'[1] = calls[1]
    BY <1>3, <1>10
  <2> QED
    BY <1>1, <1>10, <1>11, <2>1, ReachedStays
<1>14. ASSUME NEW a \in UserAddress
       PROVE  Translate(a)' = Translate(a)
  <2>1. BeingMade(a) <=> DirIndex(a) = d
    BY <1>1, <1>3, <1>5, BeingIs DEF FirstCall
  <2>2. BeingMade(a)' <=> DirIndex(a) = d
    <3>1. (\E k \in 1 .. Len(calls') :
             calls'[k].loop # NotYet /\ DirIndex(calls'[k].addr) = DirIndex(a))
          <=> DirIndex(a) = d
      BY <1>3, <1>5, <1>10, MakingIsFirst DEF FirstCall
    <3> QED
      BY <3>1 DEF BeingMade
  <2>3. CASE DirIndex(a) = d
    BY <1>1, <2>1, <2>2, <2>3 DEF Translate
  <2>4. CASE DirIndex(a) # d
    BY <1>1, <1>9, <2>1, <2>2, <2>4, OtherTables
  <2> QED
    BY <2>3, <2>4
<1> QED
  BY <1>1, <1>3, <1>10, <1>11, <1>12, <1>13, <1>14 DEF Inv, CallGoesOn

\* The page is mapped, in a table that was found or made: of the user
\* addresses, its own is the only one that is translated anew.
LEMMA WriteMappedInv ==
  ASSUME Inv, WriteEntry, Len(calls) # 2
  PROVE  /\ Inv' /\ dir' = dir /\ dir # NoFrame
         /\ calls # <<>> /\ calls' = <<>> /\ pages' = pages
         /\ calls[1].addr \in UserAddress /\ calls[1].frame \in Page
         /\ \A a \in UserAddress :
              Translate(a)' = IF a = calls[1].addr THEN calls[1].frame
                              ELSE Translate(a)
<1>1. calls # <<>> /\ UNCHANGED <<dir, made, pages, halted>> /\ calls' = Pop
      /\ ~ InLoop(Top) /\ (Top.loop = NotYet => TableOf(Top) # NoFrame)
  BY DEF WriteEntry
<1>2. PICK d \in User : FirstCall(calls[1], d) /\ LoneCall
  <2>1. \A d \in User : ~ ClearingCall(d)
    BY DEF ClearingCall
  <2> QED
    BY <1>1, <2>1, StackIs
<1>3. PICK c \in Call : c = calls[1] /\ FirstCall(c, d) /\ c = Top
  BY <1>2 DEF FirstCall, LoneCall
<1>4. PICK i, t : i = TableIndex(c.addr) /\ t = mem[dir][d].frame
  OBVIOUS
<1>5. /\ DirIndex(c.addr) = d /\ i \in Index /\ c.addr = PageAt(d, i)
      /\ c.frame \in Page /\ c.present
      /\ c.loop # NotYet => HasTable(d) /\ c.table = t
  BY <1>3, <1>4 DEF FirstCall, Outer
<1>6. HasTable(d)
  BY <1>1, <1>3, <1>5 DEF HasTable, TableOf
<1>7. PICK x : x = EntryOf(c)
  OBVIOUS
<1>8. mem' = [mem EXCEPT ![t] = [@ EXCEPT ![i] = x]]
  <2>1. (IF Top.loop = NotYet THEN TableOf(Top) ELSE Top.table) = t
    BY <1>3, <1>5, <1>4 DEF TableOf
  <2> QED
    BY <1>3, <1>7, <1>4, <2>1 DEF WriteEntry
<1>9. x \in Entry /\ x.present /\ x.frame = c.frame
  <2>1. c.present \in BOOLEAN
    BY DEF Call
  <2> QED
    BY <1>5, <1>7, <2>1 DEF EntryOf, Entry
<1>10. /\ t \in Frame /\ t # dir /\ t # NoFrame
       /\ mem' \in [Frame -> [Index -> Entry]]
       /\ \A f \in Frame \ {t} : mem'[f] = mem[f]
       /\ mem'[dir] = mem[dir]
       /\ mem'[t][i] = x
       /\ \A j \in Index \ {i} : mem'[t][j] = mem[t][j]
       /\ \A e \in User \ {d} :
           mem'[dir][e] = mem[dir][e] /\ mem[dir][e].frame # t
  <2>1. Written(d, t, i, x)
    BY <1>1, <1>5, <1>6, <1>8, <1>9, <1>4, TableWritten
  <2> QED
    BY <2>1, Numbers DEF Written
<1>11. calls' = <<>> /\ calls' \in Seq(Call)
  <2>1. calls \in Seq(Call) /\ Len(calls) <= 2 /\ Len(calls) = 1
    BY <1>2 DEF Inv, Types, Stack, LoneCall
  <2> QED
    BY <1>1, <2>1, StackParts DEF Pop
<1>12. Types' /\ Directory' /\ \A e : HasTable(e)' = HasTable(e)
  BY <1>1, <1>10, <1>11, DirectoryStays
<1>13. Stack'
  BY <1>11 DEF Stack
<1>14. Reached'
  <2>1. \A e \in User :
          calls # <<>> /\ DirIndex(calls[1].addr) = e => HasTable(e)'
    BY <1>3, <1>5, <1>6, <1>12
  <2> QED
    BY <1>1, <1>12, <2>1, ReachedStays
<1>15. c.addr \in UserAddress
  BY <1>5, UserAddresses
<1>16. \A a \in UserAddress : ~ BeingMade(a)'
  BY <1>11 DEF BeingMade
<1>17. dir # NoFrame /\ mem[dir][d].present
  BY <1>1, <1>6, DirectoryIs
<1>18. ASSUME NEW a \in UserAddress
       PROVE  Translate(a)' = IF a = c.addr THEN c.frame ELSE Translate(a)
  <2>1. /\ DirIndex(a) \in User /\ TableIndex(a) \in Index
        /\ a = PageAt(DirIndex(a), TableIndex(a))
    BY UserAddresses
  <2>2. BeingMade(a) <=> c.loop # NotYet /\ DirIndex(a) = d
    BY <1>1, <1>3, <1>5, BeingIs
  <2>3. CASE a = c.addr
    <3>1. DirIndex(a) = d /\ TableIndex(a) = i
      BY <1>5, <1>4, <2>3
    <3>2. mem'[dir'][d] = mem[dir][d] /\ ~ BeingMade(a)'
      BY <1>1, <1>10, <1>16
    <3> QED
      BY <1>1, <1>9, <1>10, <1>17, <1>4, <2>3, <3>1, <3>2 DEF Translate
  <2>4. CASE a # c.addr /\ DirIndex(a) = d
    <3>1. TableIndex(a) \in Index \ {i}
      BY <1>5, <2>1, <2>4
    <3>2. mem'[t][TableIndex(a)] = mem[t][TableIndex(a)]
      BY <1>10, <3>1
    <3>3. mem'[dir'][d] = mem[dir][d] /\ ~ BeingMade(a)'
      BY <1>1, <1>10, <1>16
    <3>4. CASE c.loop = NotYet
      BY <1>1, <1>17, <1>4, <2>2, <2>4, <3>2, <3>3, <3>4 DEF Translate
    <3>5. CASE c.loop # NotYet
      <4>1. c.loop \in -1 .. ENTRIES /\ c.loop \notin 0 .. ENTRIES - 1
        BY <1>1, <1>3 DEF Call, InLoop
      <4>2. c.loop = ENTRIES
        BY <3>5, <4>1, Numbers DEF NotYet
      <4>3. ClearedTo(t, ENTRIES)
        BY <1>2, <1>3, <1>5, <3>5, <4>2 DEF LoneCall
      <4>4. ~ mem[t][TableIndex(a)].present
        BY <2>1, <4>3, Numbers DEF ClearedTo
      <4>5. Translate(a) = NoFrame
        BY <2>2, <2>4, <3>5 DEF Translate
      <4>6. Translate(a)' = NoFrame
        BY <1>1, <1>4, <2>4, <3>2, <3>3, <4>4 DEF Translate
      <4> QED
        BY <2>4, <4>5, <4>6
    <3> QED
      BY <3>4, <3>5
  <2>5. CASE DirIndex(a) # d
    <3>1. a # c.addr
      BY <1>5, <2>5
    <3>2. Translate(a)' = Translate(a)
      BY <1>1, <1>10, <1>16, <2>2, <2>5, OtherTables
    <3> QED
      BY <3>1, <3>2
  <2> QED
    BY <2>3, <2>4, <2>5
<1> QED
  BY <1>1, <1>3, <1>5, <1>11, <1>12, <1>13, <1>14, <1>15, <1>17, <1>18 DEF Inv

\* One case for each action.
LEMMA StepInv == Inv /\ [Next]_vars => Inv'
<1> SUFFICES ASSUME Inv, [Next]_vars PROVE Inv'
  OBVIOUS
<1>1. CASE \E f \in Frame : CreateDirectory(f) \/ MakeTable(f)
  BY <1>1, CreateDirectoryInv, MakeTableInv
<1>2. CASE \E o \in Origin, p \in Page : Grow(o, p)
  BY <1>2, GrowInv
<1>3. CASE ClearEntry
  BY <1>3, ClearEntryInv
<1>4. CASE WriteEntry
  BY <1>4, WriteClearedInv, WriteMappedInv
<1>5. CASE (\E f \in Frame : OtherAllocates(f)) \/ NoMemory \/ Done
           \/ UNCHANGED vars
  BY <1>5, QuietInv
<1> QED
  BY <1>1, <1>2, <1>3, <1>4, <1>5 DEF Next

\* Every state of the kernel's tables satisfies the invariant.
LEMMA Invariance == RegionsFit /\ Spec => []Inv
BY InitInv, StepInv, PTL DEF Spec

\* The stack of calls, the tables and the regions have their types: the calls
\* of paging_setPageTableEntry are about addresses that there are.
THEOREM TypeCorrect == RegionsFit /\ Spec => []TypeOK
<1>1. Inv => TypeOK
  <2> SUFFICES ASSUME Inv PROVE TypeOK
    OBVIOUS
  <2>1. \A k \in 1 .. Len(calls) : calls[k] \in Call
    BY ElementOfSeq DEF Inv, Types
  <2>2. \A o \in Origin : pages[o] \in 0 .. Size[o]
    BY SizesAssumption DEF Inv, Types
  <2> QED
    BY <2>1, <2>2 DEF Inv, Types, TypeOK, Call
<1> QED
  BY <1>1, Invariance, PTL

\* The calls that clear a table do not make a table in their turn, whatever
\* the sizes of tables and pages: the comment in the loop of
\* paging_getPageTableEntry.
THEOREM ClearingMakesNoTable == RegionsFit /\ Spec => []ArrivesOnce
<1>1. Inv => ArrivesOnce
  <2> SUFFICES ASSUME Inv, NEW k \in 1 .. Len(calls), NEW l \in 1 .. Len(calls),
                      calls[k].loop # NotYet, calls[l].loop # NotYet
               PROVE  k = l
    BY DEF ArrivesOnce
  <2>1. calls # <<>>
    OBVIOUS
  <2>2. Len(calls) = 1 \/ (Len(calls) = 2 /\ calls[2].loop = NotYet)
    BY <2>1, StackIs DEF LoneCall, ClearingCall
  <2>3. \A j \in 1 .. Len(calls) : calls[j].loop # NotYet => j = 1
    BY <2>2
  <2> QED
    BY <2>3
<1> QED
  BY <1>1, Invariance, PTL

-------------------------------------------------------------------------------
(***************************************************************************)
(* Refinement.                                                             *)
(***************************************************************************)

\* The abstract state: the map of the process, and whether there is one.
UserMap == [s \in {"process"} |-> [a \in UserAddress |-> Translate(a)]]
Live    == IF dir = NoFrame THEN {} ELSE {"process"}

\* A step that changes no directory and no translation is a stutter.
LEMMA Unmoved ==
  ASSUME dir' = dir, \A a \in UserAddress : Translate(a)' = Translate(a)
  PROVE  UNCHANGED <<Live, UserMap>>
BY DEF Live, UserMap

\* A new directory maps nothing, as no directory did.
LEMMA CreateDirectoryRefines ==
  ASSUME Inv, NEW d \in Frame, CreateDirectory(d)
  PROVE  AddressSpace!Next
<1>1. dir = NoFrame /\ dir' = d /\ d # NoFrame /\ calls' = <<>>
  BY Numbers DEF CreateDirectory, Inv, Directory
<1>2. \A a \in UserAddress : Translate(a) = NoFrame
  BY <1>1 DEF Translate
<1>3. \A a \in UserAddress : Translate(a)' = NoFrame
  BY <1>1, CreateDirectoryInv, UserAddresses DEF Translate
<1>4. UserMap' = UserMap
  BY <1>2, <1>3 DEF UserMap
<1>5. "process" \notin Live /\ Live' = Live \union {"process"}
  BY <1>1 DEF Live
<1> QED
  BY <1>4, <1>5 DEF AddressSpace!Next, AddressSpace!Create, UserMap, Live

\* The last write of a call is the mapping of its page.
LEMMA WriteMappedRefines ==
  ASSUME Inv, WriteEntry, Len(calls) # 2
  PROVE  /\ AddressSpace!Map("process", calls[1].addr, calls[1].frame)
         /\ calls[1].addr \in UserAddress /\ calls[1].frame \in Page
<1>1. PICK b \in UserAddress, p \in Page : b = calls[1].addr /\ p = calls[1].frame
  BY WriteMappedInv
<1>2. \A a \in UserAddress : Translate(a)' = IF a = b THEN p ELSE Translate(a)
  BY <1>1, WriteMappedInv
<1>3. dir' = dir /\ dir # NoFrame
  BY WriteMappedInv
<1>4. UserMap' = [UserMap EXCEPT !["process"] = [@ EXCEPT ![b] = p]]
  BY <1>2 DEF UserMap
<1>5. Live' = Live /\ "process" \in Live
  BY <1>3 DEF Live
<1>6. AddressSpace!Map("process", b, p)
  BY <1>4, <1>5 DEF AddressSpace!Map, UserMap, Live
<1> QED
  BY <1>1, <1>6

\* mm_morecore's own turn maps nothing.
LEMMA GrowMapsNothing ==
  ASSUME Inv, NEW o \in Origin, NEW p \in Page, Grow(o, p)
  PROVE  \A a \in UserAddress : Translate(a)' = Translate(a)
<1>1. UNCHANGED <<mem, dir>> /\ calls = <<>> /\ calls'[1].loop = NotYet /\ Inv'
  BY GrowInv
<1>2. \A a : ~ BeingMade(a)
  BY <1>1, BeingIs
<1>3. Len(calls') = 1
  BY DEF Grow
<1>4. \A a : ~ BeingMade(a)'
  BY <1>1, <1>3 DEF BeingMade
<1> QED
  BY <1>1, <1>2, <1>4 DEF Translate

\* Nothing is mapped without a directory.
LEMMA InitRefines == Init => AddressSpace!Init
BY DEF Init, AddressSpace!Init, AddressSpace!Empty, Translate

\* Every step is a step of Translation or a stutter.
LEMMA StepRefines ==
  ASSUME Inv, [Next]_vars
  PROVE  [AddressSpace!Next]_<<Live, UserMap>>
<1>1. CASE \E f \in Frame : CreateDirectory(f)
  BY <1>1, CreateDirectoryRefines
<1>2. CASE \E f \in Frame : MakeTable(f)
  BY <1>2, MakeTableInv, Unmoved
<1>3. CASE \E o \in Origin, p \in Page : Grow(o, p)
  BY <1>3, GrowMapsNothing, GrowInv, Unmoved
<1>4. CASE ClearEntry
  BY <1>4, ClearEntryInv, Unmoved
<1>5. CASE WriteEntry
  <2>1. CASE Len(calls) = 2
    BY <1>5, <2>1, WriteClearedInv, Unmoved
  <2>2. CASE Len(calls) # 2
    BY <1>5, <2>2, WriteMappedRefines DEF AddressSpace!Next
  <2> QED
    BY <2>1, <2>2
<1>6. CASE (\E f \in Frame : OtherAllocates(f)) \/ NoMemory \/ Done
           \/ UNCHANGED vars
  <2>1. UNCHANGED <<mem, dir, calls>>
    BY <1>6, QuietInv
  <2>2. \A a \in UserAddress : Translate(a)' = Translate(a)
    BY <2>1 DEF Translate, BeingMade
  <2> QED
    BY <2>1, <2>2, Unmoved
<1> QED
  BY <1>1, <1>2, <1>3, <1>4, <1>5, <1>6 DEF Next

\* paging_setPageTableEntry maps one page at one address, whatever the frames
\* held that it made tables in: the kernel's tables are an address space.
THEOREM Refinement == RegionsFit /\ Spec => ImplementsTranslation
<1>1. Inv /\ [Next]_vars => [AddressSpace!Next]_<<Live, UserMap>>
  BY StepRefines
<1> QED
  BY <1>1, InitRefines, InitInv, StepInv, PTL
  DEF Spec, ImplementsTranslation, AddressSpace!Spec, Live, UserMap

\* Each call of mm_morecore ends by mapping its own page at its own address,
\* whatever calls were made inside it: a call that clears an entry ends, but
\* the call that made the table does not.
THEOREM EachCallMapsItsPage == RegionsFit /\ Spec => MapsItsPage
<1> DEFINE Ends == calls # <<>> /\ calls' = <<>> =>
                     AddressSpace!Map("process", calls[1].addr, calls[1].frame)
<1>1. ASSUME Inv, Next PROVE Ends
  <2> SUFFICES ASSUME calls # <<>>, calls' = <<>>
               PROVE  AddressSpace!Map("process", calls[1].addr, calls[1].frame)
    OBVIOUS
  <2>1. CASE WriteEntry
    BY <1>1, <2>1, WriteClearedInv, WriteMappedRefines DEF CallGoesOn
  <2>2. CASE ClearEntry \/ \E f \in Frame : MakeTable(f)
    BY <1>1, <2>2, ClearEntryInv, MakeTableInv DEF CallGoesOn
  <2>3. ~ \E o \in Origin, p \in Page : Grow(o, p)
    BY DEF Grow
  <2>4. ~ \E f \in Frame : CreateDirectory(f) \/ OtherAllocates(f)
    BY DEF CreateDirectory, OtherAllocates
  <2>5. ~ NoMemory /\ ~ Done
    BY DEF NoMemory, Done, vars
  <2> QED
    BY <1>1, <2>1, <2>2, <2>3, <2>4, <2>5 DEF Next
<1>2. ASSUME UNCHANGED vars PROVE Ends
  BY <1>2 DEF vars
<1>3. Inv /\ [Next]_vars => [Ends]_vars
  BY <1>1, <1>2
<1> QED
  BY <1>3, InitInv, StepInv, PTL DEF Spec, MapsItsPage

-------------------------------------------------------------------------------
(***************************************************************************)
(* The pages of the regions.                                               *)
(***************************************************************************)

\* The address a is the page of a region that has got it.
Served(a) == \E o \in Origin, k \in Nat : k < pages[o] /\ RegionPage(o, k) = a

\* What is mapped has been asked for, and what was asked for is mapped, but for
\* the page of the call in progress.
Answered ==
  /\ calls # <<>> => Served(calls[1].addr)
  /\ \A a \in UserAddress :
       /\ Translate(a) # NoFrame => Served(a)
       /\ Served(a) => \/ Translate(a) # NoFrame
                       \/ calls # <<>> /\ calls[1].addr = a

LEMMA InitAnswered == Init => Answered
BY DEF Init, Answered, Served, Translate

LEMMA CreateDirectoryAnswered ==
  ASSUME Inv, Answered, NEW d \in Frame, CreateDirectory(d)
  PROVE  Answered'
<1>1. /\ dir = NoFrame /\ calls = <<>> /\ calls' = <<>> /\ pages' = pages
      /\ \A o \in Origin : pages[o] = 0
  BY DEF CreateDirectory, Inv, Directory
<1>2. \A a : ~ Served(a)'
  BY <1>1 DEF Served
<1>3. \A a \in UserAddress : Translate(a)' = NoFrame
  BY CreateDirectoryInv, UserAddresses DEF Translate
<1> QED
  BY <1>1, <1>2, <1>3 DEF Answered

\* A new page of a region is the one of the call that begins.
LEMMA GrowAnswered ==
  ASSUME Inv, Answered, NEW o \in Origin, NEW p \in Page, Grow(o, p)
  PROVE  Answered'
<1>1. /\ calls = <<>> /\ calls' # <<>>
      /\ calls'[1].addr = RegionPage(o, pages[o])
      /\ pages \in [Origin -> Nat] /\ pages' = [pages EXCEPT ![o] = @ + 1]
  BY GrowInv
<1>2. \A q \in Origin, k \in Nat :
        k < pages'[q] <=> k < pages[q] \/ (q = o /\ k = pages[o])
  BY <1>1
<1>3. pages[o] \in Nat
  BY <1>1
<1>4. \A a : Served(a)' <=> Served(a) \/ a = calls'[1].addr
  BY <1>1, <1>2, <1>3 DEF Served
<1> QED
  BY <1>1, <1>4, GrowMapsNothing DEF Answered

\* Neither a table that is made nor an entry that is cleared changes what is
\* mapped, and the call goes on.
LEMMA GoesOnAnswered ==
  ASSUME Inv, Answered, CallGoesOn,
         \A a \in UserAddress : Translate(a)' = Translate(a)
  PROVE  Answered'
<1>1. \A a : Served(a)' <=> Served(a)
  BY DEF CallGoesOn, Served
<1> QED
  BY <1>1 DEF Answered, CallGoesOn

LEMMA WriteMappedAnswered ==
  ASSUME Inv, Answered, WriteEntry, Len(calls) # 2
  PROVE  Answered'
<1>1. /\ calls # <<>> /\ calls' = <<>> /\ pages' = pages
      /\ calls[1].addr \in UserAddress /\ calls[1].frame # NoFrame
      /\ \A a \in UserAddress :
           Translate(a)' = IF a = calls[1].addr THEN calls[1].frame
                           ELSE Translate(a)
  BY WriteMappedInv, Numbers
<1>2. \A a : Served(a)' <=> Served(a)
  BY <1>1 DEF Served
<1> QED
  BY <1>1, <1>2 DEF Answered

LEMMA AnsweredNext ==
  ASSUME Inv, Answered, [Next]_vars
  PROVE  Answered'
<1>1. CASE \E f \in Frame : CreateDirectory(f)
  BY <1>1, CreateDirectoryAnswered
<1>2. CASE \E f \in Frame : MakeTable(f)
  BY <1>2, MakeTableInv, GoesOnAnswered
<1>3. CASE \E o \in Origin, p \in Page : Grow(o, p)
  BY <1>3, GrowAnswered
<1>4. CASE ClearEntry
  BY <1>4, ClearEntryInv, GoesOnAnswered
<1>5. CASE WriteEntry
  BY <1>5, WriteClearedInv, GoesOnAnswered, WriteMappedAnswered
<1>6. CASE (\E f \in Frame : OtherAllocates(f)) \/ NoMemory \/ Done
           \/ UNCHANGED vars
  <2>1. UNCHANGED <<mem, dir, calls, pages>>
    BY <1>6 DEF OtherAllocates, NoMemory, Done, vars
  <2>2. /\ \A a \in UserAddress : Translate(a)' = Translate(a)
        /\ \A a : Served(a)' <=> Served(a)
    BY <2>1 DEF Translate, BeingMade, Served
  <2> QED
    BY <2>1, <2>2 DEF Answered
<1> QED
  BY <1>1, <1>2, <1>3, <1>4, <1>5, <1>6 DEF Next

\* A page of a region is the one that its address is rounded up to.
LEMMA ServedIs ==
  ASSUME Inv, NEW a \in UserAddress, NEW o \in Origin, NEW k \in Nat,
         k < pages[o]
  PROVE  RegionPage(o, k) = a <=> o + k * PAGE <= a /\ a < o + k * PAGE + PAGE
<1>1. pages[o] \in Nat /\ Size[o] \in Nat /\ o \in Int /\ PAGE \in Nat
  BY SizesAssumption DEF Inv, Types
<1>2. k < Size[o]
  BY <1>1 DEF Inv, Types
<1>3. ASSUME RegionPage(o, k) = a
      PROVE  o + k * PAGE <= a /\ a < o + k * PAGE + PAGE
  BY <1>2, <1>3, RegionPages DEF Inv
<1>4. ASSUME o + k * PAGE <= a, a < o + k * PAGE + PAGE
      PROVE  RegionPage(o, k) = a
  <2>1. PICK d \in Index, i \in Index : a = PageAt(d, i)
    BY UserAddresses
  <2>2. PICK n \in 0 .. ENTRIES * ENTRIES - 1 : n = d * ENTRIES + i
    BY PageNumbers
  <2>3. a = n * PAGE
    BY <2>1, <2>2 DEF PageAt
  <2>4. o + k * PAGE \in Int
    BY <1>1
  <2>5. o + k * PAGE <= n * PAGE /\ n * PAGE < o + k * PAGE + PAGE
    BY <1>4, <2>3
  <2> QED
    BY <2>3, <2>4, <2>5, AlignIs DEF RegionPage
<1> QED
  BY <1>3, <1>4

\* Between two calls of mm_morecore, the kernel's tables map the pages that the
\* regions have got, each at the first page after the address counted up to,
\* and nothing else, for any sizes of tables and any regions.
THEOREM RegionsAreMapped == RegionsFit /\ Spec => []RegionsMapped
<1>1. ASSUME Inv, Answered PROVE RegionsMapped
  <2> SUFFICES ASSUME calls = <<>>, NEW a \in UserAddress
               PROVE  Translate(a) # NoFrame <=>
                        \E o \in Origin : \E k \in 0 .. pages[o] - 1 :
                          o + k * PAGE <= a /\ a < o + k * PAGE + PAGE
    BY DEF RegionsMapped
  <2>1. Translate(a) # NoFrame <=> Served(a)
    BY <1>1 DEF Answered
  <2>2. \A o \in Origin : pages[o] \in Nat
    BY <1>1 DEF Inv, Types
  <2>3. \A o \in Origin, k \in Nat : k \in 0 .. pages[o] - 1 <=> k < pages[o]
    BY <2>2
  <2>4. \A o \in Origin : \A k \in 0 .. pages[o] - 1 : k \in Nat
    BY <2>2
  <2>5. \A o \in Origin, k \in Nat : k < pages[o] =>
          (RegionPage(o, k) = a <=> o + k * PAGE <= a /\ a < o + k * PAGE + PAGE)
    BY <1>1, ServedIs
  <2> QED
    BY <2>1, <2>3, <2>4, <2>5 DEF Served
<1> QED
  BY <1>1, InitInv, InitAnswered, StepInv, AnsweredNext, PTL DEF Spec

-------------------------------------------------------------------------------
(***************************************************************************)
(* The locks.                                                              *)
(*                                                                         *)
(* Wherever a context waits for a lock, it holds only locks that come before*)
(* it in the order mm_kmallocLock, paging_lock, physical_bitmapLock.       *)
(***************************************************************************)

\* The locks a context may hold where it is; inside physical_pageAlloc that
\* depends on where it returns to.
Searches == {"high", "low", "in high", "in low"}
May(at, r) ==
  {l \in Lock :
     \/ /\ l = "kmalloc"
        /\ \/ at \in {"in mm_kmalloc", "heap done", "more", "map", "lock map", "in map", "mapped"}
           \/ at \in Searches /\ r \in {"map", "mapped"}
     \/ /\ l = "paging"
        /\ \/ at \in {"in map", "mapped", "new directory", "directory done"}
           \/ at \in Searches /\ r \in {"mapped", "directory done"}
     \/ l = "bitmap" /\ at \in {"in high", "in low", "in pageFree"}
     \/ at = "panic"}

\* Strengthening: a context holds no other locks than those.
Ranked ==
  \A p \in Proc, l \in Lock : owner[l] = p => l \in May(pc[p], ret[p])

LocksInv == LocksTypeOK /\ Ranked
-------------------------------------------------------------------------------
\* The locks and contexts are well typed at the start and after every step of
\* the calls.
LEMMA TypeInit == ASSUME LocksInit PROVE LocksTypeOK
<1>1. Counts
  <2>1. \A h \in Half : free[h] = Pages[h] /\ Pages[h] \in Nat
    BY LocksAssumption DEF LocksInit
  <2> QED
    BY <2>1, LocksAssumption DEF LocksInit, Counts
<1> QED
  BY <1>1, LocksAssumption DEF LocksInit, LocksTypeOK, Lock, EntryPoint

LEMMA CountsNext == ASSUME Counts, [LocksNext]_locksVars PROVE Counts'
<1> USE LocksAssumption DEF Counts
<1>1. ASSUME NEW p \in Proc, NEW c \in EntryPoint, EnterCall(p, c) PROVE Counts'
  BY <1>1 DEF EnterCall
<1>2. ASSUME NEW p \in Proc, NEW h \in Half, LockBitmap(p, h) PROVE Counts'
  BY <1>2 DEF LockBitmap
<1>3. ASSUME NEW p \in Proc, NEW h \in Half, Found(p, h) PROVE Counts'
  BY <1>3 DEF Found
<1>4. ASSUME NEW p \in Proc, Retry(p) PROVE Counts'
  BY <1>4 DEF Retry
<1>5. ASSUME NEW p \in Proc, Panic(p) PROVE Counts'
  BY <1>5 DEF Panic
<1>6. ASSUME NEW p \in Proc, LockFree(p) PROVE Counts'
  BY <1>6 DEF LockFree
<1>7. ASSUME NEW p \in Proc, EndFree(p) PROVE Counts'
  <2>1. /\ UNCHANGED <<more, own, entered>>
        /\ \E h \in Half : free' = [free EXCEPT ![h] = @ + 1]
    BY <1>7 DEF EndFree
  <2> QED
    BY <2>1
<1>8. ASSUME NEW p \in Proc, LockHeap(p) PROVE Counts'
  BY <1>8 DEF LockHeap
<1>9. ASSUME NEW p \in Proc, Search(p) PROVE Counts'
  <2>1. UNCHANGED <<free, own, entered>>
    BY <1>9 DEF Search
  <2>2. more' = more \/ \E n \in Growth : more' = [more EXCEPT ![p] = n]
    BY <1>9 DEF Search
  <2> QED
    BY <2>1, <2>2
<1>10. ASSUME NEW p \in Proc, MoreCore(p) PROVE Counts'
  BY <1>10 DEF MoreCore
<1>11. ASSUME NEW p \in Proc, UnlockHeap(p) PROVE Counts'
  BY <1>11 DEF UnlockHeap
<1>12. ASSUME NEW p \in Proc, Map(p) PROVE Counts'
  BY <1>12 DEF Map
<1>13. ASSUME NEW p \in Proc, LockMap(p) PROVE Counts'
  BY <1>13 DEF LockMap
<1>14. ASSUME NEW p \in Proc, MapEntry(p) PROVE Counts'
  BY <1>14 DEF MapEntry
<1>15. ASSUME NEW p \in Proc, Mapped(p) PROVE Counts'
  BY <1>15 DEF Mapped
<1>16. ASSUME NEW p \in Proc, LockPaging(p) PROVE Counts'
  BY <1>16 DEF LockPaging
<1>17. ASSUME NEW p \in Proc, AllocDirectory(p) PROVE Counts'
  BY <1>17 DEF AllocDirectory
<1>18. ASSUME NEW p \in Proc, UnlockPaging(p) PROVE Counts'
  BY <1>18 DEF UnlockPaging
<1>19. CASE UNCHANGED locksVars
  BY <1>19 DEF locksVars
<1> QED
  BY <1>1, <1>2, <1>3, <1>4, <1>5, <1>6, <1>7, <1>8, <1>9, <1>10,
     <1>11, <1>12, <1>13, <1>14, <1>15, <1>16, <1>17, <1>18, <1>19
  DEF LocksNext, Step, Halted

LEMMA TypeNext == ASSUME LocksTypeOK, [LocksNext]_locksVars PROVE LocksTypeOK'
<1> USE LocksAssumption DEF LocksTypeOK, Lock, Half, EntryPoint, Inside
<1>0. Counts'
  BY CountsNext
<1>1. ASSUME NEW p \in Proc, NEW c \in EntryPoint, EnterCall(p, c) PROVE LocksTypeOK'
  BY <1>0, <1>1 DEF EnterCall, Keep, Goto
<1>2. ASSUME NEW p \in Proc, NEW h \in Half, LockBitmap(p, h) PROVE LocksTypeOK'
  BY <1>0, <1>2 DEF LockBitmap, At, TakeLock, Searching, Goto
<1>3. ASSUME NEW p \in Proc, NEW h \in Half, Found(p, h) PROVE LocksTypeOK'
  BY <1>0, <1>3 DEF Found, At, GiveLock, Searching, Goto
<1>4. ASSUME NEW p \in Proc, Retry(p) PROVE LocksTypeOK'
  BY <1>0, <1>4 DEF Retry, At, GiveLock, Goto
<1>5. ASSUME NEW p \in Proc, Panic(p) PROVE LocksTypeOK'
  BY <1>0, <1>5 DEF Panic, At, GiveLock, Goto
<1>6. ASSUME NEW p \in Proc, LockFree(p) PROVE LocksTypeOK'
  BY <1>0, <1>6 DEF LockFree, At, TakeLock, Goto
<1>7. ASSUME NEW p \in Proc, EndFree(p) PROVE LocksTypeOK'
  BY <1>0, <1>7 DEF EndFree, At, GiveLock, Goto
<1>8. ASSUME NEW p \in Proc, LockHeap(p) PROVE LocksTypeOK'
  <2>1. owner' = [owner EXCEPT !["kmalloc"] = p]
    BY <1>8 DEF LockHeap, TakeLock
  <2>2. \/ pc' = [pc EXCEPT ![p] = "in mm_kmalloc"]
        \/ pc' = [pc EXCEPT ![p] = "heap done"]
    BY <1>8 DEF LockHeap, TakeLock, Goto
  <2>3. UNCHANGED <<ret, panicked>>
    BY <1>8 DEF LockHeap
  <2> QED
    BY <1>0, <2>1, <2>2, <2>3
<1>9. ASSUME NEW p \in Proc, Search(p) PROVE LocksTypeOK'
  BY <1>0, <1>9 DEF Search, At, Keep, Goto
<1>10. ASSUME NEW p \in Proc, MoreCore(p) PROVE LocksTypeOK'
  BY <1>0, <1>10 DEF MoreCore, At, Keep, Alloc, Goto
<1>11. ASSUME NEW p \in Proc, UnlockHeap(p) PROVE LocksTypeOK'
  BY <1>0, <1>11 DEF UnlockHeap, At, GiveLock, Goto
<1>12. ASSUME NEW p \in Proc, Map(p) PROVE LocksTypeOK'
  BY <1>0, <1>12 DEF Map, At, Keep, Goto
<1>13. ASSUME NEW p \in Proc, LockMap(p) PROVE LocksTypeOK'
  BY <1>0, <1>13 DEF LockMap, At, TakeLock, Goto
<1>14. ASSUME NEW p \in Proc, MapEntry(p) PROVE LocksTypeOK'
  BY <1>0, <1>14 DEF MapEntry, At, Keep, Alloc, Goto
<1>15. ASSUME NEW p \in Proc, Mapped(p) PROVE LocksTypeOK'
  <2>1. pc' = [pc EXCEPT ![p] = "more"]
    BY <1>15 DEF Mapped, Keep, GiveLock, Goto
  <2>2. owner' = owner \/ owner' = [owner EXCEPT !["paging"] = NoProc]
    BY <1>15 DEF Mapped, Keep, GiveLock
  <2>3. UNCHANGED <<ret, panicked>>
    BY <1>15 DEF Mapped
  <2> QED
    BY <1>0, <2>1, <2>2, <2>3
<1>16. ASSUME NEW p \in Proc, LockPaging(p) PROVE LocksTypeOK'
  BY <1>0, <1>16 DEF LockPaging, At, TakeLock, Goto
<1>17. ASSUME NEW p \in Proc, AllocDirectory(p) PROVE LocksTypeOK'
  BY <1>0, <1>17 DEF AllocDirectory, At, Keep, Alloc, Goto
<1>18. ASSUME NEW p \in Proc, UnlockPaging(p) PROVE LocksTypeOK'
  BY <1>0, <1>18 DEF UnlockPaging, At, GiveLock, Goto
<1>19. CASE UNCHANGED locksVars
  BY <1>0, <1>19 DEF locksVars
<1> QED
  BY <1>1, <1>2, <1>3, <1>4, <1>5, <1>6, <1>7, <1>8, <1>9, <1>10,
     <1>11, <1>12, <1>13, <1>14, <1>15, <1>16, <1>17, <1>18, <1>19
  DEF LocksNext, Step, Halted

-------------------------------------------------------------------------------
\* A step of one context keeps the order if that context's locks are among
\* those it may hold where it comes to, and it gives no lock to another.
LEMMA OneMoves ==
  ASSUME LocksTypeOK, Ranked, NEW p \in Proc,
         \A q \in Proc \ {p} : pc'[q] = pc[q] /\ ret'[q] = ret[q],
         \A l \in Lock : owner'[l] \in {owner[l], p, NoProc},
         \A l \in Lock : owner'[l] = p => l \in May(pc'[p], ret'[p])
  PROVE  Ranked'
<1> SUFFICES ASSUME NEW q \in Proc, NEW l \in Lock, owner'[l] = q
             PROVE  l \in May(pc'[q], ret'[q])
  BY DEF Ranked
<1>1. CASE q = p
  BY <1>1
<1>2. CASE q # p
  <2>1. owner[l] = q
    BY <1>2, LocksAssumption
  <2> QED
    BY <1>2, <2>1 DEF Ranked
<1> QED
  BY <1>1, <1>2

\* Giving back l and going to at is such a step.
LEMMA GiveKeeps ==
  ASSUME LocksTypeOK, Ranked, NEW p \in Proc, NEW l \in Lock, NEW at,
         GiveLock(p, l, at), UNCHANGED ret,
         May(pc[p], ret[p]) \ {l} \subseteq May(at, ret[p])
  PROVE  Ranked'
<1>1. pc'[p] = at /\ \A q \in Proc \ {p} : pc'[q] = pc[q]
  BY DEF GiveLock, Goto, LocksTypeOK
<1>2. \A m \in Lock : owner'[m] = IF m = l THEN NoProc ELSE owner[m]
  BY DEF GiveLock, LocksTypeOK
<1>3. \A m \in Lock : owner'[m] = p => m \in May(pc'[p], ret'[p])
  <2> SUFFICES ASSUME NEW m \in Lock, owner'[m] = p PROVE m \in May(at, ret[p])
    BY <1>1
  <2>1. m # l /\ owner[m] = p
    BY <1>2, LocksAssumption
  <2> QED
    BY <2>1 DEF Ranked
<1> HIDE DEF GiveLock
<1> QED
  BY <1>1, <1>2, <1>3, OneMoves

\* So is taking it.
LEMMA TakeKeeps ==
  ASSUME LocksTypeOK, Ranked, NEW p \in Proc, NEW l \in Lock, NEW at,
         TakeLock(p, l, at), UNCHANGED ret,
         May(pc[p], ret[p]) \union {l} \subseteq May(at, ret[p])
  PROVE  Ranked'
<1>1. pc'[p] = at /\ \A q \in Proc \ {p} : pc'[q] = pc[q]
  BY DEF TakeLock, Goto, LocksTypeOK
<1>2. \A m \in Lock : owner'[m] = IF m = l THEN p ELSE owner[m]
  BY DEF TakeLock, LocksTypeOK
<1>3. \A m \in Lock : owner'[m] = p => m \in May(pc'[p], ret'[p])
  <2> SUFFICES ASSUME NEW m \in Lock, owner'[m] = p PROVE m \in May(at, ret[p])
    BY <1>1
  <2>1. m = l \/ owner[m] = p
    BY <1>2
  <2> QED
    BY <2>1 DEF Ranked
<1> HIDE DEF TakeLock
<1> QED
  BY <1>1, <1>2, <1>3, OneMoves

\* So is a step that touches no lock.
LEMMA GoKeeps ==
  ASSUME LocksTypeOK, Ranked, NEW p \in Proc, NEW at, NEW back,
         Keep(p, at), ret' = [ret EXCEPT ![p] = back],
         May(pc[p], ret[p]) \subseteq May(at, back)
  PROVE  Ranked'
<1>1. pc'[p] = at /\ ret'[p] = back
  BY DEF Keep, Goto, LocksTypeOK
<1>2. \A q \in Proc \ {p} : pc'[q] = pc[q] /\ ret'[q] = ret[q]
  BY DEF Keep, Goto, LocksTypeOK
<1>3. \A m \in Lock : owner'[m] = owner[m]
  BY DEF Keep
<1>4. \A m \in Lock : owner'[m] = p => m \in May(pc'[p], ret'[p])
  <2> SUFFICES ASSUME NEW m \in Lock, owner[m] = p PROVE m \in May(at, back)
    BY <1>1, <1>3
  <2> QED
    BY DEF Ranked
<1> HIDE DEF Keep
<1> QED
  BY <1>1, <1>2, <1>3, <1>4, OneMoves
-------------------------------------------------------------------------------
\* Every step of the calls keeps to the order of the locks.
LEMMA RankedNext == ASSUME LocksInv, [LocksNext]_locksVars PROVE Ranked'
<1> USE DEF LocksInv
<1>0. \A p \in Proc : ret = [ret EXCEPT ![p] = ret[p]]
  BY DEF LocksTypeOK
<1>1. ASSUME NEW p \in Proc, NEW c \in EntryPoint, EnterCall(p, c) PROVE Ranked'
  <2>1. May(pc[p], ret[p]) \subseteq May(c, "idle")
    BY <1>1 DEF EnterCall, At, EntryPoint, May, Searches
  <2>2. Keep(p, c) /\ ret' = [ret EXCEPT ![p] = "idle"]
    BY <1>1 DEF EnterCall
  <2> QED
    BY <2>1, <2>2, GoKeeps
<1>2. ASSUME NEW p \in Proc, NEW h \in Half, LockBitmap(p, h) PROVE Ranked'
  <2>1. May(pc[p], ret[p]) \union {"bitmap"} \subseteq May(Searching(h), ret[p])
    BY <1>2 DEF LockBitmap, At, Half, Searching, May, Searches, Lock
  <2>2. TakeLock(p, "bitmap", Searching(h)) /\ UNCHANGED ret
    BY <1>2 DEF LockBitmap
  <2> QED
    BY <2>1, <2>2, TakeKeeps DEF Lock
<1>3. ASSUME NEW p \in Proc, NEW h \in Half, Found(p, h) PROVE Ranked'
  <2>1. May(pc[p], ret[p]) \ {"bitmap"} \subseteq May(ret[p], ret[p])
    BY <1>3 DEF Found, At, Half, Searching, May, Searches, LocksTypeOK
  <2>2. GiveLock(p, "bitmap", ret[p]) /\ UNCHANGED ret
    BY <1>3 DEF Found
  <2> QED
    BY <1>0, <2>1, <2>2, GiveKeeps DEF Lock
<1>4. ASSUME NEW p \in Proc, Retry(p) PROVE Ranked'
  <2>1. May(pc[p], ret[p]) \ {"bitmap"} \subseteq May("low", ret[p])
    BY <1>4 DEF Retry, At, May, Searches
  <2> QED
    BY <1>4, <2>1, GiveKeeps DEF Lock, Retry
<1>5. ASSUME NEW p \in Proc, Panic(p) PROVE Ranked'
  <2>1. May(pc[p], ret[p]) \ {"bitmap"} \subseteq May("panic", ret[p])
    BY <1>5 DEF Panic, At, May, Searches, Lock
  <2> QED
    BY <1>5, <2>1, GiveKeeps DEF Lock, Panic
<1>6. ASSUME NEW p \in Proc, LockFree(p) PROVE Ranked'
  <2>1. May(pc[p], ret[p]) \union {"bitmap"} \subseteq May("in pageFree", ret[p])
    BY <1>6 DEF LockFree, At, May, Searches, Lock
  <2> QED
    BY <1>6, <2>1, TakeKeeps DEF Lock, LockFree
<1>7. ASSUME NEW p \in Proc, EndFree(p) PROVE Ranked'
  <2>1. May(pc[p], ret[p]) \ {"bitmap"} \subseteq May("idle", ret[p])
    BY <1>7 DEF EndFree, At, May, Searches
  <2> QED
    BY <1>7, <2>1, GiveKeeps DEF Lock, EndFree
<1>8. ASSUME NEW p \in Proc, LockHeap(p) PROVE Ranked'
  <2>1. CASE At(p, "mm_kmalloc") /\ TakeLock(p, "kmalloc", "in mm_kmalloc")
    <3>1. May(pc[p], ret[p]) \union {"kmalloc"} \subseteq May("in mm_kmalloc", ret[p])
      BY <2>1 DEF At, May, Searches, Lock
    <3> QED
      BY <1>8, <2>1, <3>1, TakeKeeps DEF Lock, LockHeap
  <2>2. CASE At(p, "mm_kfree") /\ TakeLock(p, "kmalloc", "heap done")
    <3>1. May(pc[p], ret[p]) \union {"kmalloc"} \subseteq May("heap done", ret[p])
      BY <2>2 DEF At, May, Searches, Lock
    <3> QED
      BY <1>8, <2>2, <3>1, TakeKeeps DEF Lock, LockHeap
  <2> QED
    BY <1>8, <2>1, <2>2 DEF LockHeap
<1>9. ASSUME NEW p \in Proc, Search(p) PROVE Ranked'
  <2>1. /\ May(pc[p], ret[p]) \subseteq May("heap done", ret[p])
        /\ May(pc[p], ret[p]) \subseteq May("more", ret[p])
    BY <1>9 DEF Search, At, May, Searches
  <2>2. /\ Keep(p, "heap done") \/ Keep(p, "more")
        /\ ret' = [ret EXCEPT ![p] = ret[p]]
    BY <1>0, <1>9 DEF Search
  <2> QED
    BY <1>0, <2>1, <2>2, GoKeeps
<1>10. ASSUME NEW p \in Proc, MoreCore(p) PROVE Ranked'
  <2>1. /\ May(pc[p], ret[p]) \subseteq May("high", "map")
        /\ May(pc[p], ret[p]) \subseteq May("heap done", ret[p])
    BY <1>10 DEF MoreCore, At, May, Searches
  <2>2. \/ Keep(p, "high") /\ ret' = [ret EXCEPT ![p] = "map"]
        \/ Keep(p, "heap done") /\ ret' = [ret EXCEPT ![p] = ret[p]]
    BY <1>0, <1>10 DEF MoreCore, Alloc
  <2> QED
    BY <1>0, <2>1, <2>2, GoKeeps
<1>11. ASSUME NEW p \in Proc, UnlockHeap(p) PROVE Ranked'
  <2>1. May(pc[p], ret[p]) \ {"kmalloc"} \subseteq May("idle", ret[p])
    BY <1>11 DEF UnlockHeap, At, May, Searches
  <2> QED
    BY <1>11, <2>1, GiveKeeps DEF Lock, UnlockHeap
<1>12. ASSUME NEW p \in Proc, Map(p) PROVE Ranked'
  <2>1. /\ May(pc[p], ret[p]) \subseteq May("lock map", ret[p])
        /\ May(pc[p], ret[p]) \subseteq May("in map", ret[p])
    BY <1>12 DEF Map, At, May, Searches
  <2>2. /\ Keep(p, "lock map") \/ Keep(p, "in map")
        /\ ret' = [ret EXCEPT ![p] = ret[p]]
    BY <1>0, <1>12 DEF Map
  <2> QED
    BY <1>0, <2>1, <2>2, GoKeeps
<1>13. ASSUME NEW p \in Proc, LockMap(p) PROVE Ranked'
  <2>1. May(pc[p], ret[p]) \union {"paging"} \subseteq May("in map", ret[p])
    BY <1>13 DEF LockMap, At, May, Searches, Lock
  <2>2. TakeLock(p, "paging", "in map") /\ UNCHANGED ret /\ "paging" \in Lock
    BY <1>13 DEF LockMap, Lock
  <2> QED
    BY <2>1, <2>2, TakeKeeps
<1>14. ASSUME NEW p \in Proc, MapEntry(p) PROVE Ranked'
  <2>1. /\ May(pc[p], ret[p]) \subseteq May("high", "mapped")
        /\ May(pc[p], ret[p]) \subseteq May("mapped", ret[p])
    BY <1>14 DEF MapEntry, At, May, Searches
  <2>2. \/ Keep(p, "high") /\ ret' = [ret EXCEPT ![p] = "mapped"]
        \/ Keep(p, "mapped") /\ ret' = [ret EXCEPT ![p] = ret[p]]
    BY <1>0, <1>14 DEF MapEntry, Alloc
  <2> QED
    BY <1>0, <2>1, <2>2, GoKeeps
<1>15. ASSUME NEW p \in Proc, Mapped(p) PROVE Ranked'
  <2>1. /\ May(pc[p], ret[p]) \ {"paging"} \subseteq {"kmalloc"}
        /\ "kmalloc" \in May("more", ret[p])
    BY <1>15 DEF Mapped, At, May, Searches, Lock
  <2>2. CASE owner["paging"] = p
    <3>1. GiveLock(p, "paging", "more") /\ UNCHANGED ret
      BY <1>15, <2>2 DEF Mapped
    <3> QED
      BY <2>1, <3>1, GiveKeeps DEF Lock
  <2>3. CASE owner["paging"] # p
    <3>1. Keep(p, "more") /\ UNCHANGED ret
      BY <1>15, <2>3 DEF Mapped
    <3>2. pc'[p] = "more" /\ \A q \in Proc \ {p} : pc'[q] = pc[q]
      BY <3>1 DEF Keep, Goto, LocksTypeOK
    <3>3. \A l \in Lock : owner'[l] = p => l = "kmalloc"
      BY <2>1, <2>3, <3>1 DEF Keep, Ranked
    <3> QED
      BY <2>1, <3>1, <3>2, <3>3, OneMoves DEF Keep
  <2> QED
    BY <2>2, <2>3
<1>16. ASSUME NEW p \in Proc, LockPaging(p) PROVE Ranked'
  <2>1. May(pc[p], ret[p]) \union {"paging"} \subseteq May("new directory", ret[p])
    BY <1>16 DEF LockPaging, At, May, Searches, Lock
  <2>2. TakeLock(p, "paging", "new directory") /\ UNCHANGED ret /\ "paging" \in Lock
    BY <1>16 DEF LockPaging, Lock
  <2> QED
    BY <2>1, <2>2, TakeKeeps
<1>17. ASSUME NEW p \in Proc, AllocDirectory(p) PROVE Ranked'
  <2>1. May(pc[p], ret[p]) \subseteq May("high", "directory done")
    BY <1>17 DEF AllocDirectory, At, May, Searches
  <2> QED
    BY <1>17, <2>1, GoKeeps DEF AllocDirectory, Alloc
<1>18. ASSUME NEW p \in Proc, UnlockPaging(p) PROVE Ranked'
  <2>1. May(pc[p], ret[p]) \ {"paging"} \subseteq May("idle", ret[p])
    BY <1>18 DEF UnlockPaging, At, May, Searches
  <2> QED
    BY <1>18, <2>1, GiveKeeps DEF Lock, UnlockPaging
<1>19. CASE UNCHANGED locksVars
  BY <1>19 DEF locksVars, Ranked
<1> QED
  BY <1>1, <1>2, <1>3, <1>4, <1>5, <1>6, <1>7, <1>8, <1>9, <1>10, <1>11, <1>12, <1>13,
     <1>14, <1>15, <1>16, <1>17, <1>18, <1>19 DEF LocksNext, Step, Halted
-------------------------------------------------------------------------------
Rank == [l \in Lock |-> IF l = "kmalloc" THEN 1 ELSE IF l = "paging" THEN 2 ELSE 3]

\* A context that waits for a lock holds none but those that come before it.
LEMMA WaitsUpwards ==
  ASSUME LocksInv, NEW p \in Proc, NEW l \in Wanted(p), NEW m \in Lock, owner[m] = p
  PROVE  l \in Lock /\ Rank[m] < Rank[l]
<1>1. m \in May(pc[p], ret[p])
  BY DEF LocksInv, Ranked
<1>2. CASE pc[p] \in {"mm_kmalloc", "mm_kfree"}
  BY <1>1, <1>2 DEF Wanted, May, Searches
<1>3. CASE pc[p] = "createDirectory"
  BY <1>1, <1>3 DEF Wanted, May, Searches
<1>4. CASE pc[p] = "lock map"
  <2>1. m = "kmalloc" /\ l = "paging"
    BY <1>1, <1>4 DEF Wanted, May, Searches
  <2> QED
    BY <2>1 DEF Rank, Lock
<1>5. CASE pc[p] \in {"high", "low"}
  <2>1. m \in {"kmalloc", "paging"} /\ l = "bitmap"
    BY <1>1, <1>5 DEF Wanted, May, Searches
  <2> QED
    BY <2>1 DEF Rank, Lock
<1>6. CASE pc[p] = "pageFree"
  BY <1>1, <1>6 DEF Wanted, May, Searches
<1> QED
  BY <1>2, <1>3, <1>4, <1>5, <1>6 DEF Wanted

\* Four contexts that each wait for the next would need four locks.
LEMMA OrderIsSafe == ASSUME LocksInv PROVE NoDeadlock
<1> SUFFICES ASSUME NEW S \in (SUBSET Proc) \ {{}},
                    \A p \in S : \E l \in Wanted(p) : owner[l] \in S
             PROVE  FALSE
  BY DEF NoDeadlock
<1>0. \A p \in Proc : Wanted(p) \subseteq Lock
  BY DEF Wanted, Lock
<1>1. PICK p1 \in S : TRUE
  OBVIOUS
<1>2. PICK l1 \in Wanted(p1) : owner[l1] \in S
  OBVIOUS
<1>3. PICK l2 \in Wanted(owner[l1]) : owner[l2] \in S
  BY <1>2
<1>4. PICK l3 \in Wanted(owner[l2]) : owner[l3] \in S
  BY <1>3
<1>5. PICK l4 \in Wanted(owner[l3]) : owner[l4] \in S
  BY <1>4
<1>6. l1 \in Lock /\ l2 \in Lock /\ l3 \in Lock /\ l4 \in Lock
  BY <1>0, <1>1, <1>2, <1>3, <1>4, <1>5
<1>7. Rank[l1] < Rank[l2]
  BY <1>2, <1>3, <1>6, WaitsUpwards
<1>8. Rank[l2] < Rank[l3]
  BY <1>3, <1>4, <1>6, WaitsUpwards
<1>9. Rank[l3] < Rank[l4]
  BY <1>4, <1>5, <1>6, WaitsUpwards
<1>10. \A l \in Lock : Rank[l] \in 1 .. 3
  BY DEF Rank, Lock
<1> QED
  BY <1>6, <1>7, <1>8, <1>9, <1>10
-------------------------------------------------------------------------------
\* The invariant behind all of it.
LEMMA LocksInvariance == LocksSpec => []LocksInv
<1>1. LocksInit => LocksInv
  BY TypeInit, LocksAssumption DEF LocksInv, LocksInit, Ranked
<1>2. LocksInv /\ [LocksNext]_locksVars => LocksInv'
  BY TypeNext, RankedNext DEF LocksInv
<1> QED
  BY <1>1, <1>2, PTL DEF LocksSpec

\* Type correctness of the locks and of the progress of every context.
THEOREM LocksTypeCorrect == LocksSpec => []LocksTypeOK
<1>1. LocksInv => LocksTypeOK
  BY DEF LocksInv
<1> QED
  BY <1>1, LocksInvariance, PTL

\* mm_kmallocLock, paging_lock and physical_bitmapLock cannot deadlock, however
\* many contexts call mm.c, paging.c and physical.c, and in whatever order.
THEOREM DeadlockFree == LocksSpec => []NoDeadlock
  BY OrderIsSafe, LocksInvariance, PTL
===============================================================================
