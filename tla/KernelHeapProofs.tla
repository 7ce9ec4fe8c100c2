---------------------------- MODULE KernelHeapProofs ----------------------------
(***************************************************************************)
(* Proofs about the kernel heap, for every number of contexts, every page  *)
(* and header size and every set of sizes that fit in 32 bits.             *)
(***************************************************************************)
EXTENDS KernelHeap, FiniteSetTheorems, WellFoundedInduction, TLAPS

\* No size asked for is so large that rounding it up wraps around.
SizesFit == \A s \in Sizes : s + ALIGN + HDR <= Word

\* Only the owner of the lock is between mutex_lock and mutex_unlock.
Critical == {"search", "mallocked", "find", "coalesce", "freed"}
LockInv  == \A p \in Proc : pc[p] \in Critical <=> lock = p

\* Items lie in the mapped heap and end before the next one begins.
Layout ==
  /\ \A a \in DOMAIN hdr : Base <= a /\ a + HDR + hdr[a].size <= heapTop
  /\ \A a, b \in DOMAIN hdr : a < b => a + HDR + hdr[a].size <= b

\* The list is in address order and passes over no item in between.
Chained ==
  \A a \in DOMAIN hdr : hdr[a].next # NULL =>
    /\ hdr[a].next \in DOMAIN hdr
    /\ a < hdr[a].next
    /\ \A b \in DOMAIN hdr : b <= a \/ hdr[a].next <= b

\* The list begins at the bottom of the heap, and a walk is always at an item.
Walking ==
  /\ fault = "none" /\ heapTop # NULL => Base \in DOMAIN hdr
  /\ heapTop # NULL => Base <= heapTop
  /\ \A p \in Proc :
       /\ pc[p] \in {"search", "find", "coalesce"} =>
            cur[p] = NULL \/ cur[p] \in DOMAIN hdr
       /\ pc[p] = "mallocked" => cur[p] \in DOMAIN hdr
       /\ pc[p] \in {"malloc", "search", "mallocked"} => arg[p] \in Sizes

\* The items a context answers for: those of its blocks, and the one it is
\* giving back until it is found.
Items(p) ==
  {b.addr - HDR : b \in Held(p)} \union
  IF pc[p] \in {"free", "find"} THEN {arg[p] - HDR} ELSE {}

\* They are in use, as large as their blocks, and no two blocks share one.
Claims ==
  /\ \A p \in Proc : \A a \in Items(p) : a \in DOMAIN hdr /\ hdr[a].used
  /\ \A p \in Proc : \A b \in Held(p) : hdr[b.addr - HDR].size = b.size
  /\ \A p, q \in Proc : p # q => Items(p) \intersect Items(q) = {}
  /\ \A p \in Proc : pc[p] \in {"free", "find"} =>
       \A b \in live[p] : b.addr # arg[p]
  /\ \A p \in Proc : pc[p] = "mallocked" =>
       \A b \in live[p] : b.addr # cur[p] + HDR

Inv ==
  /\ SizesFit
  /\ TypeOK
  /\ LockInv
  /\ Layout
  /\ Chained
  /\ Walking
  /\ Claims

-------------------------------------------------------------------------------
(***************************************************************************)
(* Arithmetic.                                                             *)
(***************************************************************************)

\* Rounding up, in 32 bits or not, gives a natural number.
LEMMA TotalType ==
  ASSUME NEW s \in Nat
  PROVE  Total(s) \in Nat /\ NewPages(s) * PAGE \in Nat
<1> DEFINE x == (s + ALIGN - 1) % Word
<1>1. x \in Nat
  BY HeapAssumption
<1> HIDE DEF x
<1>2. x \div ALIGN \in Nat
  BY <1>1, HeapAssumption
<1>3. (x \div ALIGN) * ALIGN \in Nat
  BY <1>2, HeapAssumption
<1>4. Total(s) \in Nat
  BY <1>3, HeapAssumption DEF Total, RoundUp, x
<1>5. NewPages(s) \in Nat
  BY <1>4, HeapAssumption DEF NewPages
<1>6. QED
  BY <1>4, <1>5, HeapAssumption

\* A size that fits is rounded up, and its header added, without wrapping.
LEMMA TotalHolds ==
  ASSUME SizesFit, NEW s \in Sizes
  PROVE  s + HDR <= Total(s) /\ Total(s) > 0
<1>1. s \in Nat /\ ALIGN \in Nat \ {0} /\ HDR \in Nat \ {0} /\ Word \in Nat
      /\ s + ALIGN + HDR <= Word
  BY HeapAssumption DEF SizesFit
<1> DEFINE x == s + ALIGN - 1
           q == x \div ALIGN
<1>2. x % Word = x
  BY <1>1
<1>3. q \in Nat /\ q * ALIGN <= x /\ x < q * ALIGN + ALIGN
  BY <1>1
<1>4. q * ALIGN >= s /\ q * ALIGN + HDR < Word
  BY <1>1, <1>3
<1>5. q * ALIGN \in Nat
  BY <1>1, <1>3
<1> HIDE DEF q
<1>6. (q * ALIGN + HDR) % Word = q * ALIGN + HDR
  BY <1>1, <1>4, <1>5
<1>7. QED
  BY <1>1, <1>2, <1>4, <1>5, <1>6 DEF Total, RoundUp, q

-------------------------------------------------------------------------------
(***************************************************************************)
(* What cutting an item and merging two items do to the headers.           *)
(***************************************************************************)

\* Cutting item a makes it a used item of the size asked for, followed by a
\* free item, and touches no other header.
LEMMA CutHeaders ==
  ASSUME TypeOK, NEW a \in Nat \ {0}, NEW s \in Nat, NEW rest \in Nat,
         NEW next \in Nat, Total(s) > 0,
         hdr' = Cut(hdr, a, s, rest, next)
  PROVE  /\ DOMAIN hdr' = DOMAIN hdr \union {a, a + Total(s)}
         /\ hdr'[a] = [next |-> a + Total(s), size |-> s, used |-> TRUE]
         /\ hdr'[a + Total(s)] = [next |-> next, size |-> rest, used |-> FALSE]
         /\ \A b \in DOMAIN hdr \ {a, a + Total(s)} : hdr'[b] = hdr[b]
         /\ hdr' \in [DOMAIN hdr' -> Item]
         /\ DOMAIN hdr' \subseteq Nat \ {0}
<1> DEFINE t  == a + Total(s)
           tr == [next |-> next, size |-> rest, used |-> FALSE]
           ar == [next |-> t, size |-> s, used |-> TRUE]
           g  == Put(hdr, t, tr)
           h  == Put(g, a, ar)
<1>1. Total(s) \in Nat /\ t \in Nat \ {0} /\ t # a
  BY TotalType
<1>2. tr \in Item /\ ar \in Item
  BY <1>1 DEF Item
<1>3. h = hdr'
  BY DEF Cut
<1> HIDE DEF tr, ar, t
<1>4. /\ DOMAIN g = DOMAIN hdr \union {t}
      /\ g[t] = tr /\ \A b \in DOMAIN hdr \ {t} : g[b] = hdr[b]
  BY DEF Put
<1> HIDE DEF g
<1>5. /\ DOMAIN h = DOMAIN g \union {a}
      /\ h[a] = ar /\ \A b \in DOMAIN g \ {a} : h[b] = g[b]
      /\ h = [b \in DOMAIN h |-> h[b]]
  BY DEF Put
<1> HIDE DEF h
<1>6. /\ DOMAIN h = DOMAIN hdr \union {a, t}
      /\ h[a] = ar /\ h[t] = tr
      /\ \A b \in DOMAIN hdr \ {a, t} : h[b] = hdr[b]
  BY <1>1, <1>4, <1>5
<1>7. \A b \in DOMAIN hdr : hdr[b] \in Item
  BY DEF TypeOK
<1>8. \A b \in DOMAIN h : h[b] \in Item
  BY <1>2, <1>6, <1>7
<1>9. h \in [DOMAIN h -> Item] /\ DOMAIN h \subseteq Nat \ {0}
  BY <1>1, <1>5, <1>6, <1>8 DEF TypeOK
<1>10. QED
  BY <1>3, <1>6, <1>9 DEF tr, ar, t

\* Merging removes the second header and gives its room to the first.
LEMMA MergeHeaders ==
  ASSUME TypeOK, NEW a \in DOMAIN hdr, NEW n \in DOMAIN hdr, n # a,
         hdr' = Drop([hdr EXCEPT ![a] = Joined(a, n)], n)
  PROVE  /\ DOMAIN hdr' = DOMAIN hdr \ {n}
         /\ hdr'[a] = Joined(a, n)
         /\ \A b \in DOMAIN hdr \ {a, n} : hdr'[b] = hdr[b]
         /\ hdr' \in [DOMAIN hdr' -> Item]
<1>1. \A b \in DOMAIN hdr : hdr[b] \in Item
  BY DEF TypeOK
<1>2. Joined(a, n) \in Item
  BY <1>1, HeapAssumption DEF Item, Joined
<1>3. /\ DOMAIN hdr' = DOMAIN hdr \ {n}
      /\ hdr'[a] = Joined(a, n)
      /\ \A b \in DOMAIN hdr \ {a, n} : hdr'[b] = hdr[b]
      /\ hdr' = [b \in DOMAIN hdr' |-> hdr'[b]]
  BY DEF Drop, TypeOK
<1>4. \A b \in DOMAIN hdr' : hdr'[b] \in Item
  BY <1>1, <1>2, <1>3
<1>5. QED
  BY <1>3, <1>4

\* Setting one used flag to FALSE changes nothing else.
LEMMA FoundHeaders ==
  ASSUME TypeOK, NEW p \in Proc, Found(p), cur[p] \in DOMAIN hdr
  PROVE  /\ DOMAIN hdr' = DOMAIN hdr
         /\ \A b \in DOMAIN hdr : /\ hdr'[b].next = hdr[b].next
                                  /\ hdr'[b].size = hdr[b].size
                                  /\ b # cur[p] => hdr'[b] = hdr[b]
         /\ hdr' \in [DOMAIN hdr' -> Item]
<1>1. hdr[cur[p]] \in Item
  BY DEF TypeOK
<1>2. [next |-> hdr[cur[p]].next, size |-> hdr[cur[p]].size, used |-> FALSE]
        \in Item
  BY <1>1 DEF Item
<1>3. QED
  BY <1>2 DEF Found, TypeOK

-------------------------------------------------------------------------------
(***************************************************************************)
(* Steps that change no header.                                            *)
(***************************************************************************)

\* Steps that also leave the blocks of every context alone.
Quiet(p) ==
  \/ \E s \in Sizes : CallMalloc(p, s)
  \/ LockMalloc(p) \/ Search(p)
  \/ MoreCore(p) /\ ~ Grow(p)
  \/ LockFree(p) \/ Find(p) \/ NotFound(p)
  \/ Advance(p) \/ Coalesced(p) \/ UnlockFree(p)

\* Steps that change the lock and the program counters only.
LEMMA QuietType ==
  ASSUME Inv, NEW p \in Proc, Quiet(p)
  PROVE  TypeOK' /\ LockInv' /\ hdr' = hdr /\ live' = live
<1> USE DEF Inv, TypeOK, LockInv, Critical, At, GoTo, Look, Acquire
<1>1. NoProc \notin Proc /\ Base \in Nat /\ Sizes \subseteq Nat
  BY HeapAssumption
<1>2. cur[p] \in DOMAIN hdr => hdr[cur[p]].next \in Nat
  BY DEF Item
<1>3. pc[p] \in {"search", "find", "coalesce"} =>
        cur[p] = NULL \/ cur[p] \in DOMAIN hdr
  BY DEF Walking
<1>4. ASSUME NEW s \in Sizes, CallMalloc(p, s)
      PROVE  TypeOK' /\ LockInv' /\ hdr' = hdr /\ live' = live
  BY <1>1, <1>4 DEF CallMalloc
<1>5. CASE LockMalloc(p)
  BY <1>1, <1>5 DEF LockMalloc, NULL
<1>6. CASE Search(p)
  BY <1>2, <1>3, <1>6 DEF Search
<1>7. CASE MoreCore(p) /\ ~ Grow(p)
  <2>1. arg[p] \in Nat /\ PrevTop \in Nat
    BY <1>1 DEF PrevTop
  <2>2. PrevTop + NewPages(arg[p]) * PAGE \in Nat
    BY <2>1, TotalType
  <2>3. QED
    BY <1>7, <2>2 DEF MoreCore, NoMemory, Overrun
<1>8. CASE LockFree(p)
  BY <1>1, <1>8 DEF LockFree
<1>9. CASE Find(p)
  BY <1>2, <1>3, <1>9 DEF Find
<1>10. CASE NotFound(p) \/ Coalesced(p)
  BY <1>10 DEF NotFound, Coalesced
<1>11. CASE Advance(p)
  BY <1>2, <1>3, <1>11 DEF Advance
<1>12. CASE UnlockFree(p)
  BY <1>1, <1>12 DEF UnlockFree
<1>13. QED
  BY <1>4, <1>5, <1>6, <1>7, <1>8, <1>9, <1>10, <1>11, <1>12 DEF Quiet

\* The layout is that of the headers, and the heap only grows.
LEMMA LayoutKept ==
  ASSUME Inv, hdr' = hdr, heapTop <= heapTop', heapTop' \in Nat
  PROVE  Layout' /\ Chained'
<1>1. \A a \in DOMAIN hdr : a \in Nat /\ hdr[a].size \in Nat
  BY DEF Inv, TypeOK, Item
<1>2. QED
  BY <1>1, HeapAssumption DEF Inv, TypeOK, Layout, Chained

\* The walk is at the same item after such a step.
LEMMA QuietWalk ==
  ASSUME Inv, NEW p \in Proc, Quiet(p)
  PROVE  Layout' /\ Chained' /\ Walking'
<1> USE DEF Inv, TypeOK, At, GoTo, Look, Acquire
<1>1. hdr' = hdr
  BY QuietType
<1>2. heapTop \in Nat /\ Base \in Nat \ {0} /\ Sizes \subseteq Nat
  BY HeapAssumption
<1>3. \A a \in DOMAIN hdr : hdr[a].next = NULL \/ hdr[a].next \in DOMAIN hdr
  BY DEF Chained
<1>4. CASE MoreCore(p) /\ ~ Grow(p)
  <2>1. /\ heapTop' = heapTop
           \/ heapTop' = PrevTop + NewPages(arg[p]) * PAGE
        /\ fault' # "none" /\ pc' = pc /\ cur' = cur /\ arg' = arg
    BY <1>4 DEF MoreCore, NoMemory, Overrun
  <2>2. NewPages(arg[p]) * PAGE \in Nat
    BY TotalType
  <2>3. heapTop # NULL => Base <= heapTop
    BY DEF Walking
  <2>4. /\ heapTop' \in Nat /\ heapTop <= heapTop'
        /\ heapTop' # NULL => Base <= heapTop'
    BY <1>2, <2>1, <2>2, <2>3 DEF PrevTop, NULL
  <2>5. Walking'
    BY <1>1, <2>1, <2>4 DEF Walking
  <2>6. QED
    BY <1>1, <2>4, <2>5, LayoutKept
<1>5. CASE ~ (MoreCore(p) /\ ~ Grow(p))
  <2>1. heapTop' = heapTop /\ fault' = fault /\ fault = "none"
    BY <1>5
    DEF Quiet, CallMalloc, LockMalloc, Search, LockFree, Find, NotFound, Advance,
        Coalesced, UnlockFree
  <2>2. Layout' /\ Chained'
    BY <1>1, <1>2, <2>1, LayoutKept
  <2>3. pc[p] = "free" => Base \in DOMAIN hdr
    <3>1. pc[p] = "free" => arg[p] - HDR \in DOMAIN hdr
      BY DEF Claims, Items
    <3>2. \A a \in DOMAIN hdr : a \in Nat \ {0} /\ hdr[a].size \in Nat
      BY DEF Item
    <3>3. pc[p] = "free" => heapTop # NULL
      BY <3>1, <3>2, HeapAssumption DEF Layout, NULL
    <3>4. QED
      BY <2>1, <3>3 DEF Walking
  <2>4. \A q \in Proc \ {p} :
          pc'[q] = pc[q] /\ cur'[q] = cur[q] /\ arg'[q] = arg[q]
    BY <1>5
    DEF Quiet, CallMalloc, LockMalloc, Search, LockFree, Find, NotFound, Advance,
        Coalesced, UnlockFree
  <2>5. \/ cur'[p] = cur[p] \/ cur'[p] = NULL
        \/ cur[p] # NULL /\ cur'[p] = hdr[cur[p]].next
             /\ pc[p] \in {"search", "find", "coalesce"}
        \/ cur'[p] = Base /\ pc[p] = "malloc" /\ heapTop # NULL
        \/ cur'[p] = Base /\ pc[p] = "free"
    BY <1>5
    DEF Quiet, CallMalloc, LockMalloc, Search, LockFree, Find, NotFound, Advance,
        Coalesced, UnlockFree
  <2>6. /\ pc'[p] # "mallocked"
        /\ pc'[p] \in {"malloc", "search"} =>
             \/ arg'[p] \in Sizes
             \/ arg'[p] = arg[p] /\ pc[p] \in {"malloc", "search"}
        /\ pc'[p] \in {"search", "find", "coalesce"} =>
             \/ pc[p] = "malloc" /\ cur'[p] = NULL
             \/ pc[p] = "malloc" /\ cur'[p] = Base /\ heapTop # NULL
             \/ pc[p] = "free" /\ cur'[p] = Base
             \/ pc[p] \in {"search", "find", "coalesce"}
    BY <1>5
    DEF Quiet, CallMalloc, LockMalloc, Search, LockFree, Find, NotFound, Advance,
        Coalesced, UnlockFree
  <2>7. pc'[p] \in {"search", "find", "coalesce"} =>
          cur'[p] = NULL \/ cur'[p] \in DOMAIN hdr
    BY <1>3, <2>1, <2>3, <2>5, <2>6 DEF Walking
  <2>8. pc'[p] \in {"malloc", "search", "mallocked"} => arg'[p] \in Sizes
    BY <2>6 DEF Walking
  <2>b. Walking'
    BY <1>1, <2>1, <2>4, <2>6, <2>7, <2>8 DEF Walking
  <2>10. QED
    BY <2>2, <2>b
<1>6. QED
  BY <1>4, <1>5

\* The blocks are the same after such a step.
LEMMA QuietClaims ==
  ASSUME Inv, NEW p \in Proc, Quiet(p)
  PROVE  Claims'
<1> USE DEF Inv, TypeOK, At, GoTo, Look, Acquire
<1>1. hdr' = hdr /\ live' = live
  BY QuietType
<1>2. /\ pc[p] # "mallocked" /\ pc'[p] # "mallocked"
      /\ pc'[p] \in {"free", "find"} =>
           pc[p] \in {"free", "find"} /\ arg'[p] = arg[p]
      /\ \A q \in Proc \ {p} : pc'[q] = pc[q] /\ arg'[q] = arg[q]
                               /\ cur'[q] = cur[q]
  BY DEF Quiet, CallMalloc, LockMalloc, Search, MoreCore, NoMemory, Overrun,
         LockFree, Find, NotFound, Advance, Coalesced, UnlockFree
<1>3. \A q \in Proc : Held(q)' = Held(q)
  BY <1>1, <1>2 DEF Held
<1>4. \A q \in Proc : Items(q)' \subseteq Items(q)
  BY <1>2, <1>3 DEF Items
<1>5. QED
  BY <1>1, <1>2, <1>3, <1>4 DEF Claims

-------------------------------------------------------------------------------
(***************************************************************************)
(* Steps that pass a block from or to its caller.                          *)
(***************************************************************************)

\* mm_kmalloc returns: the block it has cut becomes the caller's.
LEMMA UnlockMallocStep ==
  ASSUME Inv, NEW p \in Proc, UnlockMalloc(p)
  PROVE  Inv'
<1> USE DEF Inv, TypeOK, At, GoTo, Look, UnlockMalloc
<1>1. NoProc \notin Proc /\ HDR \in Nat
  BY HeapAssumption
<1> DEFINE b == [addr |-> cur[p] + HDR, size |-> arg[p]]
<1>2. b \in Block
  BY <1>1 DEF Block
<1>3. TypeOK' /\ LockInv'
  <2>1. live'[p] = live[p] \union {b} /\ live'[p] \in SUBSET Block
    BY <1>2
  <2>2. live' \in [Proc -> SUBSET Block]
    BY <2>1
  <2>3. TypeOK'
    BY <2>2 DEF NULL
  <2>4. LockInv'
    BY <1>1 DEF LockInv, Critical
  <2>5. QED
    BY <2>3, <2>4
<1>4. Layout' /\ Chained'
  BY LayoutKept
<1>5. Walking'
  BY DEF Walking
<1>6. /\ \A q \in Proc : Held(q)' = Held(q)
      /\ \A q \in Proc \ {p} : live'[q] = live[q] /\ pc'[q] = pc[q]
                               /\ arg'[q] = arg[q] /\ cur'[q] = cur[q]
  BY DEF Held
<1>7. \A q \in Proc : Items(q)' = Items(q)
  BY <1>6 DEF Items
<1>8. Claims'
  BY <1>6, <1>7 DEF Claims
<1>9. QED
  BY <1>3, <1>4, <1>5, <1>8

\* mm_kfree is called: the caller gives up the block, its item is still in use.
LEMMA CallFreeStep ==
  ASSUME Inv, NEW p \in Proc, NEW b \in live[p], CallFree(p, b)
  PROVE  Inv'
<1> USE DEF Inv, TypeOK, At, GoTo, CallFree
<1>1. b \in Block /\ \A c \in live[p] : c \in Block
  OBVIOUS
<1>2. TypeOK' /\ LockInv'
  BY <1>1 DEF LockInv, Critical, Block
<1>3. Layout' /\ Chained'
  BY LayoutKept
<1>4. Walking'
  BY DEF Walking
<1>5. /\ \A q \in Proc \ {p} : /\ Held(q)' = Held(q)
                               /\ live'[q] = live[q] /\ pc'[q] = pc[q]
                               /\ arg'[q] = arg[q] /\ cur'[q] = cur[q]
      /\ Held(p) = live[p] /\ Held(p)' = live[p] \ {b}
      /\ pc[p] = "idle" /\ pc'[p] = "free" /\ arg'[p] = b.addr
      /\ live'[p] = live[p] \ {b}
  BY DEF Held
<1>6. \A q \in Proc : Items(q)' \subseteq Items(q)
  BY <1>5 DEF Items
<1>7. \A c \in live[p] \ {b} : c.addr # b.addr
  <2> SUFFICES ASSUME NEW c \in live[p] \ {b}, c.addr = b.addr PROVE FALSE
    OBVIOUS
  <2>1. c.size = b.size
    BY <1>5 DEF Claims
  <2>2. c = b
    BY <1>1, <2>1 DEF Block
  <2>3. QED
    BY <2>2
<1>8. Claims'
  BY <1>5, <1>6, <1>7 DEF Claims
<1>9. QED
  BY <1>2, <1>3, <1>4, <1>8

-------------------------------------------------------------------------------
(***************************************************************************)
(* Steps that change headers.                                              *)
(***************************************************************************)

\* Where there is an item there is a heap.
LEMMA HeapExists ==
  ASSUME Inv, NEW a \in DOMAIN hdr
  PROVE  /\ heapTop # NULL
         /\ a \in Nat \ {0} /\ hdr[a] \in Item
         /\ hdr[a].size \in Nat /\ hdr[a].next \in Nat
         /\ hdr[a].used \in BOOLEAN
<1>1. a \in Nat \ {0} /\ hdr[a] \in Item
  BY DEF Inv, TypeOK
<1>2. hdr[a].size \in Nat /\ hdr[a].next \in Nat /\ hdr[a].used \in BOOLEAN
  BY <1>1 DEF Item
<1>3. a + HDR + hdr[a].size <= heapTop /\ heapTop \in Nat
  BY DEF Inv, Layout, TypeOK
<1>4. QED
  BY <1>1, <1>2, <1>3, HeapAssumption DEF NULL

\* A step that keeps the headers of all claimed items, and lets no context
\* claim more, keeps the claims.
LEMMA ClaimsKept ==
  ASSUME Inv, NEW p \in Proc,
         \A q \in Proc : Held(q)' = Held(q) /\ Items(q)' \subseteq Items(q),
         \A q \in Proc : \A a \in Items(q)' :
            a \in DOMAIN hdr' /\ hdr'[a] = hdr[a],
         live' = live,
         \A q \in Proc : pc'[q] # "mallocked",
         \A q \in Proc : pc'[q] \in {"free", "find"} =>
            pc[q] \in {"free", "find"} /\ arg'[q] = arg[q]
  PROVE  Claims'
<1>1. /\ \A q \in Proc : \A a \in Items(q)' : hdr'[a].used
      /\ \A q, r \in Proc : q # r => Items(q)' \intersect Items(r)' = {}
  BY DEF Inv, Claims
<1>2. \A q \in Proc : \A b \in Held(q)' : hdr'[b.addr - HDR].size = b.size
  <2> SUFFICES ASSUME NEW q \in Proc, NEW b \in Held(q)'
               PROVE  hdr'[b.addr - HDR].size = b.size
    OBVIOUS
  <2>1. b.addr - HDR \in Items(q)'
    BY DEF Items
  <2>2. hdr[b.addr - HDR].size = b.size
    BY DEF Inv, Claims
  <2>3. QED
    BY <2>1, <2>2
<1>3. QED
  BY <1>1, <1>2 DEF Inv, Claims

\* mm_kfree finds the item: it is nobody's any more, and is marked free.
LEMMA FoundStep ==
  ASSUME Inv, NEW p \in Proc, Found(p)
  PROVE  Inv'
<1> USE DEF At, GoTo, Look
<1> DEFINE c == cur[p]
<1>1. /\ c = arg[p] - HDR /\ pc[p] = "find" /\ fault = "none"
      /\ pc' = [pc EXCEPT ![p] = "coalesce"]
      /\ cur' = [cur EXCEPT ![p] = Base]
      /\ UNCHANGED <<heapTop, lock, arg, live, fault>>
  BY DEF Found
<1>2. TypeOK /\ c \in Items(p)
  BY <1>1 DEF Inv, Items
<1>3. c \in DOMAIN hdr
  BY <1>2 DEF Inv, Claims
<1>4. /\ DOMAIN hdr' = DOMAIN hdr
      /\ \A b \in DOMAIN hdr : /\ hdr'[b].next = hdr[b].next
                               /\ hdr'[b].size = hdr[b].size
                               /\ b # c => hdr'[b] = hdr[b]
      /\ hdr' \in [DOMAIN hdr' -> Item]
  BY <1>2, <1>3, FoundHeaders
<1>5. TypeOK' /\ LockInv'
  BY <1>1, <1>4, HeapAssumption DEF Inv, TypeOK, LockInv, Critical
<1>6. Layout' /\ Chained'
  BY <1>1, <1>4 DEF Inv, Layout, Chained
<1>7. Base \in DOMAIN hdr
  BY <1>1, <1>3, HeapExists DEF Inv, Walking
<1>8. Walking'
  BY <1>1, <1>4, <1>7 DEF Inv, Walking, TypeOK
<1>9. Claims'
  <2>1. \A q \in Proc : Held(q)' = Held(q)
    BY <1>1 DEF Held, Inv, TypeOK
  <2>2. \A q \in Proc : Items(q)' \subseteq Items(q)
    BY <1>1, <2>1 DEF Items, Inv, TypeOK
  <2>3. \A b \in live[p] : b.addr - HDR # c
    <3> SUFFICES ASSUME NEW b \in live[p] PROVE b.addr - HDR # c
      OBVIOUS
    <3>1. b.addr # arg[p] /\ b.addr \in Nat /\ arg[p] \in Nat
      BY <1>1 DEF Inv, Claims, TypeOK, Block
    <3>2. QED
      BY <1>1, <3>1, HeapAssumption
  <2>4. \A q \in Proc : c \notin Items(q)'
    <3>1. c \notin Items(p)'
      BY <1>1, <2>1, <2>3 DEF Items, Held, Inv, TypeOK
    <3>2. \A q \in Proc \ {p} : c \notin Items(q)
      BY <1>2 DEF Inv, Claims
    <3>3. QED
      BY <2>2, <3>1, <3>2
  <2>5. \A q \in Proc : \A a \in Items(q)' : a \in DOMAIN hdr' /\ hdr'[a] = hdr[a]
    BY <1>4, <2>2, <2>4 DEF Inv, Claims
  <2>6. \A q \in Proc : pc'[q] # "mallocked"
    <3>1. \A q \in Proc \ {p} : pc[q] \notin Critical
      BY <1>1 DEF Inv, LockInv, Critical
    <3>2. QED
      BY <1>1, <3>1 DEF Inv, TypeOK, Critical
  <2>7. \A q \in Proc : pc'[q] \in {"free", "find"} =>
          pc[q] \in {"free", "find"} /\ arg'[q] = arg[q]
    BY <1>1 DEF Inv, TypeOK
  <2>8. QED
    BY <1>1, <2>1, <2>2, <2>5, <2>6, <2>7, ClaimsKept
<1>10. QED
  BY <1>5, <1>6, <1>8, <1>9 DEF Inv

\* mm_kfree merges a free item with the free one behind it: the room of both
\* is now the first one's, and nobody's block was in it.
LEMMA MergeStep ==
  ASSUME Inv, NEW p \in Proc, Merge(p)
  PROVE  Inv'
<1> DEFINE a == cur[p]
           n == hdr[a].next
<1>1. /\ pc[p] = "coalesce" /\ fault = "none"
      /\ a # NULL /\ n # NULL /\ ~ hdr[a].used /\ ~ hdr[n].used
      /\ hdr' = Drop([hdr EXCEPT ![a] = Joined(a, n)], n)
      /\ UNCHANGED <<heapTop, lock, pc, arg, cur, live, fault>>
  BY DEF Merge, At, CanMerge, Free
<1>2. TypeOK /\ a \in DOMAIN hdr
  BY <1>1 DEF Inv, Walking
<1>3. /\ n \in DOMAIN hdr /\ a < n
      /\ \A b \in DOMAIN hdr : b <= a \/ n <= b
  BY <1>1, <1>2 DEF Inv, Chained
<1>4. \A b \in DOMAIN hdr : /\ b \in Nat \ {0} /\ hdr[b].size \in Nat
                            /\ hdr[b].next \in Nat
  BY HeapExists
<1> HIDE DEF a, n
<1>5. /\ DOMAIN hdr' = DOMAIN hdr \ {n}
      /\ hdr'[a] = Joined(a, n)
      /\ \A b \in DOMAIN hdr \ {a, n} : hdr'[b] = hdr[b]
      /\ hdr' \in [DOMAIN hdr' -> Item]
  <2>1. n # a
    BY <1>2, <1>3, <1>4
  <2>2. hdr' = Drop([hdr EXCEPT ![a] = Joined(a, n)], n)
    BY <1>1
  <2>3. QED
    BY <1>2, <1>3, <2>1, <2>2, MergeHeaders
<1>6. /\ hdr'[a].next = hdr[n].next
      /\ hdr'[a].size = hdr[a].size + HDR + hdr[n].size
  BY <1>5 DEF Joined
<1>7. TypeOK' /\ LockInv'
  BY <1>1, <1>2, <1>5 DEF Inv, TypeOK, LockInv
<1>8. Layout'
  <2>1. a + HDR + hdr[a].size <= n /\ n + HDR + hdr[n].size <= heapTop
        /\ heapTop \in Nat /\ HDR \in Nat
    BY <1>2, <1>3, HeapAssumption DEF Inv, Layout, TypeOK
  <2>2. \A b \in DOMAIN hdr' : Base <= b /\ b + HDR + hdr'[b].size <= heapTop
    BY <1>2, <1>3, <1>4, <1>5, <1>6, <2>1, HeapAssumption DEF Inv, Layout
  <2>3. ASSUME NEW b \in DOMAIN hdr', NEW c \in DOMAIN hdr', b < c
        PROVE  b + HDR + hdr'[b].size <= c
    <3>1. b \in DOMAIN hdr \ {n} /\ c \in DOMAIN hdr \ {n}
      BY <1>5
    <3>2. CASE b = a
      <4>1. n < c
        BY <1>3, <1>4, <2>3, <3>1, <3>2
      <4>2. n + HDR + hdr[n].size <= c
        BY <1>3, <3>1, <4>1 DEF Inv, Layout
      <4>3. QED
        BY <1>2, <1>3, <1>4, <1>6, <2>1, <3>1, <3>2, <4>2
    <3>3. CASE b # a
      BY <1>5, <2>3, <3>1, <3>3 DEF Inv, Layout
    <3>4. QED
      BY <3>2, <3>3
  <2>4. QED
    BY <1>1, <2>2, <2>3 DEF Layout
<1>9. Chained'
  <2>1. ASSUME NEW b \in DOMAIN hdr', hdr'[b].next # NULL
        PROVE  /\ hdr'[b].next \in DOMAIN hdr'
               /\ b < hdr'[b].next
               /\ \A c \in DOMAIN hdr' : c <= b \/ hdr'[b].next <= c
    <3>1. b \in DOMAIN hdr \ {n}
      BY <1>5
    <3>2. CASE b = a
      <4>1. /\ hdr[n].next \in DOMAIN hdr /\ n < hdr[n].next
            /\ \A c \in DOMAIN hdr : c <= n \/ hdr[n].next <= c
        BY <1>3, <1>6, <2>1, <3>2 DEF Inv, Chained
      <4>2. \A c \in DOMAIN hdr' : c <= a \/ hdr[n].next <= c
        BY <1>2, <1>3, <1>4, <1>5, <4>1
      <4>3. QED
        BY <1>2, <1>3, <1>4, <1>5, <1>6, <3>2, <4>1, <4>2
    <3>3. CASE b # a
      <4>1. hdr'[b] = hdr[b]
        BY <1>5, <3>1, <3>3
      <4>2. /\ hdr[b].next \in DOMAIN hdr /\ b < hdr[b].next
            /\ \A c \in DOMAIN hdr : c <= b \/ hdr[b].next <= c
        BY <2>1, <3>1, <4>1 DEF Inv, Chained
      <4>3. hdr[b].next # n
        BY <1>2, <1>3, <1>4, <3>1, <3>3, <4>2
      <4>4. QED
        BY <1>5, <4>1, <4>2, <4>3
    <3>4. QED
      BY <3>2, <3>3
  <2>2. QED
    BY <2>1 DEF Chained
<1>10. Walking'
  <2>1. Base # n
    BY <1>2, <1>3, <1>4, HeapAssumption DEF Inv, Layout
  <2>2. \A q \in Proc \ {p} : pc[q] \notin Critical
    BY <1>1 DEF Inv, LockInv, Critical
  <2>3. a # n
    BY <1>2, <1>3, <1>4
  <2>4. QED
    BY <1>1, <1>2, <1>5, <2>1, <2>2, <2>3 DEF Inv, Walking, Critical, a
<1>11. Claims'
  <2>1. \A q \in Proc : Held(q)' = Held(q)
    BY <1>1 DEF Held
  <2>2. \A q \in Proc : Items(q)' = Items(q)
    BY <1>1, <2>1 DEF Items
  <2>3. \A q \in Proc : a \notin Items(q) /\ n \notin Items(q)
    BY <1>1 DEF Inv, Claims, a, n
  <2>4. \A q \in Proc : \A b \in Items(q)' : b \in DOMAIN hdr' /\ hdr'[b] = hdr[b]
    BY <1>5, <2>2, <2>3 DEF Inv, Claims
  <2>5. \A q \in Proc : pc'[q] # "mallocked"
    BY <1>1 DEF Inv, LockInv, Critical
  <2>6. QED
    BY <1>1, <2>1, <2>2, <2>4, <2>5, ClaimsKept
<1>12. QED
  BY <1>7, <1>8, <1>9, <1>10, <1>11 DEF Inv

\* What mm_kmalloc writes when it has found room at a, in a free item or in new
\* pages: room that reaches to the end of the free item behind the block, that
\* no other item is in and that no link passes over.
LEMMA CutStep ==
  ASSUME Inv, NEW p \in Proc, NEW a \in Nat \ {0}, NEW rest \in Nat,
         NEW next \in Nat,
         pc[p] = "search", fault = "none",
         pc' = [pc EXCEPT ![p] = "mallocked"],
         cur' = [cur EXCEPT ![p] = a],
         UNCHANGED <<lock, arg, live, fault>>,
         hdr' = Cut(hdr, a, arg[p], rest, next),
         a \in DOMAIN hdr => ~ hdr[a].used,
         heapTop' \in Nat, heapTop <= heapTop', Base <= a,
         a + Total(arg[p]) + HDR + rest <= heapTop',
         \A b \in DOMAIN hdr : b < a => b + HDR + hdr[b].size <= a,
         \A b \in DOMAIN hdr : a < b => a + Total(arg[p]) + HDR + rest <= b,
         next # NULL => /\ next \in DOMAIN hdr /\ a < next
                        /\ \A b \in DOMAIN hdr : b <= a \/ next <= b,
         \A b \in DOMAIN hdr : hdr[b].next # NULL => a <= b \/ hdr[b].next <= a,
         Base \in DOMAIN hdr \union {a}
  PROVE  Inv'
<1> DEFINE t == a + Total(arg[p])
           s == arg[p]
<1>1. /\ TypeOK /\ s \in Sizes /\ s \in Nat
      /\ HDR \in Nat \ {0} /\ Base \in Nat \ {0}
  BY HeapAssumption DEF Inv, Walking
<1>2. /\ Total(s) \in Nat /\ s + HDR <= Total(s)
      /\ t \in Nat /\ a + HDR + s <= t
  BY <1>1, TotalType, TotalHolds DEF Inv
<1>3. \A b \in DOMAIN hdr : /\ b \in Nat \ {0} /\ hdr[b].size \in Nat
                            /\ hdr[b].next \in Nat
  BY HeapExists
<1>4. /\ DOMAIN hdr' = DOMAIN hdr \union {a, t}
      /\ hdr'[a].next = t /\ hdr'[a].size = s /\ hdr'[a].used
      /\ hdr'[t].next = next /\ hdr'[t].size = rest
      /\ \A b \in DOMAIN hdr \ {a, t} : hdr'[b] = hdr[b]
      /\ hdr' \in [DOMAIN hdr' -> Item]
      /\ DOMAIN hdr' \subseteq Nat \ {0}
  <2>1. Total(s) > 0
    BY <1>1, TotalHolds DEF Inv
  <2>2. hdr' = Cut(hdr, a, s, rest, next)
    OBVIOUS
  <2> HIDE DEF s
  <2>3. /\ DOMAIN hdr' = DOMAIN hdr \union {a, a + Total(s)}
        /\ hdr'[a] = [next |-> a + Total(s), size |-> s, used |-> TRUE]
        /\ hdr'[a + Total(s)] = [next |-> next, size |-> rest, used |-> FALSE]
        /\ \A b \in DOMAIN hdr \ {a, a + Total(s)} : hdr'[b] = hdr[b]
        /\ hdr' \in [DOMAIN hdr' -> Item]
        /\ DOMAIN hdr' \subseteq Nat \ {0}
    BY <1>1, <2>1, <2>2, CutHeaders
  <2>4. t = a + Total(s)
    BY DEF s
  <2> HIDE DEF t
  <2>5. QED
    BY <2>3, <2>4
<1>5. t \notin DOMAIN hdr /\ a < t
  BY <1>1, <1>2, <1>3
<1> HIDE DEF t, s
<1>6. t + HDR + rest <= heapTop'
      /\ \A b \in DOMAIN hdr : a < b => t + HDR + rest <= b
  BY DEF t
<1>7. TypeOK' /\ LockInv'
  BY <1>4, <1>1 DEF Inv, TypeOK, LockInv, Critical
<1>8. Layout'
  <2>1. \A b \in DOMAIN hdr' : Base <= b /\ b + HDR + hdr'[b].size <= heapTop'
    <3> SUFFICES ASSUME NEW b \in DOMAIN hdr'
                 PROVE  Base <= b /\ b + HDR + hdr'[b].size <= heapTop'
      OBVIOUS
    <3>1. CASE b = a
      BY <1>1, <1>2, <1>4, <1>6, <3>1
    <3>2. CASE b = t
      BY <1>1, <1>2, <1>4, <1>5, <1>6, <3>2
    <3>3. CASE b \in DOMAIN hdr \ {a, t}
      BY <1>1, <1>3, <1>4, <3>3 DEF Inv, Layout, TypeOK
    <3>4. QED
      BY <1>4, <3>1, <3>2, <3>3
  <2>2. ASSUME NEW b \in DOMAIN hdr', NEW c \in DOMAIN hdr', b < c
        PROVE  b + HDR + hdr'[b].size <= c
    <3>1. CASE b = a
      BY <1>1, <1>2, <1>3, <1>4, <1>5, <1>6, <2>2, <3>1
    <3>2. CASE b = t
      BY <1>1, <1>2, <1>3, <1>4, <1>5, <1>6, <2>2, <3>2
    <3>3. CASE b \in DOMAIN hdr \ {a, t}
      <4>1. hdr'[b] = hdr[b] /\ hdr[b].size \in Nat /\ b \in Nat
        BY <1>3, <1>4, <3>3
      <4>2. CASE c \in DOMAIN hdr
        BY <2>2, <3>3, <4>1, <4>2 DEF Inv, Layout
      <4>3. CASE c = a
        BY <2>2, <3>3, <4>1, <4>3
      <4>4. CASE c = t
        <5>1. b < a
          BY <1>1, <1>2, <1>5, <1>6, <2>2, <3>3, <4>1, <4>4
        <5>2. b + HDR + hdr[b].size <= a
          BY <3>3, <5>1
        <5>3. QED
          BY <1>1, <1>2, <1>5, <4>1, <4>4, <5>2
      <4>5. QED
        BY <1>4, <4>2, <4>3, <4>4
    <3>4. QED
      BY <1>4, <3>1, <3>2, <3>3
  <2>3. QED
    BY <2>1, <2>2 DEF Layout
<1>9. Chained'
  <2>1. ASSUME NEW b \in DOMAIN hdr', hdr'[b].next # NULL
        PROVE  /\ hdr'[b].next \in DOMAIN hdr'
               /\ b < hdr'[b].next
               /\ \A c \in DOMAIN hdr' : c <= b \/ hdr'[b].next <= c
    <3>1. CASE b = a
      <4>1. \A c \in DOMAIN hdr : c <= a \/ t <= c
        BY <1>1, <1>2, <1>3, <1>6
      <4>2. QED
        BY <1>2, <1>4, <1>5, <3>1, <4>1
    <3>2. CASE b = t
      <4>1. /\ next \in DOMAIN hdr /\ a < next
            /\ \A c \in DOMAIN hdr : c <= a \/ next <= c
        BY <1>4, <2>1, <3>2
      <4>2. t < next
        BY <1>1, <1>2, <1>3, <1>6, <4>1
      <4>3. QED
        BY <1>2, <1>3, <1>4, <1>5, <3>2, <4>1, <4>2
    <3>3. CASE b \in DOMAIN hdr \ {a, t}
      <4>1. hdr'[b] = hdr[b]
        BY <1>4, <3>3
      <4>2. /\ hdr[b].next \in DOMAIN hdr /\ b < hdr[b].next
            /\ \A c \in DOMAIN hdr : c <= b \/ hdr[b].next <= c
            /\ a <= b \/ hdr[b].next <= a
        BY <2>1, <3>3, <4>1 DEF Inv, Chained
      <4>3. a < b => t < b
        BY <1>1, <1>2, <1>3, <1>6, <3>3
      <4>4. t <= b \/ hdr[b].next <= t
        BY <1>2, <1>3, <1>5, <3>3, <4>2, <4>3
      <4>5. QED
        BY <1>4, <4>1, <4>2, <4>4
    <3>4. QED
      BY <1>4, <3>1, <3>2, <3>3
  <2>2. QED
    BY <2>1 DEF Chained
<1>10. \A q \in Proc \ {p} : pc[q] \notin Critical
  BY DEF Inv, LockInv, Critical
<1>11. /\ pc'[p] = "mallocked" /\ cur'[p] = a
       /\ \A q \in Proc \ {p} : pc'[q] = pc[q] /\ cur'[q] = cur[q]
       /\ arg' = arg /\ live' = live /\ fault' = fault
  BY <1>1 DEF TypeOK
<1>12. Walking'
  <2>1. Base <= heapTop' /\ Base \in DOMAIN hdr'
    BY <1>1, <1>2, <1>4, <1>5, <1>6
  <2>2. QED
    BY <1>1, <1>4, <1>10, <1>11, <2>1 DEF Inv, Walking, Critical, s
<1>13. Claims'
  <2>1. /\ \A q \in Proc \ {p} : Held(q)' = Held(q)
        /\ Held(p) = live[p]
        /\ Held(p)' = live[p] \union {[addr |-> a + HDR, size |-> s]}
    BY <1>10, <1>11 DEF Held, s, Critical
  <2>2. /\ \A q \in Proc \ {p} : Items(q)' = Items(q)
        /\ Items(p)' = Items(p) \union {a}
    <3>1. \A q \in Proc \ {p} : Items(q)' = Items(q)
      BY <1>11, <2>1 DEF Items
    <3>2. Items(p) = {b.addr - HDR : b \in live[p]}
      BY <2>1 DEF Items
    <3>3. Items(p)' = {b.addr - HDR :
                         b \in live[p] \union {[addr |-> a + HDR, size |-> s]}}
      BY <1>11, <2>1 DEF Items
    <3> DEFINE x == [addr |-> a + HDR, size |-> s]
    <3>4. x.addr - HDR = a
      BY <1>1
    <3> HIDE DEF x
    <3>5. {b.addr - HDR : b \in live[p] \union {x}} =
            {b.addr - HDR : b \in live[p]} \union {a}
      BY <3>4
    <3>6. QED
      BY <3>1, <3>2, <3>3, <3>5 DEF x
  <2>3. \A q \in Proc : /\ a \notin Items(q) /\ t \notin Items(q)
                        /\ \A b \in Items(q) : b \in DOMAIN hdr
    BY <1>5 DEF Inv, Claims
  <2>4. \A q \in Proc : \A b \in Items(q) : hdr'[b] = hdr[b]
    BY <1>4, <2>3
  <2>5. \A q \in Proc : \A b \in Items(q)' : b \in DOMAIN hdr' /\ hdr'[b].used
    BY <1>4, <2>2, <2>3, <2>4 DEF Inv, Claims
  <2>6. \A q \in Proc : \A b \in Held(q) :
          b.addr - HDR \in Items(q) /\ hdr[b.addr - HDR].size = b.size
    BY DEF Items, Inv, Claims
  <2>7. \A q \in Proc : \A b \in Held(q)' : hdr'[b.addr - HDR].size = b.size
    <3>1. \A q \in Proc : \A b \in Held(q) : hdr'[b.addr - HDR].size = b.size
      BY <2>4, <2>6
    <3> DEFINE x == [addr |-> a + HDR, size |-> s]
    <3>2. x.addr - HDR = a /\ x.size = s
      BY <1>1
    <3> HIDE DEF x
    <3>3. hdr'[x.addr - HDR].size = x.size
      BY <1>4, <3>2
    <3>4. \A b \in Held(p)' : b \in Held(p) \/ b = x
      BY <2>1 DEF x
    <3>5. QED
      BY <2>1, <3>1, <3>3, <3>4
  <2>8. \A q, r \in Proc : q # r => Items(q)' \intersect Items(r)' = {}
    BY <2>2, <2>3 DEF Inv, Claims
  <2>b. \A b \in live[p] : b.addr # a + HDR
    <3> SUFFICES ASSUME NEW b \in live[p], b.addr = a + HDR PROVE FALSE
      OBVIOUS
    <3>1. b.addr - HDR = a
      BY <1>1
    <3>2. QED
      BY <2>1, <2>3, <2>6, <3>1
  <2>10. QED
    BY <1>10, <1>11, <2>5, <2>7, <2>8, <2>b DEF Claims, Inv, Critical
<1>14. QED
  BY <1>7, <1>8, <1>9, <1>12, <1>13 DEF Inv

\* mm_kmalloc cuts a free item.
LEMMA SplitStep ==
  ASSUME Inv, NEW p \in Proc, Split(p)
  PROVE  Inv'
<1> DEFINE a == cur[p]
           rest == hdr[a].size - Total(arg[p])
           next == hdr[a].next
<1>1. /\ pc[p] = "search" /\ fault = "none" /\ a # NULL
      /\ ~ hdr[a].used /\ Total(arg[p]) <= hdr[a].size
      /\ hdr' = Cut(hdr, a, arg[p], rest, next)
      /\ pc' = [pc EXCEPT ![p] = "mallocked"]
      /\ cur' = [cur EXCEPT ![p] = a]
      /\ heapTop' = heapTop
      /\ UNCHANGED <<lock, arg, live, fault>>
  BY DEF Split, At, GoTo, Fits, Free, Inv, TypeOK
<1>2. a \in DOMAIN hdr /\ TypeOK /\ arg[p] \in Nat
  BY <1>1 DEF Inv, Walking, TypeOK
<1>3. a \in Nat \ {0} /\ next \in Nat /\ hdr[a].size \in Nat
  BY <1>2, HeapExists
<1>4. Total(arg[p]) \in Nat /\ rest \in Nat
  BY <1>1, <1>2, <1>3, TotalType
<1>5. a + Total(arg[p]) + HDR + rest = a + HDR + hdr[a].size
  BY <1>3, <1>4, HeapAssumption
<1>6. /\ Base <= a /\ heapTop \in Nat
      /\ a + HDR + hdr[a].size <= heapTop
      /\ \A b \in DOMAIN hdr : a < b => a + HDR + hdr[a].size <= b
      /\ \A b \in DOMAIN hdr : b < a => b + HDR + hdr[b].size <= a
  BY <1>2 DEF Inv, Layout, TypeOK
<1>7. /\ next # NULL => /\ next \in DOMAIN hdr /\ a < next
                        /\ \A b \in DOMAIN hdr : b <= a \/ next <= b
      /\ \A b \in DOMAIN hdr : hdr[b].next # NULL => a <= b \/ hdr[b].next <= a
  BY <1>2 DEF Inv, Chained
<1>8. Base \in DOMAIN hdr
  BY <1>1, <1>2, HeapExists DEF Inv, Walking
<1> HIDE DEF a, rest, next
<1>9. /\ heapTop' \in Nat /\ heapTop <= heapTop'
      /\ a + Total(arg[p]) + HDR + rest <= heapTop'
      /\ \A b \in DOMAIN hdr : a < b => a + Total(arg[p]) + HDR + rest <= b
  BY <1>1, <1>5, <1>6
<1>10. /\ Base \in DOMAIN hdr \union {a} /\ next \in Nat /\ a \in Nat \ {0}
       /\ a \in DOMAIN hdr => ~ hdr[a].used
       /\ UNCHANGED <<lock, arg, live, fault>>
  BY <1>1, <1>3, <1>8
<1>11. QED
  BY <1>1, <1>4, <1>6, <1>7, <1>9, <1>10, CutStep

\* mm_kmalloc cuts the pages that mm_morecore has put at the end of the heap.
LEMMA GrowStep ==
  ASSUME Inv, NEW p \in Proc, MoreCore(p), Grow(p)
  PROVE  Inv'
<1> DEFINE a == PrevTop
           rest == Leftover(arg[p]) - HDR
<1>1. /\ pc[p] = "search" /\ fault = "none"
      /\ hdr' = Cut(hdr, a, arg[p], rest, NULL)
      /\ Leftover(arg[p]) >= HDR
      /\ pc' = [pc EXCEPT ![p] = "mallocked"]
      /\ cur' = [cur EXCEPT ![p] = a]
      /\ heapTop' = a + NewPages(arg[p]) * PAGE
      /\ UNCHANGED <<lock, arg, live, fault>>
  BY DEF MoreCore, Grow, At, GoTo, Look
<1>2. arg[p] \in Nat /\ heapTop \in Nat /\ HDR \in Nat \ {0} /\ Base \in Nat \ {0}
  BY HeapAssumption DEF Inv, TypeOK
<1>3. Total(arg[p]) \in Nat /\ NewPages(arg[p]) * PAGE \in Nat
  BY <1>2, TotalType
<1>4. rest \in Nat
      /\ a + Total(arg[p]) + HDR + rest = a + NewPages(arg[p]) * PAGE
      /\ a \in Nat
  BY <1>1, <1>2, <1>3 DEF Leftover, PrevTop
<1>5. a \in Nat \ {0} /\ Base <= a /\ heapTop <= a
  BY <1>2 DEF PrevTop, Inv, Walking, NULL
<1>6. \A b \in DOMAIN hdr : /\ b + HDR + hdr[b].size <= a
                            /\ b \in Nat /\ b < a
                            /\ hdr[b].next \in Nat
  BY <1>2, <1>5, HeapExists DEF PrevTop, Inv, Layout
<1>7. \A b \in DOMAIN hdr : hdr[b].next # NULL => hdr[b].next <= a
  BY <1>5, <1>6 DEF Inv, Chained
<1>8. Base \in DOMAIN hdr \union {a}
  BY <1>1 DEF PrevTop, Inv, Walking
<1>9. heapTop' \in Nat /\ heapTop <= heapTop'
  BY <1>1, <1>2, <1>3, <1>5
<1>10. NULL \in Nat
  BY DEF NULL
<1>11. a \notin DOMAIN hdr /\ \A b \in DOMAIN hdr : ~ (a < b)
  BY <1>5, <1>6
<1> HIDE DEF a, rest
<1>12. /\ a + Total(arg[p]) + HDR + rest <= heapTop'
       /\ UNCHANGED <<lock, arg, live, fault>>
  BY <1>1, <1>4, <1>9
<1>13. /\ \A b \in DOMAIN hdr : b < a => b + HDR + hdr[b].size <= a
       /\ \A b \in DOMAIN hdr : a < b => a + Total(arg[p]) + HDR + rest <= b
       /\ \A b \in DOMAIN hdr : hdr[b].next # NULL => a <= b \/ hdr[b].next <= a
       /\ a \in DOMAIN hdr => ~ hdr[a].used
  BY <1>6, <1>7, <1>11
<1>14. QED
  BY <1>1, <1>4, <1>5, <1>8, <1>9, <1>10, <1>12, <1>13, CutStep

-------------------------------------------------------------------------------
(***************************************************************************)
(* The invariant and what follows from it.                                 *)
(***************************************************************************)

\* mm_init leaves an empty heap.
LEMMA InitInv == SizesFit /\ Init => Inv
<1> SUFFICES ASSUME SizesFit, Init PROVE Inv
  OBVIOUS
<1> USE DEF Init
<1>1. TypeOK
  BY HeapAssumption DEF TypeOK, NULL, Item
<1>2. LockInv /\ Layout /\ Chained /\ Walking
  BY HeapAssumption DEF LockInv, Critical, Layout, Chained, Walking
<1>3. \A p \in Proc : Held(p) = {} /\ Items(p) = {}
  BY DEF Held, Items
<1>4. Claims
  BY <1>3 DEF Claims
<1>5. QED
  BY <1>1, <1>2, <1>4 DEF Inv

\* Every step of mm_kmalloc and of mm_kfree keeps the invariant.
LEMMA NextInv == Inv /\ [Next]_vars => Inv'
<1> SUFFICES ASSUME Inv, [Next]_vars PROVE Inv'
  OBVIOUS
<1>1. ASSUME NEW p \in Proc, Quiet(p)
      PROVE  Inv'
  BY <1>1, QuietType, QuietWalk, QuietClaims DEF Inv
<1>2. ASSUME NEW p \in Proc, MoreCore(p), Grow(p)
      PROVE  Inv'
  BY <1>2, GrowStep
<1>3. ASSUME NEW p \in Proc, Split(p)
      PROVE  Inv'
  BY <1>3, SplitStep
<1>4. ASSUME NEW p \in Proc, UnlockMalloc(p)
      PROVE  Inv'
  BY <1>4, UnlockMallocStep
<1>5. ASSUME NEW p \in Proc, NEW b \in live[p], CallFree(p, b)
      PROVE  Inv'
  BY <1>5, CallFreeStep
<1>6. ASSUME NEW p \in Proc, Found(p)
      PROVE  Inv'
  BY <1>6, FoundStep
<1>7. ASSUME NEW p \in Proc, Merge(p)
      PROVE  Inv'
  BY <1>7, MergeStep
<1>8. CASE UNCHANGED vars
  <2>1. TypeOK' /\ LockInv' /\ Layout' /\ Chained' /\ Walking'
    BY <1>8 DEF vars, Inv, TypeOK, LockInv, Layout, Chained, Walking
  <2>2. \A p \in Proc : Held(p)' = Held(p)
    BY <1>8 DEF vars, Held
  <2>3. \A p \in Proc : Items(p)' = Items(p)
    BY <1>8, <2>2 DEF vars, Items
  <2>4. Claims'
    BY <1>8, <2>2, <2>3 DEF vars, Inv, Claims
  <2>5. QED
    BY <2>1, <2>4 DEF Inv
<1>9. QED
  BY <1>1, <1>2, <1>3, <1>4, <1>5, <1>6, <1>7, <1>8
  DEF Next, Step, Quiet, Halted

\* Every state of the heap satisfies the invariant.
LEMMA Invariance == SizesFit /\ Spec => []Inv
<1>1. QED
  BY InitInv, NextInv, PTL DEF Spec

\* Headers stay well formed: no size ever becomes negative.
THEOREM TypeCorrect == SizesFit /\ Spec => []TypeOK
<1>1. Inv => TypeOK
  BY DEF Inv
<1>2. QED
  BY <1>1, Invariance, PTL

\* The item of a block is in use, as large as the block, and ends before any
\* other item begins.
LEMMA BlockItem ==
  ASSUME Inv, NEW p \in Proc, NEW b \in Held(p)
  PROVE  LET a == b.addr - HDR
         IN  /\ a \in DOMAIN hdr /\ a \in Items(p)
             /\ a \in Nat /\ b.size \in Nat /\ b.addr = a + HDR
             /\ hdr[a].size = b.size
<1>1. b.addr \in Nat /\ b.size \in Nat
  BY HeapAssumption DEF Inv, TypeOK, Held, Block
<1>2. b.addr - HDR \in Items(p)
  BY DEF Items
<1>3. b.addr - HDR \in DOMAIN hdr /\ hdr[b.addr - HDR].size = b.size
  BY <1>2 DEF Inv, Claims
<1>4. QED
  BY <1>1, <1>2, <1>3, HeapExists, HeapAssumption

\* The blocks of one context are told apart by their items.
LEMMA OneBlockPerItem ==
  ASSUME Inv, NEW p \in Proc, NEW b \in Held(p), NEW c \in Held(p),
         b.addr = c.addr
  PROVE  b = c
<1>1. b \in Block /\ c \in Block
  BY HeapAssumption DEF Inv, TypeOK, Held, Block
<1>2. b.size = c.size
  BY DEF Inv, Claims
<1>3. QED
  BY <1>1, <1>2 DEF Block

\* What a caller writes in its block reaches no other block and no header, and
\* is mapped memory.
LEMMA DisjointBlocks == Inv => BlocksDisjoint
<1> SUFFICES ASSUME Inv, NEW p \in Proc, NEW b \in Held(p)
             PROVE  /\ InHeap(b)
                    /\ \A a \in DOMAIN hdr :
                         Units(b) \intersect HeaderUnits(a) = {}
                    /\ \A q \in Proc : \A c \in Held(q) :
                         (p # q \/ b # c) => Units(b) \intersect Units(c) = {}
  BY DEF BlocksDisjoint
<1> DEFINE i == b.addr - HDR
<1>1. /\ i \in DOMAIN hdr /\ i \in Items(p) /\ i \in Nat /\ b.size \in Nat
      /\ b.addr = i + HDR /\ hdr[i].size = b.size
  BY BlockItem
<1> HIDE DEF i
<1>2. HDR \in Nat \ {0} /\ Base \in Nat /\ heapTop \in Nat
  BY HeapAssumption DEF Inv, TypeOK
<1>3. InHeap(b)
  BY <1>1, <1>2 DEF InHeap, Inv, Layout
<1>4. \A a \in DOMAIN hdr : /\ a \in Nat /\ hdr[a].size \in Nat
                            /\ a < i => a + HDR + hdr[a].size <= i
                            /\ i < a => i + HDR + b.size <= a
  BY <1>1, HeapExists DEF Inv, Layout
<1>5. ASSUME NEW a \in DOMAIN hdr
      PROVE  Units(b) \intersect HeaderUnits(a) = {}
  <2>1. \A u \in Units(b) : u \in Int /\ i + HDR <= u /\ u < i + HDR + b.size
    BY <1>1, <1>2 DEF Units
  <2>2. \A u \in HeaderUnits(a) : u \in Int /\ a <= u /\ u < a + HDR
    BY <1>2, <1>4 DEF HeaderUnits
  <2>3. a + HDR <= i + HDR \/ i + HDR + b.size <= a
    BY <1>1, <1>2, <1>4
  <2>4. QED
    BY <1>1, <1>2, <1>4, <2>1, <2>2, <2>3
<1>6. ASSUME NEW q \in Proc, NEW c \in Held(q), p # q \/ b # c
      PROVE  Units(b) \intersect Units(c) = {}
  <2> DEFINE j == c.addr - HDR
  <2>1. /\ j \in DOMAIN hdr /\ j \in Items(q) /\ j \in Nat /\ c.size \in Nat
        /\ c.addr = j + HDR /\ hdr[j].size = c.size
    BY BlockItem
  <2> HIDE DEF j
  <2>2. i # j
    <3> SUFFICES ASSUME i = j PROVE FALSE
      OBVIOUS
    <3>1. p = q
      BY <1>1, <2>1 DEF Inv, Claims
    <3>2. b.addr = c.addr
      BY <1>1, <2>1
    <3>3. QED
      BY <1>6, <3>1, <3>2, OneBlockPerItem
  <2>3. /\ \A u \in Units(b) : u \in Int /\ i + HDR <= u /\ u < i + HDR + b.size
        /\ \A u \in Units(c) : u \in Int /\ j + HDR <= u /\ u < j + HDR + c.size
    BY <1>1, <1>2, <2>1 DEF Units
  <2>4. i + HDR + b.size <= j \/ j + HDR + c.size <= i
    BY <1>1, <1>4, <2>1, <2>2
  <2>5. QED
    BY <1>1, <1>2, <2>1, <2>3, <2>4
<1>7. QED
  BY <1>3, <1>5, <1>6

\* No two blocks ever overlap, nor a block and a header.
THEOREM BlocksAreDisjoint == SizesFit /\ Spec => []BlocksDisjoint
<1>1. QED
  BY DisjointBlocks, Invariance, PTL


-------------------------------------------------------------------------------
(***************************************************************************)
(* Refinement.  The heap grows by whole pages within the machine's memory, *)
(* and every block has a size that was asked for.                          *)
(***************************************************************************)

Paged == heapTop # NULL => \E k \in 0 .. MaxPages : heapTop = Base + k * PAGE

AskedFor == \A p \in Proc : \A b \in live[p] : b.size \in Sizes

\* mm_morecore adds whole pages, no more than there are.
LEMMA PagedStep ==
  ASSUME Inv, Paged, NEW s \in Nat, Mapped + NewPages(s) <= MaxPages,
         heapTop' = PrevTop + NewPages(s) * PAGE
  PROVE  Paged'
<1>1. NewPages(s) \in Nat /\ MaxPages \in Nat /\ PAGE \in Nat \ {0} /\ Base \in Nat
  <2>1. Total(s) \in Nat
    BY TotalType
  <2>2. QED
    BY <2>1, HeapAssumption DEF NewPages
<1>2. PICK k \in 0 .. MaxPages : PrevTop = Base + k * PAGE
  <2>1. Base = Base + 0 * PAGE /\ 0 \in 0 .. MaxPages
    BY <1>1
  <2>2. QED
    BY <2>1 DEF Paged, PrevTop
<1>3. k * PAGE \in Nat /\ (k * PAGE) \div PAGE = k
  BY <1>1
<1>4. Mapped = k
  BY <1>1, <1>2, <1>3 DEF Mapped
<1>5. k + NewPages(s) \in 0 .. MaxPages
  BY <1>1, <1>4
<1>6. heapTop' = Base + (k + NewPages(s)) * PAGE
  BY <1>1, <1>2
<1>7. QED
  BY <1>5, <1>6 DEF Paged

LEMMA RangesInit == Init => Paged /\ AskedFor /\ Ranges!Init
<1>1. Init => [p \in Proc |-> {Units(b) : b \in live[p]}] = [p \in Proc |-> {}]
  BY DEF Init
<1>2. QED
  BY <1>1 DEF Init, Paged, AskedFor, Ranges!Init

LEMMA RangesNext == Inv /\ Paged /\ AskedFor /\ [Next]_vars => Paged' /\ AskedFor'
<1> SUFFICES ASSUME Inv, Paged, AskedFor, [Next]_vars PROVE Paged' /\ AskedFor'
  OBVIOUS
<1> USE DEF At, GoTo, Look
<1>1. TypeOK /\ Sizes \subseteq Nat
  BY HeapAssumption DEF Inv
<1>2. ASSUME NEW p \in Proc, MoreCore(p)
      PROVE  Paged' /\ AskedFor'
  <2>1. arg[p] \in Nat /\ live' = live
    BY <1>1, <1>2 DEF MoreCore, TypeOK
  <2>2. heapTop' = heapTop \/ (/\ Mapped + NewPages(arg[p]) <= MaxPages
                               /\ heapTop' = PrevTop + NewPages(arg[p]) * PAGE)
    BY <1>2 DEF MoreCore, NoMemory, Overrun, Grow
  <2>3. Paged'
    <3>1. CASE heapTop' = heapTop
      BY <3>1 DEF Paged
    <3>2. CASE heapTop' # heapTop
      BY <2>1, <2>2, <3>2, PagedStep
    <3>3. QED
      BY <3>1, <3>2
  <2>4. QED
    BY <2>1, <2>3 DEF AskedFor
<1>3. ASSUME NEW p \in Proc, UnlockMalloc(p)
      PROVE  Paged' /\ AskedFor'
  <2>1. arg[p] \in Sizes
    BY <1>3 DEF Inv, Walking, UnlockMalloc
  <2>2. QED
    BY <1>1, <1>3, <2>1 DEF UnlockMalloc, Paged, AskedFor, TypeOK
<1>4. ASSUME NEW p \in Proc, NEW b \in live[p], CallFree(p, b)
      PROVE  Paged' /\ AskedFor'
  BY <1>1, <1>4 DEF CallFree, Paged, AskedFor, TypeOK
<1>5. CASE UNCHANGED <<heapTop, live>>
  BY <1>5 DEF Paged, AskedFor
<1>6. QED
  BY <1>2, <1>3, <1>4, <1>5
  DEF Next, Step, Halted, vars, CallMalloc, LockMalloc, Search, Split, LockFree,
      Find, NotFound, Found, Merge, Advance, Coalesced, UnlockFree

\* mm_kmalloc and mm_kfree implement the allocator that callers can rely on.
THEOREM Refinement == SizesFit /\ Spec => ImplementsAllocator
<1> DEFINE granted == [p \in Proc |-> {Units(b) : b \in live[p]}]
           Where == Base .. (Base + MaxPages * PAGE)
           Blocks == {a .. (a + s - 1) : a \in Where, s \in Sizes}
<1>1. Inv /\ Paged /\ AskedFor /\ [Next]_vars => [Ranges!Next]_granted
  <2> SUFFICES ASSUME Inv, Paged, AskedFor, [Next]_vars
               PROVE  [Ranges!Next]_granted
    OBVIOUS
  <2>1. TypeOK /\ BlocksDisjoint
    BY DisjointBlocks DEF Inv
  <2>2. ASSUME NEW p \in Proc, UnlockMalloc(p)
        PROVE  Ranges!Next
    <3> DEFINE b == [addr |-> cur[p] + HDR, size |-> arg[p]]
    <3>1. /\ pc[p] = "mallocked"
          /\ live' = [live EXCEPT ![p] = @ \union {b}]
          /\ Held(p) = live[p] \union {b}
      BY <2>2 DEF UnlockMalloc, At, Held
    <3>2. /\ arg[p] \in Sizes
          /\ b.addr = cur[p] + HDR /\ b.size = arg[p]
      BY <3>1 DEF Inv, Walking
    <3> HIDE DEF b
    <3>3. \A q \in Proc : \A c \in live[q] : Units(b) \intersect Units(c) = {}
      <4> SUFFICES ASSUME NEW q \in Proc, NEW c \in live[q]
                   PROVE  Units(b) \intersect Units(c) = {}
        OBVIOUS
      <4>1. b \in Held(p) /\ c \in Held(q)
        BY <3>1 DEF Held
      <4>2. p = q => b # c
        BY <3>1, <3>2 DEF Inv, Claims
      <4>3. QED
        BY <2>1, <4>1, <4>2 DEF BlocksDisjoint
    <3>4. Units(b) \intersect Ranges!Used = {}
      BY <3>3 DEF Ranges!Used
    <3>5. granted' = [granted EXCEPT ![p] = @ \union {Units(b)}]
      BY <2>1, <3>1 DEF TypeOK, Units
    <3>6. Units(b) \in Blocks
      <4>1. InHeap(b)
        BY <2>1, <3>1 DEF BlocksDisjoint
      <4>2. b.addr \in Nat /\ arg[p] \in Nat /\ heapTop \in Nat /\ Base \in Nat
            /\ cur[p] \in Nat /\ MaxPages \in Nat /\ PAGE \in Nat
        BY <2>1, <3>2, HeapAssumption DEF TypeOK
      <4>3. cur[p] \in DOMAIN hdr
        BY <3>1 DEF Inv, Walking
      <4>4. PICK k \in 0 .. MaxPages : heapTop = Base + k * PAGE
        BY <4>3, HeapExists DEF Paged
      <4>5. k * PAGE <= MaxPages * PAGE /\ MaxPages * PAGE \in Nat
            /\ k * PAGE \in Nat
        BY <4>2
      <4>6. b.addr \in Where
        BY <3>2, <4>1, <4>2, <4>4, <4>5 DEF InHeap
      <4> HIDE DEF Where
      <4>7. Units(b) = b.addr .. (b.addr + arg[p] - 1)
        BY <3>2 DEF Units
      <4>8. Units(b) \in {a .. (a + t - 1) : a \in Where, t \in Sizes}
        BY <3>2, <4>6, <4>7
      <4>9. QED
        BY <4>8 DEF Where, Blocks
    <3> HIDE DEF Blocks
    <3>7. PICK u \in Blocks : u = Units(b)
      BY <3>6
    <3>8. Ranges!Grant(p, u)
      BY <3>4, <3>5, <3>7 DEF Ranges!Grant
    <3> HIDE DEF granted
    <3>9. \E x \in Blocks : Ranges!Grant(p, x)
      BY <3>8
    <3>10. QED
      BY <3>9 DEF Ranges!Next, Blocks
  <2>3. ASSUME NEW p \in Proc, NEW b \in live[p], CallFree(p, b)
        PROVE  Ranges!Next
    <3>1. live' = [live EXCEPT ![p] = @ \ {b}]
      BY <2>3 DEF CallFree
    <3>2. \A c \in live[p] : b # c => Units(b) # Units(c)
      <4> SUFFICES ASSUME NEW c \in live[p], b # c
                   PROVE  Units(b) # Units(c)
        OBVIOUS
      <4>1. Units(b) \intersect Units(c) = {}
        BY <2>1 DEF BlocksDisjoint, Held
      <4>2. b.addr \in Units(b)
        BY <2>1, HeapAssumption DEF Units, AskedFor, TypeOK, Block
      <4>3. QED
        BY <4>1, <4>2
    <3>3. granted' = [granted EXCEPT ![p] = @ \ {Units(b)}]
      <4>1. {Units(c) : c \in live[p] \ {b}} =
              {Units(c) : c \in live[p]} \ {Units(b)}
        BY <3>2
      <4>2. QED
        BY <2>1, <3>1, <4>1 DEF TypeOK, Units
    <3>4. Units(b) \in granted[p] /\ Ranges!Release(p, Units(b))
      BY <3>3 DEF Ranges!Release
    <3> HIDE DEF granted
    <3>5. \E u \in granted[p] : Ranges!Release(p, u)
      BY <3>4
    <3>6. QED
      BY <3>5 DEF Ranges!Next, granted
  <2>4. CASE UNCHANGED live
    BY <2>4 DEF Units
  <2>5. QED
    BY <2>2, <2>3, <2>4
    DEF Next, Step, Halted, vars, CallMalloc, LockMalloc, Search, Split, MoreCore,
        LockFree, Find, NotFound, Found, Merge, Advance, Coalesced, UnlockFree
<1>2. QED
  BY <1>1, RangesInit, RangesNext, Invariance, PTL DEF Spec, Ranges!Spec, ImplementsAllocator

-------------------------------------------------------------------------------
(***************************************************************************)
(* The list.  mm_morecore does not link the pages it adds to the items     *)
(* that were there, so the list from the first item on ends at the first   *)
(* item whose link is NULL: the items on it are those that no such item    *)
(* precedes.                                                               *)
(***************************************************************************)

\* The least number principle, from the well-foundedness of strict inclusion
\* on finite sets.
LEMMA LeastNumber ==
  ASSUME NEW S \in SUBSET Nat, S # {}
  PROVE  \E m \in S : \A n \in S : m <= n
<1> PICK b \in S : TRUE
  OBVIOUS
<1> DEFINE U == 0 .. b
           R == StrictSubsetOrdering(U)
           T == {0 .. m : m \in {n \in S : n <= b}}
<1>1. FiniteSubsetsOf(U) = SUBSET U
  <2>1. IsFiniteSet(U)
    BY FS_Interval
  <2> HIDE DEF U
  <2>2. QED
    BY <2>1, FS_FiniteSubsetsOfFinite
<1>2. IsWellFoundedOn(R, FiniteSubsetsOf(U))
  BY FS_StrictSubsetOrderingWellFounded
<1>3. T \subseteq SUBSET U /\ 0 .. b \in T
  OBVIOUS
<1> HIDE DEF R, T
<1>4. PICK x \in T : \A y \in T : ~ (<<y, x>> \in R)
  <2> DEFINE F == SUBSET U
  <2>1. IsWellFoundedOn(R, F) /\ T \subseteq F /\ T # {}
    BY <1>1, <1>2, <1>3
  <2> HIDE DEF F
  <2>2. QED
    BY <2>1, WFMin
<1>5. PICK m \in S : m <= b /\ x = 0 .. m
  BY DEF T
<1>6. ASSUME NEW n \in S, n < m
      PROVE  FALSE
  <2>1. 0 .. n \in T /\ 0 .. n \subseteq x /\ 0 .. n # x
    BY <1>5, <1>6 DEF T
  <2>2. <<0 .. n, x>> \in R
    BY <1>3, <2>1 DEF R, StrictSubsetOrdering
  <2>3. QED
    BY <1>4, <2>1, <2>2
<1>7. QED
  BY <1>5, <1>6

Reached ==
  {b \in DOMAIN hdr : \A c \in DOMAIN hdr : c < b => hdr[c].next # NULL}

\* The items from a on that no item without a link precedes.
Onward(a) ==
  {b \in DOMAIN hdr : /\ a <= b
                      /\ \A c \in DOMAIN hdr : a <= c /\ c < b => hdr[c].next # NULL}

\* A heap that has items has one at its bottom.
Rooted == DOMAIN hdr # {} => Base \in DOMAIN hdr

\* Following the links from a gives the items that lie onward of a.
LEMMA OnwardLink ==
  ASSUME Inv, NEW a \in DOMAIN hdr
  PROVE  Onward(a) = {a} \union (IF hdr[a].next = NULL THEN {}
                                 ELSE Onward(hdr[a].next))
<1>1. \A b \in DOMAIN hdr : b \in Nat
  BY HeapExists
<1>2. CASE hdr[a].next = NULL
  <2>1. ASSUME NEW b \in Onward(a) PROVE b = a
    BY <1>1, <1>2 DEF Onward
  <2>2. a \in Onward(a)
    BY <1>1 DEF Onward
  <2>3. QED
    BY <1>2, <2>1, <2>2
<1>3. CASE hdr[a].next # NULL
  <2> DEFINE n == hdr[a].next
  <2>1. /\ n \in DOMAIN hdr /\ a < n
        /\ \A b \in DOMAIN hdr : b <= a \/ n <= b
    BY <1>3 DEF Inv, Chained
  <2> HIDE DEF n
  <2>2. a \in Onward(a)
    BY <1>1 DEF Onward
  <2>3. ASSUME NEW b \in Onward(n) PROVE b \in Onward(a)
    <3>1. b \in DOMAIN hdr /\ a <= b
      BY <1>1, <2>1 DEF Onward
    <3>2. ASSUME NEW c \in DOMAIN hdr, a <= c, c < b
          PROVE  hdr[c].next # NULL
      <4>1. c = a \/ n <= c
        BY <1>1, <2>1, <3>2
      <4>2. QED
        BY <1>3, <3>2, <4>1 DEF Onward
    <3>3. QED
      BY <3>1, <3>2 DEF Onward
  <2>4. ASSUME NEW b \in Onward(a), b # a PROVE b \in Onward(n)
    <3>1. b \in DOMAIN hdr /\ n <= b
      BY <1>1, <2>1, <2>4 DEF Onward
    <3>2. ASSUME NEW c \in DOMAIN hdr, n <= c, c < b
          PROVE  hdr[c].next # NULL
      <4>1. a <= c
        BY <1>1, <2>1, <3>2
      <4>2. QED
        BY <3>2, <4>1 DEF Onward
    <3>3. QED
      BY <3>1, <3>2 DEF Onward
  <2>5. Onward(a) = {a} \union Onward(n)
    BY <2>2, <2>3, <2>4
  <2>6. QED
    BY <1>3, <2>5 DEF n
<1>4. QED
  BY <1>2, <1>3

\* The items that a walk from the first one meets, as the code's loops do, are
\* the items that can be reached.  (Links lead upwards, so the recursion ends.)
LEMMA LinkedIsReached ==
  ASSUME Inv, Rooted
  PROVE  Linked = Reached
<1> DEFINE D == DOMAIN hdr \union {NULL}
           Follow(w, a) == IF a = NULL THEN {} ELSE {a} \union w[hdr[a].next]
           G == [a \in D |-> IF a = NULL THEN {} ELSE Onward(a)]
<1>1. \A a \in DOMAIN hdr : /\ a \in Nat \ {0} /\ a <= heapTop /\ heapTop \in Nat
                            /\ hdr[a].next \in D
                            /\ hdr[a].next # NULL => a < hdr[a].next
  BY HeapExists, HeapAssumption DEF Inv, TypeOK, Layout, Chained
<1>2. G = [a \in D |-> Follow(G, a)]
  <2>1. ASSUME NEW a \in D PROVE G[a] = Follow(G, a)
    <3>1. CASE a = NULL
      BY <3>1
    <3>2. CASE a # NULL
      <4>1. a \in DOMAIN hdr /\ hdr[a].next \in D
        BY <1>1, <3>2
      <4>2. G[a] = Onward(a)
        BY <3>2
      <4>3. G[hdr[a].next] = IF hdr[a].next = NULL THEN {} ELSE Onward(hdr[a].next)
        BY <4>1
      <4> HIDE DEF G
      <4>4. QED
        BY <3>2, <4>1, <4>2, <4>3, OnwardLink
    <3>3. QED
      BY <3>1, <3>2
  <2>2. G = [a \in D |-> G[a]]
    OBVIOUS
  <2> HIDE DEF G, Follow
  <2>3. QED
    BY <2>1, <2>2
<1>3. From = [a \in D |-> Follow(From, a)]
  <2> DEFINE F == CHOOSE w : w = [a \in D |-> Follow(w, a)]
  <2>1. F = [a \in D |-> Follow(F, a)]
    <3> HIDE DEF G, Follow, D
    <3>1. QED
      BY <1>2
  <2>2. From = F
    BY DEF From
  <2>3. QED
    BY <2>1, <2>2
<1>4. \A a \in D : From[a] = Follow(From, a) /\ G[a] = Follow(G, a)
  <2> HIDE DEF G, D, Follow
  <2>1. QED
    BY <1>2, <1>3
<1>5. From[NULL] = G[NULL]
  BY <1>4
<1> DEFINE Bad == {a \in DOMAIN hdr : From[a] # G[a]}
<1>6. Bad = {}
  <2> SUFFICES ASSUME Bad # {} PROVE FALSE
    OBVIOUS
  <2> DEFINE Far == {heapTop - a : a \in Bad}
  <2>1. \A a \in Bad : a \in DOMAIN hdr /\ From[a] # G[a]
    OBVIOUS
  <2>2. \A a \in DOMAIN hdr : From[a] # G[a] => a \in Bad
    OBVIOUS
  <2> HIDE DEF Bad, G
  <2>3. Far \in SUBSET Nat /\ Far # {}
    BY <1>1, <2>1
  <2>4. \A b \in Bad : heapTop - b \in Far
    OBVIOUS
  <2> HIDE DEF Far
  <2>5. PICK m \in Far : \A n \in Far : m <= n
    BY <2>3, LeastNumber
  <2>6. PICK a \in Bad : m = heapTop - a
    BY DEF Far
  <2>7. a \in DOMAIN hdr /\ a # NULL /\ From[a] # G[a]
    BY <1>1, <2>1 DEF NULL
  <2>8. \A b \in Bad : heapTop - a <= heapTop - b
    BY <2>4, <2>5, <2>6
  <2>9. \A b \in Bad : b <= a
    BY <1>1, <2>1, <2>7, <2>8
  <2>10. From[hdr[a].next] = G[hdr[a].next]
    <3>1. hdr[a].next # NULL => hdr[a].next \in DOMAIN hdr /\ hdr[a].next \notin Bad
      BY <1>1, <2>7, <2>9
    <3>2. QED
      BY <1>5, <2>2, <3>1
  <2>11. a \in D
    BY <2>7
  <2>12. QED
    BY <1>4, <2>7, <2>10, <2>11
<1>7. CASE DOMAIN hdr = {}
  BY <1>7 DEF Linked, Reached
<1>8. CASE DOMAIN hdr # {}
  <2>1. Base \in DOMAIN hdr /\ Base # NULL /\ heapTop # NULL
    BY <1>8, HeapExists, HeapAssumption DEF Rooted, NULL
  <2>2. Linked = From[Base]
    BY <1>8, <2>1 DEF Linked
  <2>3. From[Base] = G[Base]
    BY <1>6, <2>1
  <2>4. G[Base] = Onward(Base)
    BY <2>1
  <2>5. \A c \in DOMAIN hdr : Base <= c
    BY DEF Inv, Layout
  <2>6. Onward(Base) = Reached
    BY <2>5 DEF Onward, Reached
  <2>7. QED
    BY <2>2, <2>3, <2>4, <2>6
<1>9. QED
  BY <1>7, <1>8

\* The items that a context walking the list has left behind.
Passed(p) == {a \in Reached : cur[p] = NULL \/ a < cur[p]}

\* A walk stays on the list.
OnList ==
  \A p \in Proc : pc[p] \in {"search", "find", "coalesce"} =>
    cur[p] = NULL \/ cur[p] \in Reached

\* No item that mm_kmalloc has passed could hold what was asked for, and none
\* that mm_kfree has passed is the one that is given back.
Searched ==
  \A p \in Proc : pc[p] = "search" => \A a \in Passed(p) : ~ Fits(a, arg[p])
Sought ==
  \A p \in Proc : pc[p] = "find" => arg[p] - HDR \notin Passed(p)

\* Two free neighbours are ahead of a context that is coalescing.
Merged ==
  \A a \in Reached : CanMerge(a) =>
    \E p \in Proc : pc[p] = "coalesce" /\ cur[p] # NULL /\ cur[p] <= a

\* A used item on the list is somebody's.
UsedIsClaimed ==
  \A a \in Reached : hdr[a].used => \E p \in Proc : a \in Items(p)

ListInv == Rooted /\ OnList /\ Searched /\ Sought /\ Merged /\ UsedIsClaimed

\* The bottom of the heap is on the list.
LEMMA BaseReached ==
  ASSUME Inv, Base \in DOMAIN hdr
  PROVE  Base \in Reached /\ Base # NULL /\ \A a \in Reached : Base <= a
<1>1. \A a \in DOMAIN hdr : a \in Nat /\ Base <= a
  BY HeapExists DEF Inv, Layout
<1>2. QED
  BY <1>1, HeapAssumption DEF Reached, NULL

\* One link further, one more item has been passed.
LEMMA LinkReached ==
  ASSUME Inv, NEW a \in Reached
  PROVE  /\ hdr[a].next = NULL \/ hdr[a].next \in Reached
         /\ \A b \in Reached : hdr[a].next = NULL \/ b < hdr[a].next => b <= a
<1>1. \A b \in DOMAIN hdr : b \in Nat /\ hdr[b].next \in Nat
  BY HeapExists
<1>2. a \in DOMAIN hdr /\ \A c \in DOMAIN hdr : c < a => hdr[c].next # NULL
  BY DEF Reached
<1>3. CASE hdr[a].next = NULL
  BY <1>1, <1>2, <1>3 DEF Reached
<1>4. CASE hdr[a].next # NULL
  <2>1. /\ hdr[a].next \in DOMAIN hdr /\ a < hdr[a].next
        /\ \A b \in DOMAIN hdr : b <= a \/ hdr[a].next <= b
    BY <1>2, <1>4 DEF Inv, Chained
  <2>2. \A c \in DOMAIN hdr : c < hdr[a].next => hdr[c].next # NULL
    <3> SUFFICES ASSUME NEW c \in DOMAIN hdr, c < hdr[a].next
                 PROVE  hdr[c].next # NULL
      OBVIOUS
    <3>1. c = a \/ c < a
      BY <1>1, <1>2, <2>1
    <3>2. QED
      BY <1>2, <1>4, <3>1
  <2>3. hdr[a].next \in Reached
    BY <2>1, <2>2 DEF Reached
  <2>4. \A b \in Reached : b < hdr[a].next => b <= a
    BY <1>1, <2>1 DEF Reached
  <2>5. QED
    BY <1>4, <2>3, <2>4
<1>5. QED
  BY <1>3, <1>4

-------------------------------------------------------------------------------
\* A context outside its critical section is at no item.
LEMMA OneWalks ==
  ASSUME Inv, NEW p \in Proc, pc[p] \in Critical
  PROVE  \A q \in Proc \ {p} : pc[q] \notin Critical
BY DEF Inv, LockInv

\* Steps that take p one item further, or that change no header otherwise:
\* what it has newly passed is the item it was at.
LEMMA WalkList ==
  ASSUME Inv, ListInv, NEW p \in Proc, Search(p) \/ Find(p) \/ Advance(p)
  PROVE  ListInv'
<1> DEFINE a == cur[p]
<1>1. /\ a # NULL /\ pc[p] \in {"search", "find", "coalesce"}
      /\ cur' = [cur EXCEPT ![p] = hdr[a].next]
      /\ UNCHANGED <<hdr, heapTop, lock, pc, arg, live, fault>>
      /\ pc[p] = "search" => ~ Fits(a, arg[p])
      /\ pc[p] = "find" => a # arg[p] - HDR
      /\ pc[p] = "coalesce" => ~ CanMerge(a)
  BY DEF Search, Find, Advance, At, Look
<1>2. a \in Reached /\ cur'[p] = hdr[a].next
  BY <1>1 DEF ListInv, OnList, Inv, TypeOK
<1>3. Reached' = Reached
  BY <1>1 DEF Reached
<1>4. /\ cur'[p] = NULL \/ cur'[p] \in Reached
      /\ \A b \in Reached : cur'[p] = NULL \/ b < cur'[p] => b <= a
  BY <1>2, LinkReached
<1>5. \A b \in Reached : b \in Nat
  BY HeapExists DEF Reached
<1>6. \A q \in Proc \ {p} : pc[q] \notin Critical
  BY <1>1, OneWalks DEF Critical
<1>7. \A q \in Proc \ {p} : pc[q] \notin {"search", "find", "coalesce"}
  BY <1>6 DEF Critical
<1>8. Passed(p)' \subseteq Passed(p) \union {a}
  BY <1>2, <1>3, <1>4, <1>5 DEF Passed
<1>9. Rooted' /\ OnList'
  BY <1>1, <1>3, <1>4, <1>7 DEF ListInv, Rooted, OnList
<1>10. Searched' /\ Sought'
  <2>1. pc[p] = "search" => \A b \in Passed(p)' : ~ Fits(b, arg[p])
    BY <1>1, <1>8 DEF ListInv, Searched
  <2>2. pc[p] = "find" => arg[p] - HDR \notin Passed(p)'
    BY <1>1, <1>8 DEF ListInv, Sought
  <2>3. Searched'
    BY <1>1, <1>7, <2>1 DEF Searched, Fits, Free
  <2>4. Sought'
    BY <1>1, <1>7, <2>2 DEF Sought
  <2>5. QED
    BY <2>3, <2>4
<1>11. Merged'
  <2> SUFFICES ASSUME NEW b \in Reached, CanMerge(b)
               PROVE  pc[p] = "coalesce" /\ cur'[p] # NULL /\ cur'[p] <= b
    BY <1>1, <1>3 DEF Merged, CanMerge, Free
  <2>1. pc[p] = "coalesce" /\ a <= b
    BY <1>7 DEF ListInv, Merged
  <2>2. b # a
    BY <1>1, <2>1
  <2>3. ~ (cur'[p] = NULL \/ b < cur'[p])
    BY <1>2, <1>4, <1>5, <2>1, <2>2
  <2>4. QED
    BY <1>4, <1>5, <2>1, <2>3
<1>12. UsedIsClaimed'
  <2>1. \A q \in Proc : Items(q)' = Items(q)
    BY <1>1, <1>7 DEF Items, Held, Inv, TypeOK, LockInv, Critical
  <2>2. QED
    BY <1>1, <1>3, <2>1 DEF ListInv, UsedIsClaimed
<1>13. QED
  BY <1>9, <1>10, <1>11, <1>12 DEF ListInv

\* Steps that change neither the headers nor what the contexts answer for, and
\* after which p is at the first item, at none, or not in a loop.
LEMMA StillList ==
  ASSUME Inv, ListInv, NEW p \in Proc, hdr' = hdr,
         \A q \in Proc \ {p} : /\ pc'[q] = pc[q] /\ cur'[q] = cur[q]
                               /\ arg'[q] = arg[q],
         \A a \in Reached : \A q \in Proc : a \in Items(q) => a \in Items(q)',
         pc[p] = "coalesce" => cur[p] = NULL,
         \/ pc'[p] = pc[p] /\ cur'[p] = cur[p] /\ arg'[p] = arg[p]
         \/ pc'[p] \notin {"search", "find", "coalesce"}
         \/ /\ pc'[p] \in {"search", "find"}
            /\ IF DOMAIN hdr = {} THEN cur'[p] = NULL ELSE cur'[p] = Base
  PROVE  ListInv'
<1>1. Reached' = Reached
  BY DEF Reached
<1>2. \A b \in Reached : b \in Nat /\ b \in DOMAIN hdr
  BY HeapExists DEF Reached
<1>3. CASE /\ pc'[p] \in {"search", "find"}
           /\ IF DOMAIN hdr = {} THEN cur'[p] = NULL ELSE cur'[p] = Base
  <2>1. cur'[p] = NULL \/ cur'[p] \in Reached
    BY <1>3, BaseReached DEF ListInv, Rooted
  <2>2. Passed(p)' = {}
    <3>1. CASE DOMAIN hdr = {}
      BY <1>1, <1>2, <3>1 DEF Passed
    <3>2. CASE DOMAIN hdr # {}
      <4>1. cur'[p] = Base /\ Base \in Nat /\ Base # NULL /\ \A a \in Reached : Base <= a
        BY <1>3, <3>2, BaseReached, HeapAssumption DEF ListInv, Rooted
      <4>2. QED
        BY <1>1, <1>2, <4>1 DEF Passed
    <3>3. QED
      BY <3>1, <3>2
  <2>3. OnList' /\ Searched' /\ Sought'
    BY <1>1, <1>3, <2>1, <2>2 DEF ListInv, OnList, Searched, Sought, Passed, Fits, Free
  <2>4. Merged' /\ Rooted' /\ UsedIsClaimed'
    BY <1>1 DEF ListInv, Merged, Rooted, UsedIsClaimed, CanMerge, Free
  <2>5. QED
    BY <2>3, <2>4 DEF ListInv
<1>4. CASE \/ pc'[p] = pc[p] /\ cur'[p] = cur[p] /\ arg'[p] = arg[p]
           \/ pc'[p] \notin {"search", "find", "coalesce"}
  <2>1. OnList' /\ Searched' /\ Sought'
    BY <1>1, <1>4 DEF ListInv, OnList, Searched, Sought, Passed, Fits, Free
  <2>2. Merged' /\ Rooted' /\ UsedIsClaimed'
    BY <1>1 DEF ListInv, Merged, Rooted, UsedIsClaimed, CanMerge, Free
  <2>3. QED
    BY <2>1, <2>2 DEF ListInv
<1>5. QED
  BY <1>3, <1>4

\* Calls, locks and the ends of loops.
LEMMA CallsList ==
  ASSUME Inv, ListInv, NEW p \in Proc,
         \/ \E s \in Sizes : CallMalloc(p, s)
         \/ \E b \in live[p] : CallFree(p, b)
         \/ UnlockMalloc(p) \/ LockMalloc(p) \/ LockFree(p)
         \/ MoreCore(p) /\ ~ Grow(p)
         \/ NotFound(p) \/ Coalesced(p) \/ UnlockFree(p)
  PROVE  ListInv'
<1> USE DEF At, GoTo, Look
<1>1. /\ hdr' = hdr
      /\ \A q \in Proc \ {p} : /\ pc'[q] = pc[q] /\ cur'[q] = cur[q]
                               /\ arg'[q] = arg[q] /\ live'[q] = live[q]
      /\ pc[p] = "coalesce" => cur[p] = NULL
  <2>1. DOMAIN pc = Proc /\ DOMAIN cur = Proc /\ DOMAIN arg = Proc /\ DOMAIN live = Proc
    BY DEF Inv, TypeOK
  <2>2. QED
    BY <2>1
    DEF CallMalloc, CallFree, UnlockMalloc, LockMalloc, LockFree, MoreCore, NoMemory,
        Overrun, NotFound, Coalesced, UnlockFree
<1>2. \A q \in Proc \ {p} : Items(q)' = Items(q)
  BY <1>1 DEF Items, Held
<1>3. CASE LockMalloc(p)
  <2>1. /\ pc[p] = "malloc" /\ pc'[p] = "search" /\ live' = live /\ fault = "none"
        /\ cur'[p] = IF heapTop = NULL THEN NULL ELSE Base
    BY <1>3 DEF LockMalloc, Inv, TypeOK
  <2>2. heapTop = NULL <=> DOMAIN hdr = {}
    BY <2>1, HeapExists DEF Inv, Walking
  <2>3. Items(p)' = Items(p)
    BY <2>1 DEF Items, Held
  <2>4. QED
    BY <1>1, <1>2, <2>1, <2>2, <2>3, StillList
<1>4. CASE LockFree(p)
  <2>1. /\ pc[p] = "free" /\ pc'[p] = "find" /\ live' = live
        /\ cur'[p] = Base /\ arg' = arg
    BY <1>4 DEF LockFree, Inv, TypeOK
  <2>2. DOMAIN hdr # {}
    BY <2>1 DEF Inv, Claims, Items
  <2>3. Items(p)' = Items(p)
    BY <2>1 DEF Items, Held
  <2>4. QED
    BY <1>1, <1>2, <2>1, <2>2, <2>3, StillList
<1>5. CASE NotFound(p)
  <2>1. /\ pc[p] = "find" /\ cur[p] = NULL /\ pc'[p] = "freed" /\ live' = live
        /\ cur' = cur /\ arg' = arg
    BY <1>5 DEF NotFound, Inv, TypeOK
  <2>2. arg[p] - HDR \notin Reached
    BY <2>1 DEF ListInv, Sought, Passed
  <2>3. \A a \in Reached : a \in Items(p) => a \in Items(p)'
    BY <2>1, <2>2 DEF Items, Held
  <2>4. QED
    BY <1>1, <1>2, <2>1, <2>3, StillList
<1>6. CASE UnlockMalloc(p)
  <2> DEFINE b == [addr |-> cur[p] + HDR, size |-> arg[p]]
  <2>1. /\ pc[p] = "mallocked" /\ pc'[p] = "idle"
        /\ live'[p] = live[p] \union {b}
    BY <1>6 DEF UnlockMalloc, Inv, TypeOK
  <2>2. Held(p)' = Held(p)
    BY <2>1 DEF Held
  <2>3. Items(p)' = Items(p)
    BY <2>1, <2>2 DEF Items
  <2>4. QED
    BY <1>1, <1>2, <2>1, <2>3, StillList
<1>7. ASSUME NEW b \in live[p], CallFree(p, b)
      PROVE  ListInv'
  <2>1. /\ pc[p] = "idle" /\ pc'[p] = "free" /\ arg'[p] = b.addr
        /\ live'[p] = live[p] \ {b}
    BY <1>7 DEF CallFree, Inv, TypeOK
  <2>2. Items(p) = {c.addr - HDR : c \in live[p]}
    BY <2>1 DEF Items, Held
  <2>3. Items(p)' = {c.addr - HDR : c \in live[p] \ {b}} \union {b.addr - HDR}
    BY <2>1 DEF Items, Held
  <2>4. \A a \in Items(p) : a \in Items(p)'
    BY <2>2, <2>3
  <2>5. QED
    BY <1>1, <1>2, <2>1, <2>4, StillList
<1>8. ASSUME NEW s \in Sizes, CallMalloc(p, s)
      PROVE  ListInv'
  <2>1. pc[p] = "idle" /\ pc'[p] = "malloc" /\ live' = live
    BY <1>8 DEF CallMalloc, Inv, TypeOK
  <2>2. Items(p)' = Items(p)
    BY <2>1 DEF Items, Held
  <2>3. QED
    BY <1>1, <1>2, <2>1, <2>2, StillList
<1>9. CASE MoreCore(p) /\ ~ Grow(p)
  <2>1. pc' = pc /\ cur' = cur /\ arg' = arg /\ live' = live
    BY <1>9 DEF MoreCore, NoMemory, Overrun
  <2>2. Items(p)' = Items(p)
    BY <2>1 DEF Items, Held
  <2>3. QED
    BY <1>1, <1>2, <2>1, <2>2, StillList
<1>10. CASE Coalesced(p) \/ UnlockFree(p)
  <2>1. /\ pc[p] \in {"coalesce", "freed"} /\ pc'[p] \in {"freed", "idle"}
        /\ live' = live
    BY <1>10 DEF Coalesced, UnlockFree, Inv, TypeOK
  <2>2. Items(p)' = Items(p)
    BY <2>1 DEF Items, Held
  <2>3. QED
    BY <1>1, <1>2, <2>1, <2>2, StillList
<1>11. QED
  BY <1>3, <1>4, <1>5, <1>6, <1>7, <1>8, <1>9, <1>10

\* mm_kfree finds the item: it and its neighbours are ahead of the second walk.
LEMMA FoundList ==
  ASSUME Inv, ListInv, NEW p \in Proc, Found(p)
  PROVE  ListInv'
<1> USE DEF At, GoTo, Look
<1> DEFINE c == cur[p]
<1>1. /\ c = arg[p] - HDR /\ pc[p] = "find"
      /\ pc' = [pc EXCEPT ![p] = "coalesce"]
      /\ cur' = [cur EXCEPT ![p] = Base]
      /\ UNCHANGED <<heapTop, lock, arg, live, fault>>
  BY DEF Found
<1>2. TypeOK /\ c \in DOMAIN hdr
  BY <1>1 DEF Inv, Claims, Items
<1>3. /\ DOMAIN hdr' = DOMAIN hdr
      /\ \A b \in DOMAIN hdr : /\ hdr'[b].next = hdr[b].next
                               /\ b # c => hdr'[b] = hdr[b]
      /\ ~ hdr'[c].used
  <2>1. ~ hdr'[c].used
    BY <1>2 DEF Found
  <2>2. QED
    BY <1>2, <2>1, FoundHeaders
<1>4. Reached' = Reached
  BY <1>3 DEF Reached
<1>5. \A q \in Proc \ {p} : pc[q] \notin Critical
  BY <1>1, OneWalks DEF Critical
<1>6. \A q \in Proc \ {p} : pc'[q] \notin {"search", "find", "coalesce"}
  BY <1>1, <1>5 DEF Critical
<1>7. pc'[p] = "coalesce" /\ cur'[p] = Base
  BY <1>1, <1>2 DEF TypeOK
<1>8. Base \in Reached /\ Base # NULL /\ \A a \in Reached : Base <= a
  BY <1>2, BaseReached DEF ListInv, Rooted
<1>9. Rooted' /\ OnList' /\ Searched' /\ Sought' /\ Merged'
  BY <1>3, <1>4, <1>6, <1>7, <1>8
  DEF ListInv, Rooted, OnList, Searched, Sought, Merged
<1>10. UsedIsClaimed'
  <2>1. \A q \in Proc \ {p} : Items(q)' = Items(q)
    BY <1>1 DEF Items, Held, Inv, TypeOK
  <2>2. Items(p) = {b.addr - HDR : b \in live[p]} \union {c}
    BY <1>1 DEF Items, Held
  <2>3. Items(p)' = {b.addr - HDR : b \in live[p]}
    BY <1>1, <1>7 DEF Items, Held
  <2>4. ASSUME NEW a \in Reached, hdr'[a].used
        PROVE  \E q \in Proc : a \in Items(q)'
    <3>1. a # c /\ hdr[a].used
      BY <1>3, <2>4 DEF Reached
    <3>2. PICK q \in Proc : a \in Items(q)
      BY <3>1 DEF ListInv, UsedIsClaimed
    <3>3. a \in Items(q)'
      BY <2>1, <2>2, <2>3, <3>1, <3>2
    <3>4. QED
      BY <3>3
  <2>5. QED
    BY <1>4, <2>4 DEF UsedIsClaimed
<1>11. QED
  BY <1>9, <1>10 DEF ListInv

\* mm_kfree merges: the item swallowed is off the list, and the item before the
\* one that grew was in use, as it was passed.
LEMMA MergeList ==
  ASSUME Inv, ListInv, NEW p \in Proc, Merge(p)
  PROVE  ListInv'
<1> DEFINE a == cur[p]
           n == hdr[a].next
<1>1. /\ pc[p] = "coalesce" /\ a # NULL /\ n # NULL
      /\ ~ hdr[a].used /\ ~ hdr[n].used
      /\ hdr' = Drop([hdr EXCEPT ![a] = Joined(a, n)], n)
      /\ UNCHANGED <<heapTop, lock, pc, arg, cur, live, fault>>
  BY DEF Merge, At, CanMerge, Free
<1>2. a \in Reached /\ a \in DOMAIN hdr
  BY <1>1 DEF ListInv, OnList, Reached
<1>3. /\ n \in DOMAIN hdr /\ a < n
      /\ \A b \in DOMAIN hdr : b <= a \/ n <= b
  BY <1>1, <1>2 DEF Inv, Chained
<1>4. \A b \in DOMAIN hdr : b \in Nat
  BY HeapExists
<1>5. cur' = cur /\ cur[p] = a
  BY <1>1
<1>6. hdr[a].next = n
  OBVIOUS
<1> HIDE DEF a, n
<1>7. /\ DOMAIN hdr' = DOMAIN hdr \ {n}
      /\ hdr'[a] = Joined(a, n)
      /\ \A b \in DOMAIN hdr \ {a, n} : hdr'[b] = hdr[b]
  <2>1. n # a /\ TypeOK
    BY <1>2, <1>3, <1>4 DEF Inv
  <2>2. hdr' = Drop([hdr EXCEPT ![a] = Joined(a, n)], n)
    BY <1>1
  <2>3. QED
    BY <1>2, <1>3, <2>1, <2>2, MergeHeaders
<1>8. hdr'[a].next = hdr[n].next /\ ~ hdr'[a].used
  BY <1>7 DEF Joined
<1>9. Reached' = Reached \ {n}
  <2>1. ASSUME NEW b \in Reached'
        PROVE  b \in Reached \ {n}
    <3>1. b \in DOMAIN hdr /\ b # n
      BY <1>7 DEF Reached
    <3>2. ASSUME NEW c \in DOMAIN hdr, c < b
          PROVE  hdr[c].next # NULL
      <4>1. CASE c = a
        BY <1>1, <1>6, <4>1
      <4>2. CASE c = n
        <5>1. a \in DOMAIN hdr' /\ a < b
          BY <1>2, <1>3, <1>4, <1>7, <3>1, <3>2, <4>2
        <5>2. hdr'[a].next # NULL
          BY <5>1 DEF Reached
        <5>3. QED
          BY <1>8, <4>2, <5>2
      <4>3. CASE c # a /\ c # n
        BY <1>7, <3>2, <4>3 DEF Reached
      <4>4. QED
        BY <4>1, <4>2, <4>3
    <3>3. QED
      BY <3>1, <3>2 DEF Reached
  <2>2. ASSUME NEW b \in Reached, b # n
        PROVE  b \in Reached'
    <3>1. b \in DOMAIN hdr' /\ b \in DOMAIN hdr
      BY <1>7, <2>2 DEF Reached
    <3>2. ASSUME NEW c \in DOMAIN hdr', c < b
          PROVE  hdr'[c].next # NULL
      <4>1. CASE c = a
        <5>1. n < b
          BY <1>2, <1>3, <1>4, <2>2, <3>1, <3>2, <4>1
        <5>2. hdr[n].next # NULL
          BY <1>3, <5>1 DEF Reached
        <5>3. QED
          BY <1>8, <4>1, <5>2
      <4>2. CASE c # a
        BY <1>7, <3>2, <4>2 DEF Reached
      <4>3. QED
        BY <4>1, <4>2
    <3>3. QED
      BY <3>1, <3>2 DEF Reached
  <2>3. QED
    BY <2>1, <2>2
<1>10. \A q \in Proc \ {p} : pc[q] \notin {"search", "find", "coalesce"}
  BY <1>1, OneWalks DEF Critical
<1>11. a # n
  BY <1>2, <1>3, <1>4
<1>12. Rooted'
  <2>1. Base \in DOMAIN hdr /\ Base <= a /\ Base \in Nat
    BY <1>2, HeapAssumption DEF ListInv, Rooted, Inv, Layout
  <2>2. QED
    BY <1>2, <1>3, <1>4, <1>7, <2>1 DEF Rooted
<1>13. OnList' /\ Searched' /\ Sought'
  BY <1>1, <1>2, <1>5, <1>9, <1>10, <1>11 DEF OnList, Searched, Sought
<1>14. Merged'
  <2> SUFFICES ASSUME NEW x \in Reached', CanMerge(x)', x < a
               PROVE  FALSE
    <3>1. \A x \in Reached' : x < a \/ a <= x
      BY <1>2, <1>4, <1>9 DEF Reached
    <3>2. QED
      BY <1>1, <1>5, <3>1 DEF Merged
  <2>1. x \in Reached /\ x \in DOMAIN hdr \ {a, n} /\ hdr'[x] = hdr[x]
    BY <1>2, <1>4, <1>7, <1>9 DEF Reached
  <2> DEFINE y == hdr[x].next
  <2>2. ~ hdr[x].used /\ y # NULL /\ ~ hdr'[y].used
    BY <2>1 DEF CanMerge, Free
  <2>3. y \in DOMAIN hdr /\ y <= a
    BY <1>2, <1>4, <2>1, <2>2 DEF Inv, Chained
  <2>4. ~ hdr[y].used
    BY <1>1, <1>3, <1>4, <1>7, <2>2, <2>3 DEF a, n
  <2>5. CanMerge(x)
    BY <2>2, <2>4 DEF CanMerge, Free
  <2>6. cur[p] <= x
    BY <1>10, <2>1, <2>5 DEF ListInv, Merged
  <2>7. QED
    BY <1>2, <1>4, <1>5, <2>1, <2>6
<1>15. UsedIsClaimed'
  <2>1. \A q \in Proc : Items(q)' = Items(q)
    BY <1>1 DEF Items, Held
  <2>2. ASSUME NEW x \in Reached', hdr'[x].used
        PROVE  x \in Reached /\ hdr[x].used
    BY <1>7, <1>8, <1>9, <2>2 DEF Reached
  <2>3. QED
    BY <2>1, <2>2 DEF ListInv, UsedIsClaimed
<1>16. QED
  BY <1>12, <1>13, <1>14, <1>15 DEF ListInv

\* mm_kmalloc cuts room at a: whatever is newly on the list is the used item a
\* and the free one behind it, which no free item follows.
LEMMA CutList ==
  ASSUME Inv, ListInv, NEW p \in Proc, NEW a \in Nat \ {0}, NEW rest \in Nat,
         NEW next \in Nat,
         pc[p] = "search",
         pc' = [pc EXCEPT ![p] = "mallocked"],
         cur' = [cur EXCEPT ![p] = a],
         UNCHANGED <<lock, arg, live>>,
         hdr' = Cut(hdr, a, arg[p], rest, next),
         a \in DOMAIN hdr => ~ hdr[a].used,
         a + Total(arg[p]) \notin DOMAIN hdr,
         Reached' \subseteq Reached \union {a, a + Total(arg[p])},
         next # NULL => next \in DOMAIN hdr /\ a < next /\ hdr[next].used,
         Base \in DOMAIN hdr \union {a}
  PROVE  ListInv'
<1> DEFINE s == arg[p]
           t == a + Total(s)
<1>1. TypeOK /\ s \in Sizes /\ s \in Nat /\ Sizes \subseteq Nat
  BY HeapAssumption DEF Inv, Walking
<1>2. Total(s) \in Nat /\ s + HDR <= Total(s) /\ HDR \in Nat \ {0}
  BY <1>1, TotalType, TotalHolds, HeapAssumption DEF Inv
<1>3. /\ DOMAIN hdr' = DOMAIN hdr \union {a, t}
      /\ hdr'[a].used /\ hdr'[a].next = t
      /\ hdr'[t].next = next /\ ~ hdr'[t].used
      /\ \A b \in DOMAIN hdr \ {a, t} : hdr'[b] = hdr[b]
  <2>1. Total(s) > 0
    BY <1>1, TotalHolds DEF Inv
  <2>2. hdr' = Cut(hdr, a, s, rest, next)
    OBVIOUS
  <2> HIDE DEF s
  <2>3. /\ DOMAIN hdr' = DOMAIN hdr \union {a, a + Total(s)}
        /\ hdr'[a] = [next |-> a + Total(s), size |-> s, used |-> TRUE]
        /\ hdr'[a + Total(s)] = [next |-> next, size |-> rest, used |-> FALSE]
        /\ \A b \in DOMAIN hdr \ {a, a + Total(s)} : hdr'[b] = hdr[b]
    BY <1>1, <2>1, <2>2, CutHeaders
  <2>4. t = a + Total(s)
    BY DEF t
  <2> HIDE DEF t
  <2>5. QED
    BY <2>3, <2>4
<1>4. t \notin DOMAIN hdr /\ Reached' \subseteq Reached \union {a, t}
  OBVIOUS
<1> HIDE DEF t, s
<1>5. \A q \in Proc \ {p} : pc[q] \notin {"search", "find", "coalesce", "mallocked"}
  BY OneWalks DEF Critical
<1>6. /\ \A q \in Proc : pc'[q] \notin {"search", "find", "coalesce"}
      /\ pc'[p] = "mallocked" /\ cur'[p] = a
      /\ \A q \in Proc \ {p} : pc'[q] = pc[q] /\ cur'[q] = cur[q]
  BY <1>1, <1>5 DEF TypeOK
<1>7. OnList' /\ Searched' /\ Sought' /\ Rooted'
  BY <1>3, <1>6 DEF OnList, Searched, Sought, Rooted
<1>8. \A b \in Reached : ~ CanMerge(b)
  BY <1>5 DEF ListInv, Merged
<1>9. Merged'
  <2> SUFFICES ASSUME NEW x \in Reached', CanMerge(x)' PROVE FALSE
    BY DEF Merged
  <2>1. /\ ~ hdr'[x].used /\ hdr'[x].next # NULL
        /\ ~ hdr'[hdr'[x].next].used
    BY DEF CanMerge, Free
  <2>2. x # a
    BY <1>3, <2>1
  <2>3. x # t
    BY <1>3, <1>4, <2>1
  <2>4. x \in Reached /\ x \in DOMAIN hdr /\ hdr'[x] = hdr[x]
    BY <1>3, <1>4, <2>2, <2>3 DEF Reached
  <2>5. hdr[x].next \in DOMAIN hdr /\ hdr[x].next # a
    BY <1>3, <2>1, <2>4 DEF Inv, Chained
  <2>6. ~ hdr[hdr[x].next].used
    BY <1>3, <1>4, <2>1, <2>4, <2>5
  <2>7. QED
    BY <1>8, <2>1, <2>4, <2>6 DEF CanMerge, Free
<1>10. UsedIsClaimed'
  <2>1. \A q \in Proc \ {p} : Items(q)' = Items(q)
    BY <1>6 DEF Items, Held
  <2>2. Items(p) = {b.addr - HDR : b \in live[p]}
    BY DEF Items, Held
  <2> DEFINE B == [addr |-> a + HDR, size |-> arg[p]]
  <2>3. Held(p)' = live[p] \union {B}
    BY <1>6 DEF Held
  <2>4. Items(p)' = {b.addr - HDR : b \in live[p] \union {B}}
    BY <1>6, <2>3 DEF Items
  <2>5. B.addr - HDR = a
    BY <1>2
  <2> HIDE DEF B
  <2>6. Items(p)' = Items(p) \union {a}
    BY <2>2, <2>4, <2>5
  <2>7. ASSUME NEW x \in Reached', hdr'[x].used, x # a
        PROVE  x \in Reached /\ hdr[x].used
    BY <1>3, <1>4, <2>7 DEF Reached
  <2>8. QED
    BY <2>1, <2>6, <2>7 DEF ListInv, UsedIsClaimed
<1>11. QED
  BY <1>7, <1>9, <1>10 DEF ListInv

\* mm_kmalloc cuts an item: the rest is on the list behind it.
LEMMA SplitList ==
  ASSUME Inv, ListInv, NEW p \in Proc, Split(p)
  PROVE  ListInv'
<1> DEFINE a == cur[p]
           s == arg[p]
           t == a + Total(s)
           rest == hdr[a].size - Total(s)
           next == hdr[a].next
<1>1. /\ pc[p] = "search" /\ a # NULL
      /\ ~ hdr[a].used /\ Total(s) <= hdr[a].size
      /\ hdr' = Cut(hdr, a, s, rest, next)
      /\ pc' = [pc EXCEPT ![p] = "mallocked"]
      /\ cur' = [cur EXCEPT ![p] = a]
      /\ UNCHANGED <<lock, arg, live>>
  BY DEF Split, At, GoTo, Fits, Free, Inv, TypeOK
<1>2. a \in Reached /\ a \in DOMAIN hdr /\ TypeOK
  BY <1>1 DEF ListInv, OnList, Reached, Inv
<1>3. s \in Sizes /\ s \in Nat
  BY <1>1, HeapAssumption DEF Inv, Walking
<1>4. /\ a \in Nat \ {0} /\ next \in Nat /\ hdr[a].size \in Nat
      /\ \A b \in DOMAIN hdr : b \in Nat
  BY <1>2, HeapExists
<1>5. Total(s) \in Nat /\ rest \in Nat /\ s + HDR <= Total(s) /\ HDR \in Nat \ {0}
  BY <1>1, <1>3, <1>4, TotalType, TotalHolds, HeapAssumption DEF Inv
<1>6. \A b \in DOMAIN hdr : b <= a \/ t < b
  <2>1. \A b \in DOMAIN hdr : a < b => a + HDR + hdr[a].size <= b
    BY <1>2 DEF Inv, Layout
  <2>2. t < a + HDR + hdr[a].size
    BY <1>1, <1>4, <1>5
  <2> HIDE DEF t, a
  <2>3. a \in Nat /\ t \in Nat /\ a + HDR + hdr[a].size \in Nat
    BY <1>4, <1>5 DEF t
  <2>4. QED
    BY <1>4, <2>1, <2>2, <2>3
<1>7. t \notin DOMAIN hdr /\ a < t /\ Total(s) > 0
  BY <1>3, <1>4, <1>5, <1>6
<1>8. /\ DOMAIN hdr' = DOMAIN hdr \union {a, t}
      /\ hdr'[t].next = next
      /\ \A b \in DOMAIN hdr \ {a, t} : hdr'[b] = hdr[b]
  <2>1. hdr' = Cut(hdr, a, s, rest, next)
    BY <1>1
  <2> HIDE DEF s, rest, next, a
  <2>2. a \in Nat \ {0} /\ next \in Nat /\ rest \in Nat /\ TypeOK
    BY <1>2, <1>4, <1>5
  <2>3. /\ DOMAIN hdr' = DOMAIN hdr \union {a, a + Total(s)}
        /\ hdr'[a] = [next |-> a + Total(s), size |-> s, used |-> TRUE]
        /\ hdr'[a + Total(s)] = [next |-> next, size |-> rest, used |-> FALSE]
        /\ \A b \in DOMAIN hdr \ {a, a + Total(s)} : hdr'[b] = hdr[b]
    BY <1>3, <1>7, <2>1, <2>2, CutHeaders
  <2>4. t = a + Total(s)
    BY DEF t
  <2> HIDE DEF t
  <2>5. QED
    BY <2>3, <2>4
<1>9. Reached' \subseteq Reached \union {a, t}
  <2> SUFFICES ASSUME NEW b \in Reached', b # a, b # t PROVE b \in Reached
    OBVIOUS
  <2>1. b \in DOMAIN hdr
    BY <1>8 DEF Reached
  <2>2. ASSUME NEW c \in DOMAIN hdr, c < b
        PROVE  hdr[c].next # NULL
    <3>1. CASE c = a
      <4>1. t \in DOMAIN hdr' /\ t < b
        BY <1>4, <1>6, <1>8, <2>1, <2>2, <3>1
      <4>2. hdr'[t].next # NULL
        BY <4>1 DEF Reached
      <4>3. QED
        BY <1>8, <3>1, <4>2
    <3>2. CASE c # a
      BY <1>7, <1>8, <2>2, <3>2 DEF Reached
    <3>3. QED
      BY <3>1, <3>2
  <2>3. QED
    BY <2>1, <2>2 DEF Reached
<1>10. ~ CanMerge(a)
  <2>1. \A q \in Proc : pc[q] # "coalesce"
    BY <1>1, OneWalks DEF Critical
  <2>2. QED
    BY <1>2, <2>1 DEF ListInv, Merged
<1>11. next # NULL => next \in DOMAIN hdr /\ a < next /\ hdr[next].used
  BY <1>1, <1>2, <1>10 DEF Inv, Chained, CanMerge, Free
<1>12. Base \in DOMAIN hdr
  BY <1>2 DEF ListInv, Rooted
<1> HIDE DEF a, rest, next
<1>13. QED
  BY <1>1, <1>4, <1>5, <1>7, <1>9, <1>11, <1>12, CutList DEF s, t

\* mm_morecore appends an item, behind the last one of the list.
LEMMA GrowList ==
  ASSUME Inv, ListInv, NEW p \in Proc, MoreCore(p), Grow(p)
  PROVE  ListInv'
<1> DEFINE a == PrevTop
           s == arg[p]
           t == a + Total(s)
           rest == Leftover(s) - HDR
<1>1. /\ pc[p] = "search"
      /\ hdr' = Cut(hdr, a, s, rest, NULL)
      /\ Leftover(s) >= HDR
      /\ pc' = [pc EXCEPT ![p] = "mallocked"]
      /\ cur' = [cur EXCEPT ![p] = a]
      /\ UNCHANGED <<lock, arg, live>>
      /\ fault = "none"
  BY DEF MoreCore, Grow, At, GoTo, Look
<1>2. s \in Sizes /\ s \in Nat /\ heapTop \in Nat /\ Base \in Nat \ {0} /\ TypeOK
  BY <1>1, HeapAssumption DEF Inv, Walking, TypeOK
<1>3. /\ Total(s) \in Nat /\ s + HDR <= Total(s) /\ HDR \in Nat \ {0}
      /\ NewPages(s) * PAGE \in Nat /\ NULL \in Nat
  BY <1>2, TotalType, TotalHolds, HeapAssumption DEF Inv, NULL
<1>4. rest \in Nat
  BY <1>1, <1>3 DEF Leftover
<1>5. a \in Nat \ {0} /\ heapTop <= a
  BY <1>2 DEF PrevTop, NULL
<1>6. \A b \in DOMAIN hdr : b \in Nat /\ b < a
  BY <1>2, <1>3, <1>5, HeapExists DEF Inv, Layout
<1>7. Base \in DOMAIN hdr \union {a}
  BY <1>1 DEF PrevTop, Inv, Walking
<1> HIDE DEF a, rest
<1>8. a \notin DOMAIN hdr /\ t \notin DOMAIN hdr /\ Total(s) > 0
  BY <1>2, <1>3, <1>5, <1>6
<1>9. /\ DOMAIN hdr' = DOMAIN hdr \union {a, t}
      /\ \A b \in DOMAIN hdr \ {a, t} : hdr'[b] = hdr[b]
  <2>1. hdr' = Cut(hdr, a, s, rest, NULL)
    BY <1>1
  <2> HIDE DEF s
  <2>2. QED
    BY <1>2, <1>3, <1>4, <1>5, <1>8, <2>1, CutHeaders
<1>10. Reached' \subseteq Reached \union {a, t}
  BY <1>8, <1>9 DEF Reached
<1>11. QED
  BY <1>1, <1>3, <1>4, <1>5, <1>7, <1>8, <1>10, CutList DEF s, t

-------------------------------------------------------------------------------
\* What the list looks like is kept by every step.
LEMMA ListInit == SizesFit /\ Init => Inv /\ ListInv
<1> SUFFICES ASSUME SizesFit, Init PROVE Inv /\ ListInv
  OBVIOUS
<1>1. Inv
  BY InitInv
<1>2. Reached = {} /\ DOMAIN hdr = {}
  BY DEF Init, Reached
<1>3. ListInv
  BY <1>2
  DEF Init, ListInv, Rooted, OnList, Searched, Sought, Merged, UsedIsClaimed, Passed
<1>4. QED
  BY <1>1, <1>3

\* One case for each action.
LEMMA ListNext == Inv /\ ListInv /\ [Next]_vars => ListInv'
<1> SUFFICES ASSUME Inv, ListInv, [Next]_vars PROVE ListInv'
  OBVIOUS
<1>1. ASSUME NEW p \in Proc, Search(p) \/ Find(p) \/ Advance(p)
      PROVE  ListInv'
  BY <1>1, WalkList
<1>2. ASSUME NEW p \in Proc,
             \/ \E s \in Sizes : CallMalloc(p, s)
             \/ \E b \in live[p] : CallFree(p, b)
             \/ UnlockMalloc(p) \/ LockMalloc(p) \/ LockFree(p)
             \/ MoreCore(p) /\ ~ Grow(p)
             \/ NotFound(p) \/ Coalesced(p) \/ UnlockFree(p)
      PROVE  ListInv'
  BY <1>2, CallsList
<1>3. ASSUME NEW p \in Proc, Found(p)
      PROVE  ListInv'
  BY <1>3, FoundList
<1>4. ASSUME NEW p \in Proc, Merge(p)
      PROVE  ListInv'
  BY <1>4, MergeList
<1>5. ASSUME NEW p \in Proc, Split(p)
      PROVE  ListInv'
  BY <1>5, SplitList
<1>6. ASSUME NEW p \in Proc, MoreCore(p), Grow(p)
      PROVE  ListInv'
  BY <1>6, GrowList
<1>7. CASE UNCHANGED vars
  <2>1. Reached' = Reached
    BY <1>7 DEF vars, Reached
  <2>2. \A p \in Proc : Items(p)' = Items(p) /\ Passed(p)' = Passed(p)
    BY <1>7, <2>1 DEF vars, Items, Held, Passed
  <2>3. Rooted' /\ OnList' /\ Searched' /\ Sought'
    BY <1>7, <2>1, <2>2 DEF vars, ListInv, Rooted, OnList, Searched, Sought, Fits, Free
  <2>4. Merged' /\ UsedIsClaimed'
    BY <1>7, <2>1, <2>2 DEF vars, ListInv, Merged, UsedIsClaimed, CanMerge, Free
  <2>5. QED
    BY <2>3, <2>4 DEF ListInv
<1>8. QED
  BY <1>1, <1>2, <1>3, <1>4, <1>5, <1>6, <1>7 DEF Next, Step, Halted

\* Every state of the list satisfies the invariant.
LEMMA ListInvariance == SizesFit /\ Spec => [](Inv /\ ListInv)
<1>1. Inv /\ ListInv /\ [Next]_vars => (Inv /\ ListInv)'
  BY NextInv, ListNext
<1>2. QED
  BY <1>1, ListInit, PTL DEF Spec

\* When nobody is inside the heap, no two neighbours on the list are both free:
\* the second walk of mm_kfree leaves none behind.
LEMMA Coalesces == Inv /\ ListInv => NeighboursCoalesced
<1> SUFFICES ASSUME Inv, ListInv, lock = NoProc, NEW a \in Linked, CanMerge(a)
             PROVE  FALSE
  BY DEF NeighboursCoalesced
<1>1. a \in Reached
  BY LinkedIsReached DEF ListInv
<1>2. PICK p \in Proc : pc[p] = "coalesce"
  BY <1>1 DEF ListInv, Merged
<1>3. lock = p
  BY <1>2 DEF Inv, LockInv, Critical
<1>4. QED
  BY <1>3, HeapAssumption

\* mm_kfree leaves no two free neighbours on the list.
THEOREM FreeNeighboursMerged == SizesFit /\ Spec => []NeighboursCoalesced
<1>1. QED
  BY Coalesces, ListInvariance, PTL

\* An item on the list is in use exactly when a context holds its block or is
\* waiting to give it back.
LEMMA UsedIsHeld == Inv /\ ListInv => LinkedUsedIsHeld
<1> SUFFICES ASSUME Inv, ListInv, lock = NoProc, NEW a \in Linked
             PROVE  ~ Free(a) <=> \E p \in Proc :
                                    \/ \E b \in live[p] : b.addr = a + HDR
                                    \/ pc[p] = "free" /\ arg[p] = a + HDR
  BY DEF LinkedUsedIsHeld
<1>1. a \in Reached /\ a \in DOMAIN hdr /\ a \in Nat /\ HDR \in Nat
  BY LinkedIsReached, HeapExists, HeapAssumption DEF ListInv, Reached
<1>2. \A p \in Proc : pc[p] \notin Critical
  BY HeapAssumption DEF Inv, LockInv
<1>3. \A p \in Proc :
        Items(p) = {b.addr - HDR : b \in live[p]} \union
                   IF pc[p] = "free" THEN {arg[p] - HDR} ELSE {}
  BY <1>2 DEF Items, Held, Critical
<1>4. \A p \in Proc : arg[p] \in Nat /\ \A b \in live[p] : b.addr \in Nat
  BY DEF Inv, TypeOK, Block
<1>5. ASSUME NEW p \in Proc
      PROVE  a \in Items(p) <=> \/ \E b \in live[p] : b.addr = a + HDR
                                \/ pc[p] = "free" /\ arg[p] = a + HDR
  <2>1. \A x \in Nat : x - HDR = a <=> x = a + HDR
    BY <1>1
  <2>2. QED
    BY <1>3, <1>4, <2>1
<1>6. hdr[a].used <=> \E p \in Proc : a \in Items(p)
  BY <1>1 DEF ListInv, UsedIsClaimed, Inv, Claims
<1>7. QED
  BY <1>5, <1>6 DEF Free

\* A block that was freed is free on the list, and no item on it is leaked.
THEOREM UsedItemsAreHeld == SizesFit /\ Spec => []LinkedUsedIsHeld
<1>1. QED
  BY UsedIsHeld, ListInvariance, PTL

\* First fit: mm_morecore is called only when every item on the list has been
\* passed, and no free one could have held the request.
THEOREM GrowsWhenFull == SizesFit /\ Spec => GrowsOnlyWhenFull
<1>1. ASSUME Inv, ListInv, [Next]_vars, heapTop' # heapTop, NEW p \in Proc, lock = p,
             NEW a \in Linked, Free(a)
      PROVE  hdr[a].size < Total(arg[p])
  <2>1. PICK q \in Proc : MoreCore(q)
    BY <1>1
    DEF Next, Step, Halted, vars, CallMalloc, CallFree, LockMalloc, Search, Split,
        UnlockMalloc, LockFree, Find, NotFound, Found, Merge, Advance, Coalesced,
        UnlockFree
  <2>2. pc[q] = "search" /\ cur[q] = NULL
    BY <2>1 DEF MoreCore, At
  <2>3. q = p
    BY <1>1, <2>2 DEF Inv, LockInv, Critical
  <2>4. a \in Reached
    BY <1>1, LinkedIsReached DEF ListInv
  <2>5. ~ Fits(a, arg[p])
    BY <1>1, <2>2, <2>3, <2>4 DEF ListInv, Searched, Passed
  <2>6. hdr[a].size \in Nat
    BY <1>1, <2>4, HeapExists DEF Reached
  <2>7. Total(arg[p]) \in Nat
    BY <1>1, TotalType DEF Inv, TypeOK
  <2>8. QED
    BY <1>1, <2>5, <2>6, <2>7 DEF Fits
<1>2. Inv /\ ListInv /\ [Next]_vars =>
        [heapTop' # heapTop /\ heapTop # NULL =>
           \A p \in Proc : lock = p =>
             \A a \in Linked : Free(a) => hdr[a].size < Total(arg[p])]_vars
  BY <1>1
<1>3. QED
  BY <1>2, ListInvariance, PTL DEF Spec, GrowsOnlyWhenFull

-------------------------------------------------------------------------------
(***************************************************************************)
(* The whole heap.  Where no size needs rounding, the items fill the heap  *)
(* as long as mm_morecore has been called once: the item that a second     *)
(* call makes is not linked, so no merge ever reaches it.                  *)
(***************************************************************************)
NoRounding == \A s \in Sizes : RoundUp(s) = s

\* Every item ends where the next one begins, and the last at the top.
Gapless ==
  \A a \in DOMAIN hdr :
    a + HDR + hdr[a].size = IF hdr[a].next = NULL THEN heapTop ELSE hdr[a].next

\* The heap has the pages of a request at least, and whole pages.
Once ==
  heapTop # NULL =>
    \E s \in Sizes, k \in Nat : heapTop = Base + (NewPages(s) + k) * PAGE

WholeInv == NoRounding /\ Once /\ (OneGrowth => Gapless)

\* The kernel stops inside mm_morecore only, with the lock held.
StopsInside == fault # "none" => lock # NoProc

\* Without rounding, what is taken for a request is its size and a header.
LEMMA TotalExact ==
  ASSUME SizesFit, NoRounding, NEW s \in Sizes
  PROVE  Total(s) = s + HDR /\ s \in Nat
<1>1. s \in Nat /\ HDR \in Nat \ {0} /\ Word \in Nat \ {0} /\ ALIGN \in Nat \ {0}
      /\ s + ALIGN + HDR <= Word
  BY HeapAssumption DEF SizesFit
<1>2. (s + HDR) % Word = s + HDR
  BY <1>1
<1>3. QED
  BY <1>1, <1>2 DEF Total, NoRounding

\* A growth that leaves the heap with too few pages for two is the first one.
LEMMA FirstGrowth ==
  ASSUME Inv, WholeInv, NEW s \in Sizes,
         heapTop' = PrevTop + NewPages(s) * PAGE
  PROVE  /\ Once'
         /\ OneGrowth' => heapTop = NULL /\ PrevTop = Base /\ DOMAIN hdr = {}
<1>1. s \in Nat /\ PAGE \in Nat \ {0} /\ Base \in Nat \ {0} /\ NewPages(s) \in Nat
  BY HeapAssumption, TotalType DEF NewPages
<1>2. CASE heapTop = NULL
  <2>1. PrevTop = Base /\ DOMAIN hdr = {}
    BY <1>2, HeapExists DEF PrevTop
  <2>2. heapTop' = Base + (NewPages(s) + 0) * PAGE
    BY <1>1, <2>1
  <2>3. QED
    BY <1>2, <2>1, <2>2 DEF Once
<1>3. CASE heapTop # NULL
  <2>1. PICK t \in Sizes, k \in Nat : heapTop = Base + (NewPages(t) + k) * PAGE
    BY <1>3 DEF WholeInv, Once
  <2>2. t \in Nat /\ NewPages(t) \in Nat
    BY HeapAssumption, TotalType DEF NewPages
  <2>3. PICK j \in Nat : j = k + NewPages(s)
    BY <1>1
  <2>4. heapTop' = Base + (NewPages(t) + j) * PAGE
    <3>1. /\ (NewPages(t) + j) * PAGE = (NewPages(t) + k) * PAGE + NewPages(s) * PAGE
          /\ (NewPages(t) + k) * PAGE \in Nat /\ NewPages(s) * PAGE \in Nat
      BY <1>1, <2>2, <2>3
    <3>2. PrevTop = heapTop
      BY <1>3 DEF PrevTop
    <3>3. QED
      BY <1>1, <2>1, <3>1, <3>2
  <2>5. heapTop' # NULL
    <3>1. (NewPages(t) + j) * PAGE \in Nat
      BY <1>1, <2>2
    <3>2. QED
      BY <1>1, <2>4, <3>1 DEF NULL
  <2>6. PrevTop' = heapTop'
    BY <2>5 DEF PrevTop
  <2>7. Mapped' = NewPages(t) + j
    <3>1. ASSUME NEW n, n = NewPages(t) + j, NEW x, x = Base + n * PAGE
          PROVE  (x - Base) \div PAGE = n
      <4>1. n \in Nat
        BY <2>2, <3>1
      <4>2. n * PAGE \in Nat /\ (n * PAGE) \div PAGE = n
        BY <1>1, <4>1
      <4>3. x - Base = n * PAGE
        BY <1>1, <3>1, <4>2
      <4>4. QED
        BY <4>2, <4>3
    <3>2. QED
      BY <2>4, <2>6, <3>1 DEF Mapped
  <2>8. ~ OneGrowth'
    <3>1. ~ (NewPages(t) + NewPages(s) > NewPages(t) + j)
      BY <1>1, <2>2, <2>3
    <3>2. QED
      BY <2>7, <3>1 DEF OneGrowth
  <2>9. QED
    BY <2>4, <2>8 DEF Once
<1>4. QED
  BY <1>2, <1>3

\* There is no item and no page at the start.
LEMMA WholeInit == NoRounding /\ Init => WholeInv
BY DEF Init, WholeInv, Gapless, Once

\* mm_morecore leaves no gap the first time: the last item ends at the new top.
LEMMA WholeMoreCore ==
  ASSUME Inv, WholeInv, NEW p \in Proc, MoreCore(p)
  PROVE  WholeInv'
<1>1. pc[p] = "search" /\ arg[p] \in Sizes /\ arg[p] \in Nat /\ TypeOK
  BY HeapAssumption DEF MoreCore, At, Inv, Walking
<1>2. CASE NoMemory(p)
  BY <1>2 DEF NoMemory, WholeInv, NoRounding, OneGrowth, Mapped, PrevTop, Gapless, Once
<1>3. CASE Overrun(p) \/ Grow(p)
  <2>1. heapTop' = PrevTop + NewPages(arg[p]) * PAGE
    BY <1>3 DEF Overrun, Grow
  <2>2. Once'
    BY <1>1, <2>1, FirstGrowth
  <2>3. ASSUME OneGrowth' PROVE Gapless'
    <3>1. PrevTop = Base /\ DOMAIN hdr = {}
      BY <1>1, <2>1, <2>3, FirstGrowth
    <3>2. CASE Overrun(p)
      BY <3>1, <3>2 DEF Overrun, Gapless
    <3>3. CASE Grow(p)
      <4> DEFINE s == arg[p]
                 rest == Leftover(s) - HDR
                 t == Base + Total(s)
      <4>1. /\ hdr' = Cut(hdr, Base, s, rest, NULL) /\ Leftover(s) >= HDR
        BY <3>1, <3>3 DEF Grow
      <4>2. /\ Total(s) \in Nat /\ Total(s) = s + HDR /\ NewPages(s) * PAGE \in Nat
            /\ HDR \in Nat \ {0} /\ Base \in Nat \ {0} /\ NULL \in Nat
        BY <1>1, TotalType, TotalExact, HeapAssumption DEF Inv, WholeInv, NULL
      <4>3. rest \in Nat
        BY <4>1, <4>2 DEF Leftover
      <4>4. Total(s) > 0 /\ s \in Nat
        BY <1>1, <4>2
      <4>5. t + HDR + rest = heapTop'
        BY <2>1, <3>1, <4>2 DEF Leftover
      <4> HIDE DEF rest, s
      <4>6. /\ DOMAIN hdr' = DOMAIN hdr \union {Base, Base + Total(s)}
            /\ hdr'[Base] = [next |-> Base + Total(s), size |-> s, used |-> TRUE]
            /\ hdr'[Base + Total(s)] = [next |-> NULL, size |-> rest, used |-> FALSE]
        <5>1. TypeOK /\ Base \in Nat \ {0} /\ NULL \in Nat
          BY <1>1, <4>2
        <5>2. hdr' = Cut(hdr, Base, s, rest, NULL)
          BY <4>1
        <5> HIDE DEF WholeInv, Inv
        <5>3. QED
          BY <4>3, <4>4, <5>1, <5>2, CutHeaders
      <4>7. Base + HDR + s = t /\ t # NULL
        BY <4>2, <4>4 DEF NULL
      <4>8. QED
        BY <3>1, <4>5, <4>6, <4>7 DEF Gapless
    <3>4. QED
      BY <1>3, <3>2, <3>3
  <2>4. QED
    BY <2>2, <2>3 DEF WholeInv, NoRounding
<1>4. QED
  BY <1>2, <1>3 DEF MoreCore

\* A cut leaves no words out.
LEMMA WholeSplit ==
  ASSUME Inv, NoRounding, Gapless, NEW p \in Proc, Split(p)
  PROVE  Gapless'
<1> DEFINE a == cur[p]
           s == arg[p]
           t == a + Total(s)
           rest == hdr[a].size - Total(s)
           next == hdr[a].next
<1>1. /\ pc[p] = "search" /\ a # NULL /\ Total(s) <= hdr[a].size
      /\ hdr' = Cut(hdr, a, s, rest, next) /\ heapTop' = heapTop
  BY DEF Split, At, Fits
<1>2. a \in DOMAIN hdr /\ TypeOK /\ s \in Sizes
  BY <1>1 DEF Inv, Walking
<1>3. /\ a \in Nat \ {0} /\ next \in Nat /\ hdr[a].size \in Nat
      /\ \A b \in DOMAIN hdr : b \in Nat
  BY <1>2, HeapExists
<1>4. s \in Nat /\ Total(s) = s + HDR /\ HDR \in Nat \ {0}
  BY <1>2, TotalExact, HeapAssumption DEF Inv
<1>5. rest \in Nat /\ Total(s) > 0
  BY <1>1, <1>3, <1>4
<1>6. t \notin DOMAIN hdr
  <2>1. \A b \in DOMAIN hdr : a < b => a + HDR + hdr[a].size <= b
    BY <1>2 DEF Inv, Layout
  <2>2. t < a + HDR + hdr[a].size /\ a < t /\ t \in Nat
    BY <1>1, <1>3, <1>4
  <2>3. a + HDR + hdr[a].size \in Nat
    BY <1>3, <1>4
  <2> HIDE DEF t, a
  <2>4. QED
    BY <1>3, <2>1, <2>2, <2>3
<1>7. a + HDR + s = t /\ t # NULL /\ t + HDR + rest = a + HDR + hdr[a].size
  BY <1>3, <1>4 DEF NULL
<1>8. /\ DOMAIN hdr' = DOMAIN hdr \union {a, t}
      /\ hdr'[a].next = t /\ hdr'[a].size = s
      /\ hdr'[t].next = next /\ hdr'[t].size = rest
      /\ \A b \in DOMAIN hdr \ {a, t} : hdr'[b] = hdr[b]
  <2>1. hdr' = Cut(hdr, a, s, rest, next)
    BY <1>1
  <2>2. a \in Nat \ {0} /\ next \in Nat /\ rest \in Nat
    BY <1>3, <1>5
  <2> HIDE DEF s, rest, next, a
  <2>3. /\ DOMAIN hdr' = DOMAIN hdr \union {a, a + Total(s)}
        /\ hdr'[a] = [next |-> a + Total(s), size |-> s, used |-> TRUE]
        /\ hdr'[a + Total(s)] = [next |-> next, size |-> rest, used |-> FALSE]
        /\ \A b \in DOMAIN hdr \ {a, a + Total(s)} : hdr'[b] = hdr[b]
    BY <1>2, <1>4, <1>5, <2>1, <2>2, CutHeaders
  <2>4. t = a + Total(s)
    BY DEF t
  <2> HIDE DEF t
  <2>5. QED
    BY <2>3, <2>4
<1>9. a + HDR + hdr[a].size = IF next = NULL THEN heapTop ELSE next
  BY <1>2 DEF Gapless
<1>10. \A b \in DOMAIN hdr :
         b + HDR + hdr[b].size = IF hdr[b].next = NULL THEN heapTop ELSE hdr[b].next
  BY DEF Gapless
<1> HIDE DEF a, s, t, rest, next
<1>11. Gapless'
  <2> SUFFICES ASSUME NEW b \in DOMAIN hdr'
               PROVE  b + HDR + hdr'[b].size =
                        IF hdr'[b].next = NULL THEN heapTop ELSE hdr'[b].next
    BY <1>1 DEF Gapless
  <2>1. CASE b = a
    BY <1>7, <1>8, <2>1
  <2>2. CASE b = t
    BY <1>7, <1>8, <1>9, <2>2
  <2>3. CASE b \in DOMAIN hdr \ {a, t}
    BY <1>8, <1>10, <2>3
  <2>4. QED
    BY <1>8, <2>1, <2>2, <2>3
<1>12. QED
  BY <1>11

\* Coalescing leaves no words out.
LEMMA WholeMerge ==
  ASSUME Inv, Gapless, NEW p \in Proc, Merge(p)
  PROVE  Gapless'
<1> DEFINE a == cur[p]
           n == hdr[a].next
<1>1. /\ pc[p] = "coalesce" /\ a # NULL /\ n # NULL
      /\ hdr' = Drop([hdr EXCEPT ![a] = Joined(a, n)], n)
      /\ heapTop' = heapTop
  BY DEF Merge, At, CanMerge
<1>2. a \in DOMAIN hdr /\ TypeOK
  BY <1>1 DEF Inv, Walking
<1>3. n \in DOMAIN hdr /\ a < n
  BY <1>1, <1>2 DEF Inv, Chained
<1>4. \A b \in DOMAIN hdr : b \in Nat /\ hdr[b].size \in Nat
  BY HeapExists
<1>5. \A b \in DOMAIN hdr :
        b + HDR + hdr[b].size = IF hdr[b].next = NULL THEN heapTop ELSE hdr[b].next
  BY DEF Gapless
<1>6. a + HDR + hdr[a].size = n
  BY <1>1, <1>2, <1>5
<1> HIDE DEF a, n
<1>7. n # a
  BY <1>2, <1>3, <1>4
<1>8. /\ DOMAIN hdr' = DOMAIN hdr \ {n}
      /\ hdr'[a] = Joined(a, n)
      /\ \A b \in DOMAIN hdr \ {a, n} : hdr'[b] = hdr[b]
  <2>1. hdr' = Drop([hdr EXCEPT ![a] = Joined(a, n)], n)
    BY <1>1
  <2>2. QED
    BY <1>2, <1>3, <1>7, <2>1, MergeHeaders
<1>9. /\ hdr'[a].next = hdr[n].next
      /\ hdr'[a].size = hdr[a].size + HDR + hdr[n].size
  BY <1>8 DEF Joined
<1>10. a + HDR + hdr'[a].size = n + HDR + hdr[n].size
  BY <1>2, <1>3, <1>4, <1>6, <1>9, HeapAssumption
<1>11. Gapless'
  <2> SUFFICES ASSUME NEW b \in DOMAIN hdr'
               PROVE  b + HDR + hdr'[b].size =
                        IF hdr'[b].next = NULL THEN heapTop ELSE hdr'[b].next
    BY <1>1 DEF Gapless
  <2>1. CASE b = a
    BY <1>3, <1>5, <1>9, <1>10, <2>1
  <2>2. CASE b # a
    BY <1>5, <1>8, <2>2
  <2>3. QED
    BY <2>1, <2>2
<1>12. QED
  BY <1>11

\* One case for each action.
LEMMA WholeNext == Inv /\ WholeInv /\ [Next]_vars => WholeInv'
<1> SUFFICES ASSUME Inv, WholeInv, [Next]_vars PROVE WholeInv'
  OBVIOUS
<1>1. ASSUME heapTop' = heapTop, Gapless => Gapless'
      PROVE  WholeInv'
  BY <1>1 DEF WholeInv, NoRounding, Once, OneGrowth, Mapped, PrevTop
<1>2. ASSUME NEW p \in Proc, Found(p)
      PROVE  WholeInv'
  <2>1. cur[p] \in DOMAIN hdr /\ TypeOK
    BY <1>2 DEF Found, At, Inv, Claims, Items
  <2>2. /\ DOMAIN hdr' = DOMAIN hdr
        /\ \A b \in DOMAIN hdr : /\ hdr'[b].next = hdr[b].next
                                 /\ hdr'[b].size = hdr[b].size
    BY <1>2, <2>1, FoundHeaders
  <2>3. heapTop' = heapTop
    BY <1>2 DEF Found
  <2>4. QED
    BY <1>1, <2>2, <2>3 DEF Gapless
<1>3. ASSUME NEW p \in Proc, Split(p) \/ Merge(p)
      PROVE  WholeInv'
  <2>1. heapTop' = heapTop
    BY <1>3 DEF Split, Merge
  <2>2. Gapless => Gapless'
    BY <1>3, WholeSplit, WholeMerge DEF WholeInv
  <2>3. QED
    BY <1>1, <2>1, <2>2
<1>4. CASE UNCHANGED <<hdr, heapTop>>
  BY <1>1, <1>4 DEF Gapless
<1>5. QED
  BY <1>2, <1>3, <1>4, WholeMoreCore
  DEF Next, Step, Halted, vars, CallMalloc, CallFree, LockMalloc, Search,
      UnlockMalloc, LockFree, Find, NotFound, Advance, Coalesced, UnlockFree

\* One case for each action.
LEMMA StopsNext == Inv /\ StopsInside /\ [Next]_vars => StopsInside'
<1> SUFFICES ASSUME Inv, StopsInside, [Next]_vars PROVE StopsInside'
  OBVIOUS
<1>1. ASSUME NEW p \in Proc, MoreCore(p)
      PROVE  StopsInside'
  <2>1. lock = p /\ lock' = lock
    BY <1>1 DEF MoreCore, At, Inv, LockInv, Critical
  <2>2. QED
    BY <2>1, HeapAssumption DEF StopsInside
<1>2. CASE UNCHANGED vars
  BY <1>2 DEF vars, StopsInside
<1>3. QED
  BY <1>1, <1>2
  DEF Next, Step, Halted, At, StopsInside, CallMalloc, CallFree, LockMalloc, Search,
      Split, UnlockMalloc, LockFree, Find, NotFound, Found, Merge, Advance, Coalesced,
      UnlockFree

\* With nothing held, every item is free; no two free items are neighbours, so
\* there is one.
LEMMA OneItem == Inv /\ ListInv /\ WholeInv /\ StopsInside => WholeAgain
<1> SUFFICES ASSUME Inv, ListInv, WholeInv, StopsInside, heapTop # NULL, OneGrowth,
                    lock = NoProc,
                    \A p \in Proc : live[p] = {} /\ pc[p] # "free"
             PROVE  DOMAIN hdr = {Base} /\ hdr[Base].size = heapTop - Base - HDR
  BY DEF WholeAgain
<1>1. \A p \in Proc : pc[p] \notin Critical
  BY HeapAssumption DEF Inv, LockInv
<1>2. \A p \in Proc : Items(p) = {}
  BY <1>1 DEF Items, Held, Critical
<1>3. \A a \in DOMAIN hdr : /\ a \in Nat /\ hdr[a].size \in Nat /\ heapTop \in Nat
                            /\ hdr[a].used \in BOOLEAN
  BY HeapExists DEF Inv, TypeOK
<1>4. Reached = DOMAIN hdr
  <2> SUFFICES ASSUME NEW a \in DOMAIN hdr, NEW c \in DOMAIN hdr, c < a,
                      hdr[c].next = NULL
               PROVE  FALSE
    BY DEF Reached
  <2>1. c + HDR + hdr[c].size = heapTop
    BY DEF WholeInv, Gapless
  <2>2. c + HDR + hdr[c].size <= a /\ a + HDR + hdr[a].size <= heapTop
    BY DEF Inv, Layout
  <2>3. QED
    BY <1>3, <2>1, <2>2, HeapAssumption
<1>5. \A a \in DOMAIN hdr : ~ hdr[a].used
  BY <1>2, <1>4 DEF ListInv, UsedIsClaimed
<1>6. \A a \in DOMAIN hdr : hdr[a].next = NULL
  <2> SUFFICES ASSUME NEW a \in DOMAIN hdr, hdr[a].next # NULL PROVE FALSE
    OBVIOUS
  <2>1. hdr[a].next \in DOMAIN hdr
    BY DEF Inv, Chained
  <2>2. CanMerge(a)
    BY <1>5, <2>1 DEF CanMerge, Free
  <2>3. \A p \in Proc : pc[p] # "coalesce"
    BY <1>1 DEF Critical
  <2>4. QED
    BY <1>4, <2>2, <2>3 DEF ListInv, Merged
<1>7. Base \in DOMAIN hdr
  BY DEF StopsInside, Inv, Walking
<1>8. \A a \in DOMAIN hdr : a = Base
  <2> SUFFICES ASSUME NEW a \in DOMAIN hdr, a # Base PROVE FALSE
    OBVIOUS
  <2>1. Base <= a
    BY DEF Inv, Layout
  <2>2. Base < a
    BY <1>3, <1>7, <2>1
  <2>3. hdr[Base].next # NULL
    BY <1>4, <1>7, <2>2 DEF Reached
  <2>4. QED
    BY <1>6, <1>7, <2>3
<1>9. Base + HDR + hdr[Base].size = heapTop
  BY <1>6, <1>7 DEF WholeInv, Gapless
<1>10. hdr[Base].size = heapTop - Base - HDR
  BY <1>3, <1>7, <1>9, HeapAssumption
<1>11. QED
  BY <1>7, <1>8, <1>10

\* With every block freed a heap that has grown once is one free item again,
\* however many pages there are still to grow into: neither the cuts of
\* mm_kmalloc nor the merges of mm_kfree lose any room, where sizes are
\* multiples of ALIGN.
THEOREM HeapIsWholeAgain ==
  SizesFit /\ NoRounding /\ Spec => []WholeAgain
<1>1. (Inv /\ ListInv) /\ WholeInv /\ [Next]_vars => WholeInv'
  BY WholeNext
<1>2. (Inv /\ ListInv) /\ StopsInside /\ [Next]_vars => StopsInside'
  BY StopsNext
<1>3. Init => StopsInside
  BY DEF Init, StopsInside
<1>4. SizesFit /\ NoRounding /\ Spec => [](WholeInv /\ StopsInside)
  BY <1>1, <1>2, <1>3, WholeInit, ListInvariance, PTL DEF Spec
<1>5. QED
  BY <1>4, OneItem, ListInvariance, PTL
===============================================================================
