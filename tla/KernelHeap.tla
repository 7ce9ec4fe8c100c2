------------------------------ MODULE KernelHeap ------------------------------
(***************************************************************************)
(* The kernel heap of mm/mm.c: mm_kmalloc, mm_kfree and mm_morecore.  The  *)
(* heap is a run of mapped pages that only grows.  It is cut into items,   *)
(* each a header (struct MM_HEAPITEM) followed by its data, linked from    *)
(* the first one in address order.  mm_kmallocLock guards the list.        *)
(*                                                                         *)
(* Addresses and sizes are counted in units of four bytes: a header is HDR *)
(* units (12 bytes), sizes are rounded up to ALIGN units (8 bytes), and so *)
(* the header and the rounded data never fill whole pages.                 *)
(***************************************************************************)
EXTENDS Integers

CONSTANTS Proc,      \* kernel contexts that use the heap
          NoProc,    \* owner of a free lock
          HDR,       \* units in a header
          ALIGN,     \* units a size is rounded up to
          Word,      \* units in the 32-bit address space
          PAGE,      \* units in a page
          Base,      \* KERNEL_HEAP_VADDRESS
          Sizes,     \* sizes that are asked for
          MaxPages   \* physical pages there are for the heap

ASSUME HeapAssumption ==
  /\ NoProc \notin Proc
  /\ {HDR, ALIGN, PAGE, Base, Word} \subseteq Nat \ {0}
  /\ PAGE % ALIGN = 0 /\ HDR % ALIGN # 0
  /\ Sizes \subseteq Nat \ {0}
  /\ MaxPages \in Nat

VARIABLES hdr,      \* the headers in use, by address
          heapTop,  \* kernel_process.heap.heap_top
          lock,     \* owner of mm_kmallocLock
          pc,       \* where each context is
          arg,      \* size asked of mm_kmalloc, address given to mm_kfree
          cur,      \* item a context is looking at
          live,     \* blocks each context has been given and not freed
          fault     \* why the kernel stopped

vars == <<hdr, heapTop, lock, pc, arg, cur, live, fault>>

NULL == 0

\* struct MM_HEAPITEM, and a block as its caller sees it.
Item  == [next : Nat, size : Nat, used : BOOLEAN]
Block == [addr : Nat, size : Nat]

Put(f, a, r) == [x \in DOMAIN f \union {a} |-> IF x = a THEN r ELSE f[x]]
Drop(f, a)   == [x \in DOMAIN f \ {a} |-> f[x]]

Free(a) == ~ hdr[a].used

\* total_size: the size rounded up, plus the header, in 32-bit arithmetic.
RoundUp(s) == (((s + ALIGN - 1) % Word) \div ALIGN) * ALIGN
Total(s)   == (RoundUp(s) + HDR) % Word

\* Altered form: the header of the item to be cut off is not counted.
FitsForgetsHeader(a, s) == Free(a) /\ s <= hdr[a].size

\* Altered form: an item of exactly the right size is passed over.
FitsStrictly(a, s) == Free(a) /\ Total(s) < hdr[a].size

Fits(a, s) == Free(a) /\ Total(s) <= hdr[a].size

\* What mm_morecore maps for a request, and what the request leaves of it.
\* Altered form: the division is not rounded up.
NewPagesRoundedDown(s) == Total(s) \div PAGE

NewPages(s) == Total(s) \div PAGE + 1
Leftover(s) == NewPages(s) * PAGE - Total(s)
PrevTop     == IF heapTop = NULL THEN Base ELSE heapTop
Mapped      == (PrevTop - Base) \div PAGE

Init ==
  /\ hdr = [a \in {} |-> [next |-> NULL, size |-> 0, used |-> FALSE]]
  /\ heapTop = NULL
  /\ lock = NoProc
  /\ pc = [p \in Proc |-> "idle"]
  /\ arg = [p \in Proc |-> 0]
  /\ cur = [p \in Proc |-> NULL]
  /\ live = [p \in Proc |-> {}]
  /\ fault = "none"

At(p, l)   == fault = "none" /\ pc[p] = l
GoTo(p, l) == pc' = [pc EXCEPT ![p] = l]
Look(p, a) == cur' = [cur EXCEPT ![p] = a]

\* Altered form: the lock is taken without waiting for its owner.
AcquireNoWait(p) == lock' = p

Acquire(p) == lock = NoProc /\ lock' = p

(***************************************************************************)
(* mm_kmalloc.                                                             *)
(***************************************************************************)
CallMalloc(p, s) ==
  /\ At(p, "idle")
  /\ arg' = [arg EXCEPT ![p] = s]
  /\ GoTo(p, "malloc")
  /\ UNCHANGED <<hdr, heapTop, lock, cur, live, fault>>

LockMalloc(p) ==
  /\ At(p, "malloc")
  /\ Acquire(p)
  /\ Look(p, IF heapTop = NULL THEN NULL ELSE Base)
  /\ GoTo(p, "search")
  /\ UNCHANGED <<hdr, heapTop, arg, live, fault>>

\* Altered form: the first fit loop does not advance.
SearchInPlace(p) ==
  /\ At(p, "search")
  /\ cur[p] # NULL /\ ~ Fits(cur[p], arg[p])
  /\ UNCHANGED vars

\* One turn of the first fit loop.
Search(p) ==
  /\ At(p, "search")
  /\ cur[p] # NULL /\ ~ Fits(cur[p], arg[p])
  /\ Look(p, hdr[cur[p]].next)
  /\ UNCHANGED <<hdr, heapTop, lock, pc, arg, live, fault>>

\* Cut item a in two: what was asked for, and a free item behind it.
Cut(h, a, s, rest, next) ==
  Put(Put(h, a + Total(s), [next |-> next, size |-> rest, used |-> FALSE]),
      a, [next |-> a + Total(s), size |-> s, used |-> TRUE])

\* Altered form: the header of the new item is not counted.
SplitForgetsHeader(p) ==
  /\ At(p, "search")
  /\ cur[p] # NULL /\ Fits(cur[p], arg[p])
  /\ hdr' = Cut(hdr, cur[p], arg[p],
                hdr[cur[p]].size - Total(arg[p]) + HDR, hdr[cur[p]].next)
  /\ GoTo(p, "mallocked")
  /\ UNCHANGED <<heapTop, lock, arg, cur, live, fault>>

Split(p) ==
  /\ At(p, "search")
  /\ cur[p] # NULL /\ Fits(cur[p], arg[p])
  /\ hdr' = Cut(hdr, cur[p], arg[p],
                hdr[cur[p]].size - Total(arg[p]), hdr[cur[p]].next)
  /\ GoTo(p, "mallocked")
  /\ UNCHANGED <<heapTop, lock, arg, cur, live, fault>>

\* physical_pageAlloc does not return when there is no page left.
NoMemory(p) ==
  /\ Mapped + NewPages(arg[p]) > MaxPages
  /\ fault' = "oom"
  /\ UNCHANGED <<hdr, heapTop, pc, cur>>

\* The header of the free item is written at the very end of the mapped heap:
\* its size field is past it, and pageFaultHandler panics.
Overrun(p) ==
  /\ Mapped + NewPages(arg[p]) <= MaxPages
  /\ Leftover(arg[p]) < HDR
  /\ heapTop' = PrevTop + NewPages(arg[p]) * PAGE
  /\ fault' = "pagefault"
  /\ UNCHANGED <<hdr, pc, cur>>

Grow(p) ==
  /\ Mapped + NewPages(arg[p]) <= MaxPages
  /\ Leftover(arg[p]) >= HDR
  /\ heapTop' = PrevTop + NewPages(arg[p]) * PAGE
  /\ hdr' = Cut(hdr, PrevTop, arg[p], Leftover(arg[p]) - HDR, NULL)
  /\ Look(p, PrevTop)
  /\ GoTo(p, "mallocked")
  /\ UNCHANGED fault

\* mm_morecore and what follows it, when no item fits.
MoreCore(p) ==
  /\ At(p, "search")
  /\ cur[p] = NULL
  /\ NoMemory(p) \/ Overrun(p) \/ Grow(p)
  /\ UNCHANGED <<lock, arg, live>>

UnlockMalloc(p) ==
  /\ At(p, "mallocked")
  /\ lock' = NoProc
  /\ live' = [live EXCEPT ![p] =
                @ \union {[addr |-> cur[p] + HDR, size |-> arg[p]]}]
  /\ GoTo(p, "idle")
  /\ arg' = [arg EXCEPT ![p] = 0]
  /\ Look(p, NULL)
  /\ UNCHANGED <<hdr, heapTop, fault>>

(***************************************************************************)
(* mm_kfree.                                                               *)
(***************************************************************************)
CallFree(p, b) ==
  /\ At(p, "idle")
  /\ b \in live[p]
  /\ live' = [live EXCEPT ![p] = @ \ {b}]
  /\ arg' = [arg EXCEPT ![p] = b.addr]
  /\ GoTo(p, "free")
  /\ UNCHANGED <<hdr, heapTop, lock, cur, fault>>

LockFree(p) ==
  /\ At(p, "free")
  /\ Acquire(p)
  /\ Look(p, Base)
  /\ GoTo(p, "find")
  /\ UNCHANGED <<hdr, heapTop, arg, live, fault>>

\* The outer loop: walk the list until the item is found.
Find(p) ==
  /\ At(p, "find")
  /\ cur[p] # NULL /\ cur[p] # arg[p] - HDR
  /\ Look(p, hdr[cur[p]].next)
  /\ UNCHANGED <<hdr, heapTop, lock, pc, arg, live, fault>>

NotFound(p) ==
  /\ At(p, "find")
  /\ cur[p] = NULL
  /\ GoTo(p, "freed")
  /\ UNCHANGED <<hdr, heapTop, lock, arg, cur, live, fault>>

\* Altered form: the item keeps its used flag.
FoundKeepsUsed(p) ==
  /\ At(p, "find")
  /\ cur[p] = arg[p] - HDR
  /\ Look(p, Base)
  /\ GoTo(p, "coalesce")
  /\ UNCHANGED <<hdr, heapTop, lock, arg, live, fault>>

Found(p) ==
  /\ At(p, "find")
  /\ cur[p] = arg[p] - HDR
  /\ hdr' = [hdr EXCEPT ![cur[p]] =
                [next |-> @.next, size |-> @.size, used |-> FALSE]]
  /\ Look(p, Base)
  /\ GoTo(p, "coalesce")
  /\ UNCHANGED <<heapTop, lock, arg, live, fault>>

\* Altered form: items are merged with what follows, used or not.
CanMergeAny(a) == Free(a) /\ hdr[a].next # NULL

\* The inner loop: swallow free neighbours, then go to the next item.
CanMerge(a) == Free(a) /\ hdr[a].next # NULL /\ Free(hdr[a].next)

\* Item a after it has swallowed item n.
Joined(a, n) == [next |-> hdr[n].next, used |-> FALSE,
                 size |-> hdr[a].size + HDR + hdr[n].size]

\* Altered form: the header swallowed is not counted.
MergeForgetsHeader(p) ==
  /\ At(p, "coalesce")
  /\ cur[p] # NULL /\ CanMerge(cur[p])
  /\ LET a == cur[p]
         n == hdr[a].next
     IN  hdr' = Drop([hdr EXCEPT ![a] =
                            [Joined(a, n) EXCEPT !.size = @ - HDR]], n)
  /\ UNCHANGED <<heapTop, lock, pc, arg, cur, live, fault>>

\* Altered form: one neighbour is swallowed, then the next item is looked at.
MergeOnce(p) ==
  /\ At(p, "coalesce")
  /\ cur[p] # NULL /\ CanMerge(cur[p])
  /\ LET a == cur[p]
         n == hdr[a].next
     IN  /\ hdr' = Drop([hdr EXCEPT ![a] = Joined(a, n)], n)
         /\ Look(p, hdr[n].next)
  /\ UNCHANGED <<heapTop, lock, pc, arg, live, fault>>

Merge(p) ==
  /\ At(p, "coalesce")
  /\ cur[p] # NULL /\ CanMerge(cur[p])
  /\ LET a == cur[p]
         n == hdr[a].next
     IN  hdr' = Drop([hdr EXCEPT ![a] = Joined(a, n)], n)
  /\ UNCHANGED <<heapTop, lock, pc, arg, cur, live, fault>>

Advance(p) ==
  /\ At(p, "coalesce")
  /\ cur[p] # NULL /\ ~ CanMerge(cur[p])
  /\ Look(p, hdr[cur[p]].next)
  /\ UNCHANGED <<hdr, heapTop, lock, pc, arg, live, fault>>

Coalesced(p) ==
  /\ At(p, "coalesce")
  /\ cur[p] = NULL
  /\ GoTo(p, "freed")
  /\ UNCHANGED <<hdr, heapTop, lock, arg, cur, live, fault>>

UnlockFree(p) ==
  /\ At(p, "freed")
  /\ lock' = NoProc
  /\ GoTo(p, "idle")
  /\ arg' = [arg EXCEPT ![p] = 0]
  /\ UNCHANGED <<hdr, heapTop, cur, live, fault>>

\* kernel_panic does not return: nothing runs any more.
Halted == fault # "none" /\ UNCHANGED vars

Step(p) ==
  \/ LockMalloc(p) \/ Search(p) \/ Split(p) \/ MoreCore(p) \/ UnlockMalloc(p)
  \/ LockFree(p) \/ Find(p) \/ NotFound(p) \/ Found(p)
  \/ Merge(p) \/ Advance(p) \/ Coalesced(p) \/ UnlockFree(p)

Next ==
  \/ \E p \in Proc :
       \/ \E s \in Sizes : CallMalloc(p, s)
       \/ \E b \in live[p] : CallFree(p, b)
       \/ Step(p)
  \/ Halted

Spec == Init /\ [][Next]_vars

\* A context that is inside a call goes on running.
FairSpec == Spec /\ \A p \in Proc : WF_vars(Step(p))
-------------------------------------------------------------------------------
(***************************************************************************)
(* Properties.                                                             *)
(***************************************************************************)

\* Type invariant of the heap, the lock and the contexts' local variables.
TypeOK ==
  /\ DOMAIN hdr \subseteq Nat \ {0}
  /\ hdr \in [DOMAIN hdr -> Item]
  /\ heapTop \in Nat
  /\ lock \in Proc \union {NoProc}
  /\ pc \in [Proc -> {"idle", "malloc", "search", "mallocked", "free", "find",
                      "coalesce", "freed"}]
  /\ arg \in [Proc -> Nat]
  /\ cur \in [Proc -> Nat]
  /\ live \in [Proc -> SUBSET Block]
  /\ fault \in {"none", "oom", "pagefault"}

\* Blocks a context may write to, or is about to be given.
Held(p) ==
  live[p] \union IF pc[p] = "mallocked"
                 THEN {[addr |-> cur[p] + HDR, size |-> arg[p]]} ELSE {}

Units(b)       == b.addr .. (b.addr + b.size - 1)
HeaderUnits(a) == a .. (a + HDR - 1)

InHeap(b)      == Base <= b.addr /\ b.addr + b.size <= heapTop

\* What a caller writes in its block cannot reach another block or any header
\* of the heap, and all of it is mapped memory: mm_kmalloc never cuts an item
\* too short and the coalescing in mm_kfree never swallows one in use.
BlocksDisjoint ==
  \A p \in Proc : \A b \in Held(p) :
    /\ InHeap(b)
    /\ \A a \in DOMAIN hdr : Units(b) \intersect HeaderUnits(a) = {}
    /\ \A q \in Proc : \A c \in Held(q) :
         (p # q \/ b # c) => Units(b) \intersect Units(c) = {}

\* The items on the list, from item a on.
From[a \in DOMAIN hdr \union {NULL}] ==
  IF a = NULL THEN {} ELSE {a} \union From[hdr[a].next]
Linked == IF heapTop = NULL \/ DOMAIN hdr = {} THEN {} ELSE From[Base]

\* "coalesce any adjacent free items": when nobody is inside the heap, no two
\* neighbours on the list are both free, however blocks were freed before.
NeighboursCoalesced ==
  lock = NoProc => \A a \in Linked : ~ CanMerge(a)

\* An item on the list is in use exactly when somebody holds its block: a
\* block that was freed can be allocated again.
LinkedUsedIsHeld ==
  lock = NoProc =>
    {a \in Linked : ~ Free(a)} =
      {a \in Linked : \E p \in Proc :
         \/ \E b \in live[p] : b.addr = a + HDR
         \/ pc[p] = "free" /\ arg[p] = a + HDR}

\* First fit: the heap takes pages from the system only when no free item of
\* the list could have held the request.
GrowsOnlyWhenFull ==
  [][heapTop' # heapTop /\ heapTop # NULL =>
       \A p \in Proc : lock = p =>
         \A a \in Linked : Free(a) => hdr[a].size < Total(arg[p])]_vars

\* There are fewer pages in the heap than any two calls of mm_morecore map.
OneGrowth == \A s, t \in Sizes : NewPages(s) + NewPages(t) > Mapped

\* Nothing is lost for good: with every block freed, a heap that has grown
\* once is a single free item as large as the day it was mapped.  (Sizes that
\* need rounding are outside this: the unrounded size is what mm_kfree counts.
\* So is a second growth, whose item never comes on the list.)
WholeAgain ==
  (/\ heapTop # NULL /\ OneGrowth
   /\ lock = NoProc
   /\ \A p \in Proc : live[p] = {} /\ pc[p] # "free") =>
    DOMAIN hdr = {Base} /\ hdr[Base].size = heapTop - Base - HDR

\* Every path through mm_kmalloc and mm_kfree gives the lock back, unless the
\* kernel stops.
LockReleased ==
  \A p \in Proc : lock = p ~> lock # p \/ fault # "none"

\* mm_kmalloc and mm_kfree implement an allocator of address ranges.
Ranges == INSTANCE Allocator WITH
            Client  <- Proc,
            Block   <- {a .. (a + s - 1) :
                          a \in Base .. (Base + MaxPages * PAGE), s \in Sizes},
            granted <- [p \in Proc |-> {Units(b) : b \in live[p]}]
ImplementsAllocator == Ranges!Spec
===============================================================================
