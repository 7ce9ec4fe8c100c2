-------------------------- MODULE PhysicalMemoryProofs --------------------------
(***************************************************************************)
(* Proofs about the page allocator, for every number of contexts, every    *)
(* machine size and every boot information.                                *)
(*                                                                         *)
(* The accounting of pages is not inductive alone.  It needs to know that  *)
(* who updates the bitmap owns the lock (LockInv), so that the byte read   *)
(* is still what the bitmap holds when it is written back (UpdateInv), and *)
(* that the search has found every page behind it taken (ScanInv).         *)
(***************************************************************************)
EXTENDS PhysicalMemory, TLAPS

Critical == {"scan", "load", "store", "unlock"}

\* Exactly the owner of the lock is between mutex_lock and mutex_unlock.
LockInv == \A p \in Proc : pc[p] \in Critical <=> lock = p

\* The search has begun at the bottom of a half of memory, and all it has
\* passed is taken.
ScanInv ==
  \A p \in Proc : pc[p] = "scan" =>
    /\ call[p] \in AllocCalls
    /\ page[p] >= First(zone[p])
    /\ \A n \in First(zone[p]) .. (page[p] - 1) : n \in taken

\* A bit about to be changed is one that a search has just found clear or that
\* belongs to a page being freed, and the byte it is in was read correctly.
UpdateInv ==
  \A p \in Proc : pc[p] \in {"load", "store"} =>
    /\ GoodPage(boot, page[p])
    /\ call[p] \in AllocCalls \union {"pageFree"}
    /\ call[p] # "pageFree" =>
         /\ page[p] \notin taken
         /\ First(zone[p]) <= page[p] /\ page[p] < Limit(zone[p])
         /\ \A n \in First(zone[p]) .. (page[p] - 1) : n \in taken
    /\ pc[p] = "store" => byte[p] = {n \in taken : SameByte(n, page[p])}

\* A call about to return a page returns a real one.
ReturnInv ==
  \A p \in Proc :
    pc[p] \in {"unlock", "return"} /\ call[p] \in AllocCalls =>
      page[p] = NULL \/ GoodPage(boot, page[p])

HeldInv == \A p \in Proc : \A n \in held[p] : GoodPage(boot, n)

\* A caller lets go of the page it frees.
FreeInv ==
  \A p \in Proc :
    call[p] = "pageFree" /\ pc[p] \in {"lock", "load", "store"} =>
      page[p] \notin held[p]

Local ==
  /\ LockInv
  /\ ScanInv
  /\ UpdateInv
  /\ ReturnInv
  /\ HeldInv
  /\ FreeInv

Inv ==
  /\ TypeOK
  /\ Local
  /\ Accounting
  /\ PagesExclusive
-------------------------------------------------------------------------------
(***************************************************************************)
(* Arithmetic of the machine's size.                                       *)
(***************************************************************************)

\* physical_maxAddress is an address of the 32-bit address space.
LEMMA MaxPageRange ==
  ASSUME NEW b \in BootInfo
  PROVE  MaxPage(b) \in 0 .. (AddressPages - 1)
<1> DEFINE N == PagesPerMB * (b.upperMB + 1)
<1>1. N \in Nat
  BY BootAssumption DEF BootInfo
<1> HIDE DEF N
<1>2. N % AddressPages \in 0 .. (AddressPages - 1)
  BY <1>1, BootAssumption
<1>3. QED
  BY <1>2, BootAssumption DEF MaxPage, NULL, N

\* The pages physical_init reserves are natural numbers.
LEMMA BootTakenType ==
  ASSUME NEW b \in BootInfo
  PROVE  BootTaken(b) \subseteq Nat
<1>1. KernelPages(b) \subseteq Nat
  BY BootAssumption DEF KernelPages
<1>2. BitmapPages(b) \subseteq Nat
  BY DEF BitmapPages
<1>3. QED
  BY <1>1, <1>2, BootAssumption DEF BootTaken

\* The bounds of the search are pages, and no search goes past the last page.
LEMMA SearchBounds ==
  ASSUME TypeOK, NEW z \in Zones
  PROVE  /\ First(z) \in Nat \ {0}
         /\ Limit(z) \in Nat
         /\ Limit(z) <= MaxPage(boot)
         /\ MaxPage(boot) \in Nat
<1>1. boot \in BootInfo
  BY MemoryAssumption DEF TypeOK
<1>2. MaxPage(boot) \in Nat
  BY <1>1, MaxPageRange
<1>3. QED
  BY <1>2, MemoryAssumption DEF First, Limit, Zones

-------------------------------------------------------------------------------
(***************************************************************************)
(* Type correctness.                                                       *)
(***************************************************************************)

\* The initial state left by physical_init has the types declared.
LEMMA InitType == Init => TypeOK
<1> SUFFICES ASSUME Init PROVE TypeOK
  OBVIOUS
<1>1. BootTaken(boot) \subseteq Nat
  BY BootTakenType, MemoryAssumption DEF Init
<1>2. QED
  BY <1>1 DEF Init, TypeOK, Calls, Zones, NULL

\* Every step of every function keeps the types.
LEMMA NextType == TypeOK /\ [Next]_vars => TypeOK'
<1> SUFFICES ASSUME TypeOK, [Next]_vars PROVE TypeOK'
  OBVIOUS
<1> USE DEF TypeOK, At, GoTo, Calls, AllocCalls, Zones
<1>1. ASSUME NEW p \in Proc, NEW f \in AllocCalls, CallAlloc(p, f)
      PROVE  TypeOK'
  BY <1>1 DEF CallAlloc
<1>2. ASSUME NEW p \in Proc, NEW n \in held[p] \union {NULL, MaxPage(boot)},
             CallFree(p, n)
      PROVE  TypeOK'
  <2>1. n \in Nat
    BY SearchBounds DEF NULL
  <2>2. QED
    BY <1>2, <2>1 DEF CallFree
<1>3. ASSUME NEW p \in Proc, BeginScan(p)
      PROVE  TypeOK'
  <2>1. First(zone[p]) \in Nat
    BY SearchBounds
  <2>2. QED
    BY <1>3, <2>1 DEF BeginScan, Acquire
<1>4. ASSUME NEW p \in Proc, BeginFree(p)
      PROVE  TypeOK'
  BY <1>4 DEF BeginFree, Acquire
<1>5. ASSUME NEW p \in Proc, Scan(p)
      PROVE  TypeOK'
  BY <1>5 DEF Scan, ScanOver, ScanTaken, ScanFree, NULL
<1>6. ASSUME NEW p \in Proc, Load(p)
      PROVE  TypeOK'
  BY <1>6 DEF Load
<1>7. ASSUME NEW p \in Proc, Store(p)
      PROVE  TypeOK'
  BY <1>7 DEF Store
<1>8. ASSUME NEW p \in Proc, Unlock(p)
      PROVE  TypeOK'
  BY <1>8 DEF Unlock
<1>9. ASSUME NEW p \in Proc, Retry(p) \/ Panic(p)
      PROVE  TypeOK'
  BY <1>9 DEF Retry, Panic
<1>10. ASSUME NEW p \in Proc, Return(p)
       PROVE  TypeOK'
  BY <1>10 DEF Return, NULL
<1>11. CASE Halted \/ UNCHANGED vars
  BY <1>11 DEF Halted, vars
<1>12. QED
  BY <1>1, <1>2, <1>3, <1>4, <1>5, <1>6, <1>7, <1>8, <1>9, <1>10, <1>11
  DEF Next, Step

\* The bitmap holds pages, and the locals of every context stay in range.
THEOREM TypeCorrect == Spec => []TypeOK
<1>1. QED
  BY InitType, NextType, PTL DEF Spec

-------------------------------------------------------------------------------
(***************************************************************************)
(* How a step changes the bitmap and the ownership of pages: only Store    *)
(* does, and it moves exactly one page.                                    *)
(***************************************************************************)

\* Every step of one context but Store leaves the bitmap and the pages owned
\* by everyone as they are: calls and returns only pass a page along.
LEMMA Passing ==
  ASSUME TypeOK, Local, NEW p \in Proc,
         \/ \E f \in AllocCalls : CallAlloc(p, f)
         \/ \E n \in held[p] \union {NULL, MaxPage(boot)} : CallFree(p, n)
         \/ BeginScan(p) \/ BeginFree(p) \/ Scan(p) \/ Load(p)
         \/ Unlock(p) \/ Retry(p) \/ Panic(p) \/ Return(p)
  PROVE  /\ boot' = boot /\ taken' = taken
         /\ \A q \in Proc : Owned(q)' = Owned(q)
<1> USE DEF TypeOK, At, GoTo, AllocCalls, Owned, InFlight
<1>1. ~ GoodPage(boot, NULL) /\ ~ GoodPage(boot, MaxPage(boot))
  BY SearchBounds DEF GoodPage
<1>2. ASSUME NEW f \in AllocCalls, CallAlloc(p, f)
      PROVE  boot' = boot /\ taken' = taken /\ \A q \in Proc : Owned(q)' = Owned(q)
  BY <1>2 DEF CallAlloc
<1>3. ASSUME NEW n \in held[p] \union {NULL, MaxPage(boot)}, CallFree(p, n)
      PROVE  boot' = boot /\ taken' = taken /\ \A q \in Proc : Owned(q)' = Owned(q)
  <2>1. n \in held[p] <=> GoodPage(boot, n)
    BY <1>1 DEF Local, HeldInv
  <2>2. Owned(p)' = Owned(p)
    BY <1>3, <2>1 DEF CallFree
  <2>3. \A q \in Proc \ {p} : Owned(q)' = Owned(q)
    BY <1>3 DEF CallFree
  <2>4. QED
    BY <1>3, <2>2, <2>3 DEF CallFree
<1>4. CASE BeginScan(p)
  BY <1>4 DEF BeginScan, Acquire
<1>5. CASE BeginFree(p)
  BY <1>5 DEF BeginFree, Acquire
<1>6. CASE Scan(p)
  <2>1. call[p] \in AllocCalls
    BY <1>6 DEF Scan, Local, ScanInv
  <2>2. QED
    BY <1>1, <1>6, <2>1 DEF Scan, ScanOver, ScanTaken, ScanFree
<1>7. CASE Load(p)
  BY <1>7 DEF Load
<1>8. CASE Unlock(p)
  BY <1>8 DEF Unlock
<1>9. CASE Retry(p) \/ Panic(p)
  BY <1>1, <1>9 DEF Retry, Panic, Failed
<1>10. CASE Return(p)
  <2>1. call[p] \in AllocCalls => page[p] = NULL \/ GoodPage(boot, page[p])
    BY <1>10 DEF Return, Local, ReturnInv
  <2>2. Owned(p)' = Owned(p)
    BY <1>1, <1>10, <2>1 DEF Return
  <2>3. \A q \in Proc \ {p} : Owned(q)' = Owned(q)
    BY <1>10 DEF Return
  <2>4. QED
    BY <1>10, <2>2, <2>3 DEF Return
<1>11. QED
  BY <1>2, <1>3, <1>4, <1>5, <1>6, <1>7, <1>8, <1>9, <1>10

\* Because the byte written back is the one read, give or take one bit, Store
\* sets or clears the bit of one page and moves that page's ownership with it.
LEMMA Moving ==
  ASSUME TypeOK, Local, NEW p \in Proc, Store(p)
  PROVE  /\ boot' = boot
         /\ \A q \in Proc \ {p} : Owned(q)' = Owned(q)
         /\ GoodPage(boot, page[p])
         /\ \/ /\ page[p] \in Owned(p)
               /\ taken' = taken \ {page[p]}
               /\ Owned(p)' = Owned(p) \ {page[p]}
            \/ /\ page[p] \notin taken
               /\ taken' = taken \union {page[p]}
               /\ Owned(p)' = Owned(p) \union {page[p]}
<1> USE DEF Store, At, GoTo, TypeOK, AllocCalls
<1>1. /\ GoodPage(boot, page[p])
      /\ call[p] \in AllocCalls \union {"pageFree"}
      /\ call[p] # "pageFree" => page[p] \notin taken
      /\ byte[p] = {n \in taken : SameByte(n, page[p])}
  BY DEF Local, UpdateInv
<1>2. SameByte(page[p], page[p])
  BY DEF SameByte
<1>3. \A q \in Proc \ {p} : Owned(q)' = Owned(q)
  BY DEF Owned, InFlight
<1>4. CASE call[p] = "pageFree"
  <2>1. page[p] \notin held[p]
    BY <1>4 DEF Local, FreeInv
  <2>2. taken' = taken \ {page[p]}
    BY <1>1, <1>2, <1>4
  <2>3. Owned(p) = held[p] \union {page[p]} /\ Owned(p)' = held[p]
    BY <1>1, <1>4 DEF Owned, InFlight
  <2>4. QED
    BY <1>1, <1>3, <2>1, <2>2, <2>3
<1>5. CASE call[p] # "pageFree"
  <2>1. taken' = taken \union {page[p]}
    BY <1>1, <1>2, <1>5
  <2>2. Owned(p) = held[p] /\ Owned(p)' = held[p] \union {page[p]}
    BY <1>1, <1>5 DEF Owned, InFlight
  <2>3. QED
    BY <1>1, <1>3, <1>5, <2>1, <2>2
<1>6. QED
  BY <1>4, <1>5

-------------------------------------------------------------------------------
(***************************************************************************)
(* The invariant.                                                          *)
(***************************************************************************)

\* It holds when physical_init is done.
LEMMA InitInv == Init => Inv
<1> SUFFICES ASSUME Init PROVE Inv
  OBVIOUS
<1>1. TypeOK
  BY InitType
<1>2. Local
  BY MemoryAssumption
  DEF Init, Local, LockInv, ScanInv, UpdateInv, ReturnInv, HeldInv, FreeInv,
      Critical
<1>3. \A p \in Proc : Owned(p) = {}
  BY DEF Init, Owned, InFlight
<1>4. Accounting /\ PagesExclusive
  BY <1>3 DEF Init, Accounting, PagesExclusive
<1>5. QED
  BY <1>1, <1>2, <1>4 DEF Inv

\* A call starts, in the two ways there are.
LEMMA LocalCall ==
  ASSUME TypeOK, Local, NEW p \in Proc,
         \/ \E f \in AllocCalls : CallAlloc(p, f)
         \/ \E n \in held[p] \union {NULL, MaxPage(boot)} : CallFree(p, n)
  PROVE  Local'
<1> USE DEF TypeOK, Local, LockInv, ScanInv, UpdateInv, ReturnInv, HeldInv,
            FreeInv, Critical, At, GoTo, Limit
<1>1. ASSUME NEW f \in AllocCalls, CallAlloc(p, f)
      PROVE  Local'
  BY <1>1 DEF CallAlloc, AllocCalls
<1>2. ASSUME NEW n \in held[p] \union {NULL, MaxPage(boot)}, CallFree(p, n)
      PROVE  Local'
  BY <1>2 DEF CallFree, AllocCalls
<1>3. QED
  BY <1>1, <1>2

\* A context enters the critical section.
LEMMA LocalBegin ==
  ASSUME TypeOK, Local, NEW p \in Proc, BeginScan(p) \/ BeginFree(p)
  PROVE  Local'
<1> USE DEF TypeOK, Local, LockInv, ScanInv, UpdateInv, ReturnInv, HeldInv,
            FreeInv, Critical, At, GoTo, Acquire, AllocCalls, Limit
<1>1. NoProc \notin Proc
  BY MemoryAssumption
<1>2. First(zone[p]) \in Nat
  BY SearchBounds
<1>3. CASE BeginScan(p)
  BY <1>1, <1>2, <1>3 DEF BeginScan
<1>4. CASE BeginFree(p)
  BY <1>1, <1>4 DEF BeginFree
<1>5. QED
  BY <1>3, <1>4

\* The search moves on, stops at a free page, or gives up.
LEMMA LocalScan ==
  ASSUME TypeOK, Local, NEW p \in Proc, Scan(p)
  PROVE  Local'
<1> USE DEF TypeOK, Local, LockInv, ScanInv, UpdateInv, ReturnInv, HeldInv,
            FreeInv, Critical, At, GoTo, AllocCalls, Scan, Limit
<1>1. First(zone[p]) \in Nat \ {0} /\ Limit(zone[p]) \in Nat
      /\ Limit(zone[p]) <= MaxPage(boot) /\ MaxPage(boot) \in Nat
  BY SearchBounds
<1>2. CASE ScanOver(p)
  BY <1>2 DEF ScanOver
<1>3. CASE ScanTaken(p)
  BY <1>1, <1>3 DEF ScanTaken
<1>4. CASE ScanFree(p)
  <2>1. GoodPage(boot, page[p])
    BY <1>1, <1>4 DEF ScanFree, GoodPage, NULL
  <2>2. QED
    BY <1>4, <2>1 DEF ScanFree
<1>5. QED
  BY <1>2, <1>3, <1>4

\* The byte is read, and written back: the owner of the lock is alone.
LEMMA LocalUpdate ==
  ASSUME TypeOK, Local, NEW p \in Proc, Load(p) \/ Store(p)
  PROVE  Local'
<1> USE DEF TypeOK, Local, LockInv, ScanInv, UpdateInv, ReturnInv, HeldInv,
            FreeInv, Critical, At, GoTo, Limit
<1>1. CASE Load(p)
  BY <1>1 DEF Load
<1>2. CASE Store(p)
  <2>1. lock = p /\ \A q \in Proc \ {p} : pc[q] \notin Critical
    BY <1>2 DEF Store
  <2>2. GoodPage(boot, page[p])
    BY <1>2 DEF Store
  <2>3. QED
    BY <1>2, <2>1, <2>2 DEF Store
<1>3. QED
  BY <1>1, <1>2

\* The lock is given back, and the call goes on or returns.
LEMMA LocalReturn ==
  ASSUME TypeOK, Local, NEW p \in Proc,
         Unlock(p) \/ Retry(p) \/ Panic(p) \/ Return(p)
  PROVE  Local'
<1> USE DEF TypeOK, Local, LockInv, ScanInv, UpdateInv, ReturnInv, HeldInv,
            FreeInv, Critical, At, GoTo, AllocCalls, Failed, Limit
<1>1. CASE Unlock(p)
  BY <1>1, MemoryAssumption DEF Unlock
<1>2. CASE Retry(p)
  BY <1>2 DEF Retry
<1>3. CASE Panic(p)
  BY <1>3 DEF Panic
<1>4. CASE Return(p)
  BY <1>4 DEF Return
<1>5. QED
  BY <1>1, <1>2, <1>3, <1>4

\* Pages change hands one at a time, so none is lost, leaked or shared.
LEMMA PagesStep ==
  ASSUME TypeOK, Local, Accounting, PagesExclusive, NEW p \in Proc,
         \/ \E f \in AllocCalls : CallAlloc(p, f)
         \/ \E n \in held[p] \union {NULL, MaxPage(boot)} : CallFree(p, n)
         \/ Step(p)
  PROVE  Accounting' /\ PagesExclusive'
<1>1. CASE Store(p)
  <2>1. /\ boot' = boot
        /\ \A q \in Proc \ {p} : Owned(q)' = Owned(q)
        /\ GoodPage(boot, page[p])
    BY <1>1, Moving
  <2>2. CASE /\ page[p] \in Owned(p)
             /\ taken' = taken \ {page[p]}
             /\ Owned(p)' = Owned(p) \ {page[p]}
    <3>1. page[p] \notin BootTaken(boot)
          /\ \A q \in Proc \ {p} : page[p] \notin Owned(q)
      BY <2>2 DEF PagesExclusive
    <3>2. PagesExclusive'
      BY <2>1, <2>2 DEF PagesExclusive
    <3>3. Accounting'
      BY <2>1, <2>2, <3>1 DEF Accounting
    <3>4. QED
      BY <3>2, <3>3
  <2>3. CASE /\ page[p] \notin taken
             /\ taken' = taken \union {page[p]}
             /\ Owned(p)' = Owned(p) \union {page[p]}
    <3>1. page[p] \notin BootTaken(boot)
          /\ \A q \in Proc : page[p] \notin Owned(q)
      BY <2>3 DEF Accounting
    <3>2. PagesExclusive'
      BY <2>1, <2>3, <3>1 DEF PagesExclusive
    <3>3. Accounting'
      BY <2>1, <2>3 DEF Accounting
    <3>4. QED
      BY <3>2, <3>3
  <2>4. QED
    BY <1>1, <2>2, <2>3, Moving
<1>2. CASE ~ Store(p)
  <2>1. /\ boot' = boot /\ taken' = taken
        /\ \A q \in Proc : Owned(q)' = Owned(q)
    BY <1>2, Passing DEF Step
  <2>2. QED
    BY <2>1 DEF Accounting, PagesExclusive
<1>3. QED
  BY <1>1, <1>2

\* Every step of every function keeps the invariant.
LEMMA NextInv == Inv /\ [Next]_vars => Inv'
<1> SUFFICES ASSUME Inv, [Next]_vars PROVE Inv'
  OBVIOUS
<1>1. TypeOK'
  BY NextType DEF Inv
<1>2. ASSUME NEW p \in Proc,
             \/ \E f \in AllocCalls : CallAlloc(p, f)
             \/ \E n \in held[p] \union {NULL, MaxPage(boot)} : CallFree(p, n)
             \/ Step(p)
      PROVE  Local' /\ Accounting' /\ PagesExclusive'
  <2>1. Local'
    BY <1>2, LocalCall, LocalBegin, LocalScan, LocalUpdate, LocalReturn
    DEF Inv, Step
  <2>2. Accounting' /\ PagesExclusive'
    BY <1>2, PagesStep DEF Inv
  <2>3. QED
    BY <2>1, <2>2
<1>3. CASE UNCHANGED vars
  <2>1. Local'
    BY <1>3
    DEF Inv, vars, Local, LockInv, ScanInv, UpdateInv, ReturnInv, HeldInv,
        FreeInv, Limit
  <2>2. \A p \in Proc : Owned(p)' = Owned(p)
    BY <1>3 DEF vars, Owned, InFlight
  <2>3. Accounting' /\ PagesExclusive'
    BY <1>3, <2>2 DEF Inv, vars, Accounting, PagesExclusive
  <2>4. QED
    BY <1>1, <2>1, <2>3 DEF Inv
<1>4. QED
  BY <1>1, <1>2, <1>3 DEF Next, Halted, Inv

LEMMA Invariance == Spec => []Inv
<1>1. QED
  BY InitInv, NextInv, PTL DEF Spec

-------------------------------------------------------------------------------
(***************************************************************************)
(* What follows from the invariant.                                        *)
(***************************************************************************)

\* The bitmap always accounts for every page: no update is ever lost.
THEOREM PagesAccounted == Spec => []Accounting
<1>1. Inv => Accounting
  BY DEF Inv
<1>2. QED
  BY <1>1, Invariance, PTL

\* No page has two owners, and none that was reserved at boot has one.
THEOREM PagesAreExclusive == Spec => []PagesExclusive
<1>1. Inv => PagesExclusive
  BY DEF Inv
<1>2. QED
  BY <1>1, Invariance, PTL

\* An owned page is a real page: it is neither NULL nor past the last one.
LEMMA OwnedGood ==
  ASSUME Inv, NEW p \in Proc, NEW n \in Owned(p)
  PROVE  GoodPage(boot, n)
BY DEF Inv, Local, HeldInv, Owned, InFlight

\* No page that is handed out overlaps the kernel image or the bitmap.
THEOREM KernelIsSafe == Spec => []KernelSafe
<1>1. Inv => KernelSafe
  <2> SUFFICES ASSUME Inv, NEW p \in Proc, NEW n \in Owned(p)
               PROVE  /\ n # NULL
                      /\ n < MaxPage(boot)
                      /\ \/ (n + 1) * PageUnits <= KernelStart * PageUnits
                         \/ n * PageUnits >= KernelEnd + BitmapBytes(boot)
    BY DEF KernelSafe
  <2>1. GoodPage(boot, n)
    BY OwnedGood
  <2>2. boot \in BootInfo /\ n \in Nat
    BY MemoryAssumption DEF Inv, TypeOK, Owned, InFlight
  <2>3. boot.mem
    BY <2>1, <2>2 DEF GoodPage, MaxPage, NULL
  <2>4. n \notin KernelPages(boot)
    BY <2>3 DEF Inv, PagesExclusive, BootTaken
  <2>5. BitmapBytes(boot) \in Nat
    <3>1. PagesPerMB * (boot.upperMB + 1) \in Nat
      BY <2>2, BootAssumption DEF BootInfo
    <3>2. QED
      BY <3>1, BootAssumption DEF BitmapBytes
  <2>6. n * PageUnits >= n
    BY <2>2, BootAssumption
  <2>7. CASE n < KernelStart
    <3>1. (n + 1) * PageUnits <= KernelStart * PageUnits
      BY <2>2, <2>7, BootAssumption
    <3>2. QED
      BY <2>1, <3>1 DEF GoodPage
  <2>8. CASE n >= KernelStart
    <3>1. n * PageUnits >= KernelEnd + BitmapBytes(boot)
      BY <2>2, <2>4, <2>5, <2>6, <2>8, BootAssumption DEF KernelPages
    <3>2. QED
      BY <2>1, <3>1 DEF GoodPage
  <2>9. QED
    BY <2>2, <2>7, <2>8, BootAssumption
<1>2. QED
  BY <1>1, Invariance, PTL

\* The search stops at the lowest free page of its half of memory, and gives
\* up only when there is none.
THEOREM SearchIsFirstFree == Spec => FirstFree
<1>1. Inv /\ [Next]_vars =>
        [\A p \in Proc :
           pc[p] = "scan" /\ pc'[p] # "scan" =>
             \A n \in First(zone[p]) .. (Limit(zone[p]) - 1) :
               n \notin taken => page'[p] # NULL /\ page'[p] <= n]_vars
  <2> SUFFICES ASSUME Inv, Next, NEW p \in Proc,
                      pc[p] = "scan", pc'[p] # "scan",
                      NEW n \in First(zone[p]) .. (Limit(zone[p]) - 1),
                      n \notin taken
               PROVE  page'[p] # NULL /\ page'[p] <= n
    OBVIOUS
  <2> USE DEF Inv, TypeOK, At, GoTo
  <2>1. Scan(p)
    <3>1. ASSUME NEW q \in Proc, q # p,
                 \/ \E f \in AllocCalls : CallAlloc(q, f)
                 \/ \E m \in held[q] \union {NULL, MaxPage(boot)} :
                      CallFree(q, m)
                 \/ Step(q)
          PROVE  pc'[p] = pc[p]
      BY <3>1
      DEF CallAlloc, CallFree, Step, BeginScan, BeginFree, Scan, ScanOver,
          ScanTaken, ScanFree, Load, Store, Unlock, Retry, Panic, Return
    <3>2. ASSUME \/ \E f \in AllocCalls : CallAlloc(p, f)
                 \/ \E m \in held[p] \union {NULL, MaxPage(boot)} :
                      CallFree(p, m)
                 \/ Step(p)
          PROVE  Scan(p)
      BY <3>2
      DEF CallAlloc, CallFree, Step, BeginScan, BeginFree, Acquire, Load, Store,
          Unlock, Retry, Panic, Return
    <3>3. ~ Halted
      BY DEF Halted, vars
    <3>4. QED
      BY <3>1, <3>2, <3>3 DEF Next
  <2>2. First(zone[p]) \in Nat \ {0} /\ Limit(zone[p]) \in Nat
    BY SearchBounds
  <2>3. /\ page[p] >= First(zone[p])
        /\ \A m \in First(zone[p]) .. (page[p] - 1) : m \in taken
    BY DEF Local, ScanInv
  <2>4. n >= page[p]
    BY <2>2, <2>3
  <2>5. ~ ScanOver(p) /\ ~ ScanTaken(p)
    BY <2>2, <2>4 DEF ScanOver, ScanTaken
  <2>6. page'[p] = page[p]
    BY <2>1, <2>5 DEF Scan, ScanFree
  <2>7. QED
    BY <2>2, <2>3, <2>4, <2>6 DEF NULL
<1>2. QED
  BY <1>1, Invariance, PTL DEF Spec, FirstFree

\* The steps of the allocator of one-page blocks.
PageBlocks   == {{n} : n \in 0 .. (AddressPages - 1)}
PagesHeld(p) == {{n} : n \in Owned(p)}

LEMMA GrantStep ==
  ASSUME NEW p \in Proc, NEW u \in PageBlocks, Pages!Grant(p, u)
  PROVE  Pages!Next
<1>1. \E b \in PageBlocks : Pages!Grant(p, b)
  OBVIOUS
<1>2. QED
  BY <1>1 DEF Pages!Next, PageBlocks

LEMMA ReleaseStep ==
  ASSUME NEW p \in Proc, NEW u \in PagesHeld(p), Pages!Release(p, u)
  PROVE  Pages!Next
<1>1. \E b \in PagesHeld(p) : Pages!Release(p, b)
  OBVIOUS
<1> DEFINE g == [q \in Proc |-> {{n} : n \in Owned(q)}]
<1>2. g[p] = PagesHeld(p)
  BY DEF PagesHeld
<1> HIDE DEF g
<1>3. \E b \in g[p] : Pages!Release(p, b)
  BY <1>1, <1>2
<1>4. QED
  BY <1>3 DEF Pages!Next, g

\* The allocator of one-page blocks that callers can rely on is implemented.
THEOREM Refinement == Spec => ImplementsAllocator
<1> DEFINE granted == [p \in Proc |-> {{n} : n \in Owned(p)}]
<1>1. Init => Pages!Init
  <2> SUFFICES ASSUME Init PROVE granted = [p \in Proc |-> {}]
    BY DEF Pages!Init
  <2>1. \A p \in Proc : Owned(p) = {}
    BY DEF Init, Owned, InFlight
  <2>2. QED
    BY <2>1
<1>2. Inv /\ [Next]_vars => [Pages!Next]_granted
  <2> SUFFICES ASSUME Inv, [Next]_vars, granted' # granted
               PROVE  Pages!Next
    OBVIOUS
  <2>1. PICK p \in Proc : Store(p)
    <3>1. ~ UNCHANGED vars /\ ~ Halted
      BY DEF Halted, vars, Owned, InFlight
    <3>2. QED
      BY <3>1, Passing DEF Inv, Next, Step
  <2> DEFINE n == page[p]
  <2>2. /\ \A q \in Proc \ {p} : Owned(q)' = Owned(q)
        /\ GoodPage(boot, n)
    BY <2>1, Moving DEF Inv
  <2>3. {n} \in PageBlocks
    <3>1. boot \in BootInfo /\ n \in Nat
      BY MemoryAssumption DEF Inv, TypeOK
    <3>2. MaxPage(boot) \in 0 .. (AddressPages - 1)
      BY <3>1, MaxPageRange
    <3>3. n \in 0 .. (AddressPages - 1)
      BY <2>2, <3>1, <3>2, BootAssumption DEF GoodPage
    <3>4. QED
      BY <3>3 DEF PageBlocks
  <2> HIDE DEF granted, n
  <2>4. CASE /\ n \in Owned(p)
             /\ Owned(p)' = Owned(p) \ {n}
    <3>1. granted' = [granted EXCEPT ![p] = @ \ {{n}}]
      BY <2>2, <2>4 DEF granted
    <3>2. {n} \in PagesHeld(p)
      BY <2>4 DEF PagesHeld
    <3>3. PICK u \in PagesHeld(p) : u = {n}
      BY <3>2
    <3>4. Pages!Release(p, u)
      BY <3>1, <3>3 DEF Pages!Release, granted
    <3>5. QED
      BY <3>4, ReleaseStep
  <2>5. CASE /\ n \notin taken
             /\ Owned(p)' = Owned(p) \union {n}
    <3>1. granted' = [granted EXCEPT ![p] = @ \union {{n}}]
      BY <2>2, <2>5 DEF granted
    <3>2. \A q \in Proc : n \notin Owned(q)
      BY <2>5 DEF Inv, Accounting
    <3>3. {n} \intersect Pages!Used = {}
      BY <3>2 DEF Pages!Used, granted
    <3>4. PICK u \in PageBlocks : u = {n}
      BY <2>3
    <3>5. Pages!Grant(p, u)
      BY <3>1, <3>3, <3>4 DEF Pages!Grant, granted
    <3>6. QED
      BY <3>5, GrantStep
  <2>6. QED
    BY <2>1, <2>4, <2>5, Moving DEF Inv, n
<1>3. QED
  BY <1>1, <1>2, Invariance, PTL DEF Spec, Pages!Spec, ImplementsAllocator
=================================================================================
