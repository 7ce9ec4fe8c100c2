---------------------------- MODULE PhysicalMemory ----------------------------
(***************************************************************************)
(* The physical page allocator of mm/physical.c after physical_init: a     *)
(* bitmap with one bit per page, guarded by physical_bitmapLock, scanned   *)
(* linearly for a free page above or below the 16 MB DMA limit.            *)
(*                                                                         *)
(* Several kernel contexts run the functions concurrently.  A bit is set   *)
(* or cleared by reading a byte of the bitmap, changing one bit and        *)
(* writing the byte back, so the two halves are separate steps: only the   *)
(* lock keeps one context's update from undoing another's.                 *)
(***************************************************************************)
EXTENDS PhysicalBoot

CONSTANTS Proc,      \* kernel contexts that allocate and free pages
          NoProc,    \* owner of a free lock
          Boots,     \* boot informations the machine may start from
          LowPage,   \* page of PHYSICAL_LOW_PADDRESS (1)
          HighPage   \* page of PHYSICAL_HIGH_PADDRESS (16 MB)

ASSUME MemoryAssumption ==
  /\ NoProc \notin Proc
  /\ Boots \subseteq BootInfo
  /\ {LowPage, HighPage} \subseteq Nat \ {0}

VARIABLES boot,     \* the boot information physical_init was given
          taken,    \* pages whose bit is set in physical_bitmap
          lock,     \* owner of physical_bitmapLock
          pc,       \* where each context is
          call,     \* function a context is in
          zone,     \* part of memory a context scans
          page,     \* address scanned, returned, or to be freed
          byte,     \* the bitmap byte read by the update in progress
          held,     \* pages that callers have been given and not freed
          panicked  \* kernel_panic has been called

vars == <<boot, taken, lock, pc, call, zone, page, byte, held, panicked>>

AllocCalls == {"pageAlloc", "pageAllocHigh", "pageAllocLow"}
Calls      == AllocCalls \union {"pageFree", "none"}
Zones      == {"high", "low"}

\* Bounds of the linear search in each half of memory.
First(z) == IF z = "high" THEN HighPage ELSE LowPage
Limit(z) == IF z = "high" \/ MaxPage(boot) < HighPage
            THEN MaxPage(boot) ELSE HighPage

\* BITMAP_BYTE_INDEX: pages whose bits are in one byte of the bitmap.
SameByte(m, n) == m \div ByteBits = n \div ByteBits

Init ==
  /\ boot \in Boots
  /\ taken = BootTaken(boot)
  /\ lock = NoProc
  /\ pc = [p \in Proc |-> "idle"]
  /\ call = [p \in Proc |-> "none"]
  /\ zone = [p \in Proc |-> "high"]
  /\ page = [p \in Proc |-> NULL]
  /\ byte = [p \in Proc |-> {}]
  /\ held = [p \in Proc |-> {}]
  /\ panicked = FALSE

At(p, l)   == ~ panicked /\ pc[p] = l
GoTo(p, l) == pc' = [pc EXCEPT ![p] = l]

(***************************************************************************)
(* The calls.  A caller frees a page it was given, or passes one of the    *)
(* two bad addresses the sanity check is there for.                        *)
(***************************************************************************)
CallAlloc(p, f) ==
  /\ At(p, "idle")
  /\ call' = [call EXCEPT ![p] = f]
  /\ zone' = [zone EXCEPT ![p] = IF f = "pageAllocLow" THEN "low" ELSE "high"]
  /\ GoTo(p, "lock")
  /\ UNCHANGED <<boot, taken, lock, page, byte, held, panicked>>

CallFree(p, n) ==
  /\ At(p, "idle")
  /\ n \in held[p] \union {NULL, MaxPage(boot)}
  /\ call' = [call EXCEPT ![p] = "pageFree"]
  /\ page' = [page EXCEPT ![p] = n]
  /\ held' = [held EXCEPT ![p] = @ \ {n}]
  /\ GoTo(p, "lock")
  /\ UNCHANGED <<boot, taken, lock, zone, byte, panicked>>

(***************************************************************************)
(* mutex_lock, then either the search or the sanity check of pageFree.     *)
(***************************************************************************)
\* Altered form: the lock is taken without waiting for its owner.
AcquireNoWait(p) == At(p, "lock") /\ lock' = p

Acquire(p) ==
  /\ At(p, "lock")
  /\ lock = NoProc
  /\ lock' = p

BeginScan(p) ==
  /\ Acquire(p)
  /\ call[p] \in AllocCalls
  /\ page' = [page EXCEPT ![p] = First(zone[p])]
  /\ GoTo(p, "scan")
  /\ UNCHANGED <<boot, taken, call, zone, byte, held, panicked>>

\* Altered form: physical_pageFree does not take the lock.
BeginFreeUnlocked(p) ==
  /\ At(p, "lock")
  /\ call[p] = "pageFree"
  /\ GoTo(p, IF GoodPage(boot, page[p]) THEN "load" ELSE "unlock")
  /\ UNCHANGED <<boot, taken, lock, call, zone, page, byte, held, panicked>>

BeginFree(p) ==
  /\ Acquire(p)
  /\ call[p] = "pageFree"
  /\ GoTo(p, IF GoodPage(boot, page[p]) THEN "load" ELSE "unlock")
  /\ UNCHANGED <<boot, taken, call, zone, page, byte, held, panicked>>

\* Altered form: the search fails with FAIL (-1), not with NULL.
ScanOverFail(p) ==
  /\ page[p] >= Limit(zone[p])
  /\ page' = [page EXCEPT ![p] = -1]
  /\ GoTo(p, "unlock")

\* One turn of the loop of physical_pageAllocLimit.
ScanOver(p) ==
  /\ page[p] >= Limit(zone[p])
  /\ page' = [page EXCEPT ![p] = NULL]
  /\ GoTo(p, "unlock")

\* Altered form: the search advances by a byte of the bitmap.
ScanTakenByByte(p) ==
  /\ page[p] < Limit(zone[p])
  /\ page[p] \in taken
  /\ page' = [page EXCEPT ![p] = @ + ByteBits]
  /\ UNCHANGED pc

\* Altered form: the search does not advance.
ScanTakenInPlace(p) ==
  /\ page[p] < Limit(zone[p])
  /\ page[p] \in taken
  /\ UNCHANGED <<page, pc>>

ScanTaken(p) ==
  /\ page[p] < Limit(zone[p])
  /\ page[p] \in taken
  /\ page' = [page EXCEPT ![p] = @ + 1]
  /\ UNCHANGED pc

\* Altered form: the free page found is returned without being marked.
ScanFreeUnmarked(p) ==
  /\ page[p] < Limit(zone[p])
  /\ page[p] \notin taken
  /\ GoTo(p, "unlock")
  /\ UNCHANGED page

ScanFree(p) ==
  /\ page[p] < Limit(zone[p])
  /\ page[p] \notin taken
  /\ GoTo(p, "load")
  /\ UNCHANGED page

Scan(p) ==
  /\ At(p, "scan")
  /\ ScanOver(p) \/ ScanTaken(p) \/ ScanFree(p)
  /\ UNCHANGED <<boot, taken, lock, call, zone, byte, held, panicked>>

\* The |= of physical_pageAllocAddress and the &= of physical_pageFree.
Load(p) ==
  /\ At(p, "load")
  /\ byte' = [byte EXCEPT ![p] = {n \in taken : SameByte(n, page[p])}]
  /\ GoTo(p, "store")
  /\ UNCHANGED <<boot, taken, lock, call, zone, page, held, panicked>>

Store(p) ==
  /\ At(p, "store")
  /\ taken' = {n \in taken : ~ SameByte(n, page[p])} \union
                (IF call[p] = "pageFree" THEN byte[p] \ {page[p]}
                                         ELSE byte[p] \union {page[p]})
  /\ byte' = [byte EXCEPT ![p] = {}]
  /\ GoTo(p, "unlock")
  /\ UNCHANGED <<boot, lock, call, zone, page, held, panicked>>

Unlock(p) ==
  /\ At(p, "unlock")
  /\ lock' = NoProc
  /\ GoTo(p, "return")
  /\ UNCHANGED <<boot, taken, call, zone, page, byte, held, panicked>>

(***************************************************************************)
(* After the unlock: physical_pageAlloc tries low memory when high memory  *)
(* gave NULL, and panics when low memory gives NULL too; the other calls   *)
(* return what they have, and their local variables are gone.              *)
(***************************************************************************)
Failed(p, z) == call[p] = "pageAlloc" /\ zone[p] = z /\ page[p] = NULL

Retry(p) ==
  /\ At(p, "return")
  /\ Failed(p, "high")
  /\ zone' = [zone EXCEPT ![p] = "low"]
  /\ GoTo(p, "lock")
  /\ UNCHANGED <<boot, taken, lock, call, page, byte, held, panicked>>

Panic(p) ==
  /\ At(p, "return")
  /\ Failed(p, "low")
  /\ panicked' = TRUE
  /\ UNCHANGED <<boot, taken, lock, pc, call, zone, page, byte, held>>

Return(p) ==
  /\ At(p, "return")
  /\ ~ Failed(p, "high") /\ ~ Failed(p, "low")
  /\ held' = [held EXCEPT ![p] =
                IF call[p] \in AllocCalls THEN @ \union ({page[p]} \ {NULL})
                                          ELSE @]
  /\ call' = [call EXCEPT ![p] = "none"]
  /\ zone' = [zone EXCEPT ![p] = "high"]
  /\ page' = [page EXCEPT ![p] = NULL]
  /\ GoTo(p, "idle")
  /\ UNCHANGED <<boot, taken, lock, byte, panicked>>

\* kernel_panic does not return: nothing runs any more.
Halted == panicked /\ UNCHANGED vars

Step(p) ==
  \/ BeginScan(p) \/ BeginFree(p) \/ Scan(p) \/ Load(p) \/ Store(p)
  \/ Unlock(p) \/ Retry(p) \/ Panic(p) \/ Return(p)

Next ==
  \/ \E p \in Proc :
       \/ \E f \in AllocCalls : CallAlloc(p, f)
       \/ \E n \in held[p] \union {NULL, MaxPage(boot)} : CallFree(p, n)
       \/ Step(p)
  \/ Halted

Spec == Init /\ [][Next]_vars

\* A context that is inside a call goes on running: no code between the lock
\* and the return waits for anything but the lock.
FairSpec == Spec /\ \A p \in Proc : WF_vars(Step(p))
-------------------------------------------------------------------------------
(***************************************************************************)
(* Properties.                                                             *)
(***************************************************************************)

\* Type invariant of the bitmap, the lock and the contexts' local variables.
TypeOK ==
  /\ boot \in Boots
  /\ taken \subseteq Nat
  /\ lock \in Proc \union {NoProc}
  /\ pc \in [Proc -> {"idle", "lock", "scan", "load", "store", "unlock",
                      "return"}]
  /\ call \in [Proc -> Calls]
  /\ zone \in [Proc -> Zones]
  /\ page \in [Proc -> Nat]
  /\ byte \in [Proc -> SUBSET Nat]
  /\ held \in [Proc -> SUBSET Nat]
  /\ panicked \in BOOLEAN

\* The page a call in progress is answerable for: from the moment its bit is
\* set until it is returned, and from the call of pageFree until it is cleared.
InFlight(p) ==
  IF /\ GoodPage(boot, page[p])
     /\ \/ call[p] = "pageFree" /\ pc[p] \in {"lock", "load", "store"}
        \/ call[p] \in AllocCalls /\ pc[p] \in {"unlock", "return"}
  THEN {page[p]} ELSE {}

Owned(p) == held[p] \union InFlight(p)

\* No page is lost and none leaks: the bits that are set are those set at boot
\* plus one for each page some context has or is about to be given.  Two bits
\* of one byte may be changed by different contexts, which only
\* physical_bitmapLock keeps from overwriting each other.
Accounting == taken = BootTaken(boot) \union UNION {Owned(p) : p \in Proc}

\* A page has one owner: physical_pageAlloc never returns a page that another
\* caller holds, nor one that was reserved at boot.
PagesExclusive ==
  /\ \A p, q \in Proc : p # q => Owned(p) \intersect Owned(q) = {}
  /\ \A p \in Proc : Owned(p) \intersect BootTaken(boot) = {}

\* A page handed out is real memory and shares no byte with the kernel image
\* or with the bitmap behind it (the reservation at the end of physical_init);
\* NULL is never a page.
KernelSafe ==
  \A p \in Proc : \A n \in Owned(p) :
    /\ n # NULL
    /\ n < MaxPage(boot)
    /\ \/ (n + 1) * PageUnits <= KernelStart * PageUnits
       \/ n * PageUnits >= KernelEnd + BitmapBytes(boot)

\* What the linear search says is true when it says it: the page it stops at
\* is the lowest free one of its half of memory, and it gives up only when
\* every page there is taken.
FirstFree ==
  [][\A p \in Proc :
       pc[p] = "scan" /\ pc'[p] # "scan" =>
         \A n \in First(zone[p]) .. (Limit(zone[p]) - 1) :
           n \notin taken => page'[p] # NULL /\ page'[p] <= n]_vars

\* Every path through the functions, the early exits for a bad address and an
\* empty half of memory included, gives the lock back (a panic elsewhere aside).
LockReleased ==
  \A p \in Proc : lock = p ~> lock # p \/ panicked

\* physical_pageAlloc and physical_pageFree implement an allocator of
\* one-page blocks: granted when the bit is set, released when it is cleared.
Pages == INSTANCE Allocator WITH
           Client  <- Proc,
           Block   <- {{n} : n \in 0 .. (AddressPages - 1)},
           granted <- [p \in Proc |-> {{n} : n \in Owned(p)}]
ImplementsAllocator == Pages!Spec

\* "No more physical memory available." (the argument of kernel_panic): when
\* physical_pageAlloc gives up, at the end of its search of low memory and with
\* the lock still held, no page of high memory is free either.
GivesUpWhenFull ==
  [][\A p \in Proc :
       call[p] = "pageAlloc" /\ zone[p] = "low"
         /\ pc[p] = "scan" /\ pc'[p] = "unlock" /\ page'[p] = NULL =>
         \A n \in HighPage .. (MaxPage(boot) - 1) : n \in taken]_vars
===============================================================================
