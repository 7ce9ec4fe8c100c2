------------------------------ MODULE KernelLocks ------------------------------
(***************************************************************************)
(* The three locks of MimicOS' memory management together: mm_kmallocLock  *)
(* (mm/mm.c), paging_lock (mm/paging.c) and physical_bitmapLock            *)
(* (mm/physical.c).  mm_kmalloc takes pages, and maps them, while it holds *)
(* the first; paging_createDirectory takes a page while it holds the       *)
(* second; each search of the page bitmap takes the third, and             *)
(* kernel_panic stops the kernel with whatever is held.                    *)
(*                                                                         *)
(* The heap, the tables and the bitmap themselves are in KernelHeap,       *)
(* PageTables and PhysicalMemory; here free pages are counted.  The names  *)
(* are none of PageTables': PagingProofs extends both modules.             *)
(***************************************************************************)
EXTENDS Integers

CONSTANTS Proc,      \* kernel contexts
          NoProc,    \* owner of a free lock
          Pages,     \* free pages at first, in high and in low memory
          Growth,    \* numbers of pages a growth of the heap takes
          MaxCalls   \* bound on the calls of each context

Half == {"high", "low"}
Lock == {"kmalloc", "paging", "bitmap"}

ASSUME LocksAssumption ==
  /\ NoProc \notin Proc
  /\ Pages \in [Half -> Nat] /\ Growth \subseteq Nat \ {0}
  /\ MaxCalls \in [Proc -> Nat]

VARIABLES owner,     \* who holds each lock
          pc,        \* where each context is
          ret,       \* where physical_pageAlloc returns to
          more,      \* pages mm_morecore has yet to map
          free,      \* free pages in high and in low memory
          own,       \* pages callers of physical_pageAlloc hold
          entered,   \* calls a context has made
          panicked   \* kernel_panic was called

locksVars == <<owner, pc, ret, more, free, own, entered, panicked>>

LocksInit ==
  /\ owner = [l \in Lock |-> NoProc]
  /\ pc = [p \in Proc |-> "idle"] /\ ret = [p \in Proc |-> "idle"]
  /\ more = [p \in Proc |-> 0] /\ entered = [p \in Proc |-> 0]
  /\ free = Pages
  /\ own = [p \in Proc |-> 0]
  /\ panicked = FALSE

At(p, l)   == ~ panicked /\ pc[p] = l
Goto(p, l) == pc' = [pc EXCEPT ![p] = l]
Keep(p, l) == Goto(p, l) /\ UNCHANGED owner

\* mutex_lock waits until the lock is free; mutex_unlock frees it.
TakeLock(p, l, at) == owner[l] = NoProc /\ owner' = [owner EXCEPT ![l] = p] /\ Goto(p, at)
GiveLock(p, l, at) == owner' = [owner EXCEPT ![l] = NoProc] /\ Goto(p, at)

-------------------------------------------------------------------------------
(***************************************************************************)
(* The calls.                                                              *)
(***************************************************************************)
\* Where a call begins: each of these takes its lock first, or, for
\* physical_pageAlloc, searches high memory first.
EntryPoint == {"mm_kmalloc", "mm_kfree", "createDirectory", "pageFree", "high"}

EnterCall(p, c) ==
  /\ At(p, "idle")
  /\ entered[p] < MaxCalls[p]   \* bound: each context makes so many calls
  /\ entered' = [entered EXCEPT ![p] = @ + 1]
  /\ c = "pageFree" => own[p] > 0
  /\ own' = IF c = "pageFree" THEN [own EXCEPT ![p] = @ - 1] ELSE own
  /\ ret' = [ret EXCEPT ![p] = "idle"]
  /\ Keep(p, c)
  /\ UNCHANGED <<more, free, panicked>>

(***************************************************************************)
(* physical_pageAlloc: a search of high memory under the lock, then, when  *)
(* it found nothing, one of low memory under the lock again.               *)
(***************************************************************************)
Alloc(p, back) == ret' = [ret EXCEPT ![p] = back] /\ Keep(p, "high")

Searching(h) == IF h = "high" THEN "in high" ELSE "in low"

LockBitmap(p, h) ==
  /\ At(p, h)
  /\ TakeLock(p, "bitmap", Searching(h))
  /\ UNCHANGED <<ret, more, free, own, entered, panicked>>

\* Altered form: the lock is given back by the caller.
FoundLocked(p, h) ==
  /\ At(p, Searching(h)) /\ free[h] > 0
  /\ free' = [free EXCEPT ![h] = @ - 1]
  /\ own' = IF ret[p] = "idle" THEN [own EXCEPT ![p] = @ + 1] ELSE own
  /\ IF ret[p] = "idle" THEN GiveLock(p, "bitmap", ret[p]) ELSE Keep(p, ret[p])
  /\ UNCHANGED <<ret, more, entered, panicked>>

Found(p, h) ==
  /\ At(p, Searching(h)) /\ free[h] > 0
  /\ free' = [free EXCEPT ![h] = @ - 1]
  /\ own' = IF ret[p] = "idle" THEN [own EXCEPT ![p] = @ + 1] ELSE own
  /\ GiveLock(p, "bitmap", ret[p])
  /\ UNCHANGED <<ret, more, entered, panicked>>

\* Altered form: high memory is searched again.
RetryHigh(p) ==
  /\ At(p, "in high") /\ free["high"] = 0
  /\ GiveLock(p, "bitmap", "high")
  /\ UNCHANGED <<ret, more, free, own, entered, panicked>>

Retry(p) ==
  /\ At(p, "in high") /\ free["high"] = 0
  /\ GiveLock(p, "bitmap", "low")
  /\ UNCHANGED <<ret, more, free, own, entered, panicked>>

\* The lock is given back before the kernel stops.
Panic(p) ==
  /\ At(p, "in low") /\ free["low"] = 0
  /\ GiveLock(p, "bitmap", "panic")
  /\ panicked' = TRUE
  /\ UNCHANGED <<ret, more, free, own, entered>>

\* physical_pageFree.
LockFree(p) ==
  /\ At(p, "pageFree")
  /\ TakeLock(p, "bitmap", "in pageFree")
  /\ UNCHANGED <<ret, more, free, own, entered, panicked>>

EndFree(p) ==
  /\ At(p, "in pageFree")
  /\ \E h \in Half : free' = [free EXCEPT ![h] = @ + 1]
  /\ GiveLock(p, "bitmap", "idle")
  /\ UNCHANGED <<ret, more, own, entered, panicked>>

(***************************************************************************)
(* mm_kmalloc and mm_kfree.                                                *)
(***************************************************************************)
LockHeap(p) ==
  /\ \/ At(p, "mm_kmalloc") /\ TakeLock(p, "kmalloc", "in mm_kmalloc")
     \/ At(p, "mm_kfree") /\ TakeLock(p, "kmalloc", "heap done")
  /\ UNCHANGED <<ret, more, free, own, entered, panicked>>

\* An item fits, or mm_morecore is called for some pages.
Search(p) ==
  /\ At(p, "in mm_kmalloc")
  /\ \/ Keep(p, "heap done") /\ UNCHANGED more
     \/ \E n \in Growth : more' = [more EXCEPT ![p] = n] /\ Keep(p, "more")
  /\ UNCHANGED <<ret, free, own, entered, panicked>>

\* The loop of mm_morecore: a page, then its mapping.
MoreCore(p) ==
  /\ At(p, "more")
  /\ IF more[p] > 0 THEN Alloc(p, "map") ELSE Keep(p, "heap done") /\ UNCHANGED ret
  /\ UNCHANGED <<more, free, own, entered, panicked>>

UnlockHeap(p) ==
  /\ At(p, "heap done")
  /\ GiveLock(p, "kmalloc", "idle")
  /\ UNCHANGED <<ret, more, free, own, entered, panicked>>

(***************************************************************************)
(* paging_map (external: no source) may take paging_lock, or run without   *)
(* it; paging_getPageTableEntry, below it, takes a page for a new table.   *)
(***************************************************************************)
Map(p) ==
  /\ At(p, "map")
  /\ Keep(p, "lock map") \/ Keep(p, "in map")
  /\ UNCHANGED <<ret, more, free, own, entered, panicked>>

LockMap(p) ==
  /\ At(p, "lock map")
  /\ TakeLock(p, "paging", "in map")
  /\ UNCHANGED <<ret, more, free, own, entered, panicked>>

MapEntry(p) ==
  /\ At(p, "in map")
  /\ Alloc(p, "mapped") \/ (Keep(p, "mapped") /\ UNCHANGED ret)
  /\ UNCHANGED <<more, free, own, entered, panicked>>

Mapped(p) ==
  /\ At(p, "mapped")
  /\ more' = [more EXCEPT ![p] = @ - 1]
  /\ IF owner["paging"] = p THEN GiveLock(p, "paging", "more") ELSE Keep(p, "more")
  /\ UNCHANGED <<ret, free, own, entered, panicked>>

(***************************************************************************)
(* paging_createDirectory.                                                 *)
(***************************************************************************)
LockPaging(p) ==
  /\ At(p, "createDirectory")
  /\ TakeLock(p, "paging", "new directory")
  /\ UNCHANGED <<ret, more, free, own, entered, panicked>>

AllocDirectory(p) ==
  /\ At(p, "new directory")
  /\ Alloc(p, "directory done")
  /\ UNCHANGED <<more, free, own, entered, panicked>>

UnlockPaging(p) ==
  /\ At(p, "directory done")
  /\ GiveLock(p, "paging", "idle")
  /\ UNCHANGED <<ret, more, free, own, entered, panicked>>

-------------------------------------------------------------------------------
\* What a context does inside a call.
Step(p) ==
  \/ \E h \in Half : LockBitmap(p, h) \/ Found(p, h)
  \/ Retry(p) \/ Panic(p) \/ LockFree(p) \/ EndFree(p)
  \/ LockHeap(p) \/ Search(p) \/ MoreCore(p) \/ UnlockHeap(p)
  \/ Map(p) \/ LockMap(p) \/ MapEntry(p) \/ Mapped(p)
  \/ LockPaging(p) \/ AllocDirectory(p) \/ UnlockPaging(p)

\* The calls have all been made, or kernel_panic did not return.
Halted ==
  /\ panicked \/ \A p \in Proc : pc[p] = "idle" /\ entered[p] = MaxCalls[p]
  /\ UNCHANGED locksVars

LocksNext ==
  \/ \E p \in Proc : Step(p) \/ \E c \in EntryPoint : EnterCall(p, c)
  \/ Halted

LocksSpec == LocksInit /\ [][LocksNext]_locksVars

\* A context that is inside a call, and not waiting, goes on running.
FairSpec == LocksSpec /\ \A p \in Proc : WF_locksVars(Step(p))
-------------------------------------------------------------------------------
(***************************************************************************)
(* Properties.                                                             *)
(***************************************************************************)
Inside == {"in high", "in low", "in pageFree", "in mm_kmalloc", "heap done", "more",
           "map", "in map", "mapped", "new directory", "directory done"}

Counts ==
  /\ more \in [Proc -> Int] /\ entered \in [Proc -> Nat]
  /\ free \in [Half -> Nat] /\ own \in [Proc -> Nat]

\* Type invariant of the locks, of the contexts' progress, and of what is
\* counted: no context frees or takes a page that is not there.
LocksTypeOK ==
  /\ owner \in [Lock -> Proc \union {NoProc}]
  /\ pc \in [Proc -> {"idle", "low", "lock map", "panic"} \union EntryPoint \union Inside]
  /\ ret \in [Proc -> {"idle", "map", "mapped", "directory done"}]
  /\ panicked \in BOOLEAN
  /\ Counts

\* The lock a context is about to take, wherever it may have to wait.
Wanted(p) ==
  {l \in Lock : \/ l = "kmalloc" /\ pc[p] \in {"mm_kmalloc", "mm_kfree"}
                \/ l = "paging" /\ pc[p] \in {"createDirectory", "lock map"}
                \/ l = "bitmap" /\ pc[p] \in {"high", "low", "pageFree"}}

\* However the calls of mm.c, paging.c and physical.c meet, no contexts wait for
\* locks that only they themselves hold: not in a circle, nor one for its own.
NoDeadlock ==
  \A S \in (SUBSET Proc) \ {{}} :
    \E p \in S : \A l \in Wanted(p) : owner[l] \notin S

\* Every call comes to its end, whatever locks it has to wait for on the way,
\* unless the kernel panics.
CallsReturn == \A p \in Proc : pc[p] # "idle" ~> pc[p] = "idle" \/ panicked
===============================================================================
